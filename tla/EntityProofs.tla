---------------------------- MODULE EntityProofs -----------------------------
(***************************************************************************)
(* Theorems about the entity tables and their readers, for every layer 0,    *)
(* every set of deletions and every interleaving: relations join nodes that   *)
(* exist and an `implements` leads to an interface, the types that a reader   *)
(* remembers are those of the symbols, and what it answers is a closure.      *)
(***************************************************************************)
EXTENDS EntityGraph, DataInduction, SequenceTheorems

RollupSpec == RollupInit /\ [][RollupNext]_rollupVars

\* A symbol that is, or was, a record or an enum; the end of a relation may be a
\* namespace, too.
NodeLike(s) == KindOf(s) \intersect NodeKinds # {}
EndLike(s) == KindOf(s) \intersect (NodeKinds \union {"namespace"}) # {}

\* The hops of a record lead to records.
Hops(ctx) ==
    /\ ctx.hop \in [Ids -> Ids \union {None}]
    /\ \A s \in Ids : NodeLike(s) /\ ctx.hop[s] # None => NodeLike(ctx.hop[s])

-----------------------------------------------------------------------------
(* Kinds and hops. *)

LEMMA NoneIsNoKind ==
    None \notin NodeKinds /\ None \notin EntityKinds /\ None # "namespace" /\ None # "method"
BY Layer0IsSound DEF All, NodeKinds, Callers

LEMMA KindIsFixed ==
    ASSUME NEW db, Sound(db), NEW s \in Ids
    PROVE  /\ s \in Present(db) => /\ NodeLike(s) <=> db.kind[s] \in NodeKinds
                                   /\ EndLike(s) <=> db.kind[s] \in NodeKinds \union {"namespace"}
           /\ db.kind[s] \in NodeKinds => NodeLike(s) /\ s \in Present(db)
           /\ db.kind[s] \in NodeKinds \union {"namespace"} => EndLike(s)
           /\ NodeLike(s) => EndLike(s)
<1>1. db.kind[s] \in KindOf(s) \union {None}
    BY DEF Sound
<1>2. \A k, l \in KindOf(s) : k = l
    BY Layer0IsSound
<1>3. s \in Present(db) <=> db.kind[s] # None
    BY DEF Present
<1> QED BY <1>1, <1>2, <1>3, NoneIsNoKind DEF NodeLike, EndLike

LEMMA HopsOfLayer0 ==
    ASSUME NEW db, Sound(db)
    PROVE  Hops(RollupState(db))
<1>1. ASSUME NEW s \in Ids
      PROVE  /\ NextHop(db, s) \in Ids \union {None}
             /\ NodeLike(s) /\ NextHop(db, s) # None => NodeLike(NextHop(db, s))
  <2> DEFINE hops(k) == {e.dst : e \in {x \in db.edge : x.src = s /\ x.kind = k}}
             lowest(S) == CHOOSE x \in S : \A y \in S : x <= y
  <2>1. ASSUME NEW k \in {"specializes", "instantiates"}
        PROVE  /\ hops(k) \subseteq Ids
               /\ NodeLike(s) => \A d \in hops(k) : NodeLike(d)
    <3> SUFFICES ASSUME NEW e \in db.edge, e.src = s, e.kind = k
                 PROVE  e.dst \in Ids /\ (NodeLike(s) => NodeLike(e.dst))
        OBVIOUS
    <3>1. e.dst \in Ids /\ s \in Present(db)
        BY DEF Sound, Present
    <3>2. db.kind[s] \in NodeKinds => db.kind[e.dst] \in NodeKinds
        BY <2>1 DEF Sound
    <3> QED BY <3>1, <3>2, KindIsFixed
  <2>2. ASSUME NEW S \in SUBSET Ids, S # {} PROVE lowest(S) \in S
    <3>1. \E x \in S : \A y \in S : x <= y
        BY <2>2, IdsAreNumbers, LeastNumber
    <3> QED BY <3>1
  <2>3. NextHop(db, s) = IF hops("specializes") # {} THEN lowest(hops("specializes"))
                         ELSE IF hops("instantiates") # {} THEN lowest(hops("instantiates")) ELSE None
      BY DEF NextHop
  <2> HIDE DEF hops, lowest
  <2>4. CASE hops("specializes") # {}
      BY <2>1, <2>2, <2>3, <2>4
  <2>5. CASE hops("specializes") = {} /\ hops("instantiates") # {}
      BY <2>1, <2>2, <2>3, <2>5
  <2>6. CASE hops("specializes") = {} /\ hops("instantiates") = {}
      BY <2>3, <2>6
  <2> QED BY <2>4, <2>5, <2>6
<1>2. RollupState(db).hop = [s \in Ids |-> NextHop(db, s)]
    BY DEF RollupState
<1> QED BY <1>1, <1>2 DEF Hops

\* The trail of Collapse, for any lookup tables.
LEMMA CollapseFollows ==
    ASSUME NEW ctx, Hops(ctx), NEW s \in Ids
    PROVE  \E f \in [Nat -> Seq(Ids) \ {<< >>}] :
              /\ f[0] = <<s>>
              /\ \A n \in Nat : f[n + 1] = IF \/ ctx.hop[Last(f[n])] = None
                                              \/ Last(f[n]) \in Range(Front(f[n]))
                                           THEN f[n] ELSE Append(f[n], ctx.hop[Last(f[n])])
              /\ Collapse(ctx, s) = Last(f[Cardinality(Ids)])
<1> DEFINE C == Cardinality(Ids)
           V == Seq(Ids) \ {<< >>}
           Next1(t) == IF ctx.hop[Last(t)] = None \/ Last(t) \in Range(Front(t)) THEN t
                       ELSE Append(t, ctx.hop[Last(t)])
           G == [t \in V |-> Next1(t)]
           v == <<s>>
           trail[n \in 0..C] ==
               IF n = 0 THEN <<s>>
               ELSE LET t == trail[n - 1]
                    IN  IF ctx.hop[Last(t)] = None \/ Last(t) \in Range(Front(t)) THEN t
                        ELSE Append(t, ctx.hop[Last(t)])
<1>1. C \in Nat
    BY IdsAreNumbers, FS_CardinalityType
<1>2. ASSUME NEW t \in V PROVE Next1(t) \in V
  <2>1. Len(t) \in 1..Len(t) /\ Last(t) = t[Len(t)] /\ Last(t) \in Ids
      BY DEF Last
  <2>2. ctx.hop[Last(t)] \in Ids \union {None}
      BY <2>1 DEF Hops
  <2> QED BY <2>2
<1>3. v \in V
    OBVIOUS
<1> HIDE DEF V
<1>4. G \in [V -> V]
    BY <1>2
<1> HIDE DEF G, v
<1>5. PICK f \in [Nat -> V] : f[0] = v /\ \A n \in Nat : f[n + 1] = G[f[n]]
    BY <1>3, <1>4, Iterates
<1>6. \A n \in Nat : f[n] \in V /\ f[n + 1] = Next1(f[n])
  <2> HIDE DEF Next1
  <2> QED BY <1>5 DEF G
<1> DEFINE h == [n \in 0..C |-> f[n]]
<1>7. h = [n \in 0..C |-> IF n = 0 THEN <<s>>
                          ELSE LET t == h[n - 1]
                               IN  IF ctx.hop[Last(t)] = None \/ Last(t) \in Range(Front(t)) THEN t
                                   ELSE Append(t, ctx.hop[Last(t)])]
  <2>1. ASSUME NEW n \in 0..C
        PROVE  h[n] = IF n = 0 THEN v ELSE Next1(h[n - 1])
    <3>1. CASE n = 0
        BY <1>1, <1>5, <3>1
    <3>2. CASE n # 0
      <4>1. n - 1 \in Nat /\ n - 1 \in 0..C /\ (n - 1) + 1 = n
          BY <1>1, <3>2
      <4>2. f[(n - 1) + 1] = Next1(f[n - 1])
          BY <1>6, <4>1
      <4> HIDE DEF Next1
      <4> QED BY <3>2, <4>1, <4>2
    <3> QED BY <3>1, <3>2
  <2>2. h = [n \in 0..C |-> h[n]]
      OBVIOUS
  <2> HIDE DEF h
  <2> QED BY <2>1, <2>2, Zenon DEF v
<1>8. Collapse(ctx, s) = Last(trail[C])
    BY Zenon DEF Collapse, trail
<1>9. trail = [n \in 0..C |-> IF n = 0 THEN <<s>>
                              ELSE LET t == trail[n - 1]
                                   IN  IF ctx.hop[Last(t)] = None \/ Last(t) \in Range(Front(t)) THEN t
                                       ELSE Append(t, ctx.hop[Last(t)])]
    BY <1>7, Zenon DEF trail
<1> HIDE DEF trail, h
<1>10. \A n \in 0..C : trail[n] = IF n = 0 THEN v ELSE Next1(trail[n - 1])
    BY <1>9 DEF v
<1> DEFINE T == {n \in Nat : n <= C => trail[n] = f[n]}
<1>11. 0 \in T
    BY <1>1, <1>5, <1>10
<1>12. ASSUME NEW n \in T \intersect Nat PROVE n + 1 \in T
  <2> SUFFICES ASSUME n + 1 <= C PROVE trail[n + 1] = f[n + 1]
      OBVIOUS
  <2>1. trail[n] = f[n] /\ n + 1 \in 0..C /\ n + 1 # 0 /\ (n + 1) - 1 = n
      BY <1>1
  <2> HIDE DEF Next1
  <2>2. trail[n + 1] = Next1(trail[n])
      BY <1>10, <2>1
  <2> QED BY <1>6, <2>1, <2>2
<1> HIDE DEF T
<1>13. C \in T
    BY <1>1, <1>11, <1>12, SetInduction
<1>14. Collapse(ctx, s) = Last(f[C])
    BY <1>1, <1>8, <1>13 DEF T
<1>15. f \in [Nat -> Seq(Ids) \ {<< >>}] /\ f[0] = <<s>>
    BY <1>5 DEF v, V
<1> QED BY <1>6, <1>14, <1>15

\* However long its chain is and whether it ends: a record is collapsed to a record.
LEMMA CollapseStays ==
    ASSUME NEW ctx, Hops(ctx), NEW s \in Ids, NodeLike(s)
    PROVE  Collapse(ctx, s) \in Ids /\ NodeLike(Collapse(ctx, s))
<1> DEFINE C == Cardinality(Ids)
           Records(t) == \A i \in DOMAIN t : NodeLike(t[i])
<1>1. C \in Nat
    BY IdsAreNumbers, FS_CardinalityType
<1>2. PICK f \in [Nat -> Seq(Ids) \ {<< >>}] :
              /\ f[0] = <<s>>
              /\ \A n \in Nat : f[n + 1] = IF \/ ctx.hop[Last(f[n])] = None
                                              \/ Last(f[n]) \in Range(Front(f[n]))
                                           THEN f[n] ELSE Append(f[n], ctx.hop[Last(f[n])])
              /\ Collapse(ctx, s) = Last(f[C])
    BY CollapseFollows, Zenon
<1>3. ASSUME NEW t \in Seq(Ids) \ {<< >>}, Records(t)
      PROVE  /\ Last(t) \in Ids /\ NodeLike(Last(t))
             /\ ctx.hop[Last(t)] # None => Records(Append(t, ctx.hop[Last(t)]))
  <2>1. Len(t) \in DOMAIN t /\ Last(t) = t[Len(t)] /\ t[Len(t)] \in Ids
      BY DEF Last
  <2>2. Last(t) \in Ids /\ NodeLike(Last(t))
      BY <1>3, <2>1
  <2>3. ASSUME ctx.hop[Last(t)] # None PROVE Records(Append(t, ctx.hop[Last(t)]))
    <3> DEFINE h == ctx.hop[Last(t)]
    <3>1. h \in Ids /\ NodeLike(h)
        BY <2>2, <2>3 DEF Hops
    <3> HIDE DEF h
    <3>2. Records(Append(t, h))
        BY <1>3, <3>1
    <3> QED BY <3>2 DEF h
  <2> QED BY <2>2, <2>3
<1> HIDE DEF Records, C
<1> DEFINE T == {n \in Nat : Records(f[n])}
<1>4. 0 \in T
    BY <1>2 DEF Records
<1>5. ASSUME NEW n \in T \intersect Nat PROVE n + 1 \in T
  <2> DEFINE t == f[n]
             h == ctx.hop[Last(t)]
  <2>1. t \in Seq(Ids) \ {<< >>} /\ Records(t)
      BY <1>2
  <2>2. f[n + 1] = t \/ (h # None /\ f[n + 1] = Append(t, h))
      BY <1>2
  <2>3. Records(f[n + 1])
      BY <1>3, <2>1, <2>2
  <2> QED BY <2>3
<1> HIDE DEF T
<1>6. C \in T
    BY <1>1, <1>4, <1>5, SetInduction
<1>7. Records(f[C]) /\ f[C] \in Seq(Ids) \ {<< >>}
    BY <1>1, <1>6 DEF T
<1> QED BY <1>2, <1>3, <1>7

-----------------------------------------------------------------------------
(* The rows of a phase. *)

RowFits(r, ctx, db) ==
    /\ r.key = Key(r.key.src, r.key.dst, r.key.kind, r.key.via, r.key.form)
    /\ r.key.src \in Ids /\ EndLike(r.key.src) /\ r.key.dst \in Ids /\ EndLike(r.key.dst)
    /\ r.key.kind = "implements" => /\ IsInterface(ctx, r.key.dst)
                                    /\ db.kind[r.key.dst] \notin {"enum", "union", "namespace"}
    /\ r.key.kind = "generalizes" => ~IsInterface(ctx, r.key.dst)

LEMMA KeyFits ==
    ASSUME NEW ctx, NEW db, NEW r, NEW s \in Ids, NEW d \in Ids, NEW k, NEW v, NEW f,
           EndLike(s), EndLike(d), k \notin {"implements", "generalizes"},
           r.key = Key(s, d, k, v, f)
    PROVE  RowFits(r, ctx, db)
<1>1. r.key.src = s /\ r.key.dst = d /\ r.key.kind = k /\ r.key.via = v /\ r.key.form = f
    BY DEF Key
<1> QED BY <1>1 DEF RowFits

LEMMA PlainKey ==
    ASSUME NEW s, NEW d, NEW k, NEW e
    PROVE  /\ Plain(s, d, k, e).key = Key(s, d, k, None, None)
           /\ \A v : [Plain(s, d, k, e) EXCEPT !.key.via = v].key = Key(s, d, k, v, None)
           /\ \A f : [Plain(s, d, k, e) EXCEPT !.key.form = f].key = Key(s, d, k, None, f)
BY DEF Plain, Key

LEMMA RecordsEnd ==
    ASSUME NEW db, NEW ctx, Sound(db), Hops(ctx), NEW s, s \in Ids, db.kind[s] \in NodeKinds
    PROVE  /\ EndLike(s)
           /\ Collapse(ctx, s) \in Ids /\ EndLike(Collapse(ctx, s))
<1>1. NodeLike(s) /\ EndLike(s)
    BY KindIsFixed
<1>2. Collapse(ctx, s) \in Ids /\ NodeLike(Collapse(ctx, s))
    BY <1>1, CollapseStays
<1> QED BY <1>1, <1>2 DEF NodeLike, EndLike

LEMMA EdgeTypes ==
    ASSUME NEW db, Sound(db), NEW e \in db.edge
    PROVE  e.src \in Ids /\ e.dst \in Ids /\ e.src \in Present(db) /\ e.dst \in Present(db)
BY DEF Sound, Present

LEMMA EntitiesAreNodes == EntityKinds \subseteq NodeKinds
BY DEF NodeKinds

\* The owner of a method and the type of a member are records or enums.
LEMMA OwnersAreNodes ==
    ASSUME NEW db, Sound(db), NEW m
    PROVE  /\ OwnerOf(db, m) # None => OwnerOf(db, m) \in Ids /\ db.kind[OwnerOf(db, m)] \in NodeKinds
           /\ EntityOfType(db, m) # None =>
                 EntityOfType(db, m) \in Ids /\ db.kind[EntityOfType(db, m)] \in NodeKinds
           /\ m \in Ids /\ Target(db, m) # None =>
                 Target(db, m) \in Ids /\ db.kind[Target(db, m)] \in NodeKinds
<1>1. ASSUME OwnerOf(db, m) # None
      PROVE  OwnerOf(db, m) \in Ids /\ db.kind[OwnerOf(db, m)] \in NodeKinds
  <2> DEFINE o == {e.dst : e \in {x \in Edges(db, {"method_of"}, All, EntityKinds) : x.src = m}}
  <2>1. o # {} /\ OwnerOf(db, m) \in o
      BY <1>1 DEF OwnerOf
  <2>2. \A d \in o : d \in Ids /\ db.kind[d] \in EntityKinds
      BY EdgeTypes DEF Edges
  <2> QED BY <2>1, <2>2, EntitiesAreNodes
<1>2. ASSUME EntityOfType(db, m) # None
      PROVE  EntityOfType(db, m) \in Ids /\ db.kind[EntityOfType(db, m)] \in NodeKinds
    BY <1>2, EntitiesAreNodes DEF EntityOfType
<1>3. ASSUME m \in Ids, Target(db, m) # None
      PROVE  Target(db, m) \in Ids /\ db.kind[Target(db, m)] \in NodeKinds
  <2>1. db.parent[m] \in Ids \union {None}
      BY <1>3 DEF Sound, Databases
  <2> QED BY <1>3, <2>1, EntitiesAreNodes DEF Target
<1> QED BY <1>1, <1>2, <1>3

LEMMA FieldKey ==
    ASSUME NEW db, NEW s, NEW d, NEW f, NEW e
    PROVE  \E k : /\ FieldRow(db, s, d, f, e).key = Key(s, d, k, f, None)
                  /\ k \in {"composes", "aggregates", "associates"}
<1> DEFINE c == ClassifyFieldType(db.type[f].wrap)
<1>1. c.kind \in {"composes", "aggregates", "associates"}
    BY DEF ClassifyFieldType
<1>2. FieldRow(db, s, d, f, e).key = Key(s, d, c.kind, f, None)
  <2>1. FieldRow(db, s, d, f, e) = [Plain(s, d, c.kind, e) EXCEPT !.key.via = f, !.mult = c.mult]
      BY DEF FieldRow
  <2> HIDE DEF c
  <2> QED BY <2>1 DEF Plain, Key
<1> QED BY <1>1, <1>2

LEMMA RowsFit ==
    ASSUME NEW db, NEW ctx, NEW nodes, Sound(db), Hops(ctx), NEW n \in 1..10,
           n = 10 => \A s \in Ids : nodes[s] # None => EndLike(s)
    PROVE  \A r \in Rows(Phases[n], db, ctx, nodes) : RowFits(r, ctx, db)
<1>1. ASSUME NEW r \in InheritanceRows(db, ctx) PROVE RowFits(r, ctx, db)
  <2>1. PICK e \in Edges(db, {"inherits"}, EntityKinds, EntityKinds) :
               r = [Plain(Collapse(ctx, e.src), e.dst,
                          IF IsInterface(ctx, e.dst) THEN "implements" ELSE "generalizes", e)
                      EXCEPT !.access = e.access]
      BY <1>1 DEF InheritanceRows
  <2> DEFINE s == Collapse(ctx, e.src)
             k == IF IsInterface(ctx, e.dst) THEN "implements" ELSE "generalizes"
  <2>2. e \in db.edge /\ e.kind = "inherits" /\ e.src \in Ids /\ e.dst \in Ids
        /\ db.kind[e.src] \in NodeKinds /\ db.kind[e.dst] \in NodeKinds
      BY EdgeTypes, EntitiesAreNodes DEF Edges
  <2>3. s \in Ids /\ EndLike(s) /\ EndLike(e.dst)
      BY <2>2, RecordsEnd
  <2>4. db.kind[e.dst] \notin {"enum", "union", "namespace"}
      BY <2>2 DEF Sound, NodeKinds, EntityKinds
  <2> HIDE DEF s, k
  <2>5. r.key = Key(s, e.dst, k, None, None)
      BY <2>1 DEF Plain, Key, s, k
  <2>6. r.key.src = s /\ r.key.dst = e.dst /\ r.key.kind = k /\ r.key.via = None /\ r.key.form = None
      BY <2>5 DEF Key
  <2> QED BY <2>2, <2>3, <2>4, <2>5, <2>6 DEF RowFits, k
<1>2. ASSUME NEW k \in {"specializes", "instantiates"}, NEW r \in TemplateRows(db, ctx, k)
      PROVE  RowFits(r, ctx, db)
  <2>1. PICK e \in Edges(db, {k}, NodeKinds, NodeKinds) : r = Plain(e.src, Collapse(ctx, e.dst), k, e)
      BY <1>2 DEF TemplateRows
  <2>2. e.src \in Ids /\ EndLike(e.src) /\ Collapse(ctx, e.dst) \in Ids /\ EndLike(Collapse(ctx, e.dst))
      BY EdgeTypes, RecordsEnd DEF Edges
  <2> QED BY <2>1, <2>2, KeyFits, PlainKey
<1>3. ASSUME NEW r \in FieldRows(db, ctx) PROVE RowFits(r, ctx, db)
  <2>1. PICK e \in Edges(db, {"field_of"}, {"field"}, EntityKinds) :
               /\ FieldReferent(db, e.src) # None
               /\ db.kind[FieldReferent(db, e.src)] \in EntityKinds
               /\ r = LET ref == FieldReferent(db, e.src)
                      IN  FieldRow(db, Collapse(ctx, e.dst),
                                   IF ref \in NamedInstances(db, e.src) THEN ref
                                   ELSE Collapse(ctx, ref), e.src, e)
      BY <1>3 DEF FieldRows
  <2> DEFINE ref == FieldReferent(db, e.src)
             d == IF ref \in NamedInstances(db, e.src) THEN ref ELSE Collapse(ctx, ref)
             s == Collapse(ctx, e.dst)
  <2>2. e \in db.edge /\ e.src \in Ids /\ e.dst \in Ids /\ db.kind[e.dst] \in NodeKinds
      BY EdgeTypes, EntitiesAreNodes DEF Edges
  <2>3. ref \in Ids
    <3> DEFINE N == NamedInstances(db, e.src)
    <3>1. N \subseteq Ids
        BY EdgeTypes DEF NamedInstances
    <3>2. CASE N # {}
      <4>1. \E x \in N : \A y \in N : x <= y
          BY <3>1, <3>2, IdsAreNumbers, LeastNumber
      <4>2. ref = CHOOSE x \in N : \A y \in N : x <= y
          BY <3>2 DEF FieldReferent
      <4> HIDE DEF N, ref
      <4> QED BY <3>1, <4>1, <4>2
    <3>3. CASE N = {} /\ db.arg[e.src] # None
      <4>1. ref = db.arg[e.src]
          BY <3>3 DEF FieldReferent
      <4> QED BY <2>2, <3>3, <4>1 DEF Sound, Databases
    <3>4. CASE N = {} /\ db.arg[e.src] = None
      <4>1. ref = EntityOfType(db, db.type[e.src])
          BY <3>4 DEF FieldReferent
      <4> QED BY <2>1, <4>1, OwnersAreNodes
    <3> QED BY <3>2, <3>3, <3>4
  <2>4. db.kind[ref] \in NodeKinds
      BY <2>1, EntitiesAreNodes
  <2>5. r = FieldRow(db, s, d, e.src, e)
      BY <2>1, Zenon DEF d, s, ref
  <2> HIDE DEF ref
  <2>6. s \in Ids /\ EndLike(s) /\ d \in Ids /\ EndLike(d)
      BY <2>2, <2>3, <2>4, RecordsEnd
  <2> HIDE DEF s, d
  <2>7. PICK k : FieldRow(db, s, d, e.src, e).key = Key(s, d, k, e.src, None)
                 /\ k \in {"composes", "aggregates", "associates"}
      BY FieldKey
  <2> QED BY <2>5, <2>6, <2>7, KeyFits
<1>4. ASSUME NEW r \in InstanceRows(db) PROVE RowFits(r, ctx, db)
  <2>1. PICK i \in Edges(db, {"instantiates"}, All, {"class_template"}),
             e \in Edges(db, {"field_of"}, {"field"}, NodeKinds) :
               /\ i.src \in db.named
               /\ Bound(db, i.src, e.src) # None
               /\ db.kind[Bound(db, i.src, e.src)] \in EntityKinds
               /\ r = FieldRow(db, i.src, Bound(db, i.src, e.src), e.src, e)
      BY <1>4 DEF InstanceRows
  <2> DEFINE d == Bound(db, i.src, e.src)
  <2>2. i.src \in Ids /\ i.src \in Present(db)
      BY EdgeTypes DEF Edges
  <2>3. db.kind[i.src] \in NodeKinds
      BY <2>1, <2>2 DEF Sound
  <2>4. d \in Ids
      BY <2>1, <2>2, OwnersAreNodes DEF Bound, Sound, Databases
  <2>5. EndLike(i.src) /\ EndLike(d)
      BY <2>1, <2>2, <2>3, <2>4, EntitiesAreNodes, RecordsEnd
  <2> HIDE DEF d
  <2>6. PICK k : FieldRow(db, i.src, d, e.src, e).key = Key(i.src, d, k, e.src, None)
                 /\ k \in {"composes", "aggregates", "associates"}
      BY FieldKey
  <2> QED BY <2>1, <2>2, <2>4, <2>5, <2>6, KeyFits DEF d
<1>5. ASSUME NEW r \in CreateRows(db, ctx) PROVE RowFits(r, ctx, db)
  <2> DEFINE sites == {e \in db.edge : /\ e.kind \in Forms \union {"destroy"}
                                       /\ OwnerOf(db, e.src) # None /\ Target(db, e.dst) # None}
             row(e, k) == Plain(Collapse(ctx, OwnerOf(db, e.src)), Collapse(ctx, Target(db, e.dst)), k, e)
             byValue == {e \in Edges(db, {"method_of"}, {"method", "constructor"}, EntityKinds) :
                            EntityOfType(db, db.type[e.src]) # None}
             made1(e) == [row(e, "creates") EXCEPT !.key.form = e.kind, !.partial = (e.kind = "factory")]
             made2(e) == [Plain(Collapse(ctx, e.dst), Collapse(ctx, EntityOfType(db, db.type[e.src])), "creates", e)
                            EXCEPT !.key.form = "return", !.partial = TRUE]
  <2>1. r \in {IF e.kind = "destroy" THEN row(e, "destroys") ELSE made1(e) : e \in sites}
              \union {made2(e) : e \in byValue}
      BY <1>5 DEF CreateRows
  <2>2. CASE \E e \in sites : r = IF e.kind = "destroy" THEN row(e, "destroys") ELSE made1(e)
    <3>1. PICK e \in sites : r = IF e.kind = "destroy" THEN row(e, "destroys") ELSE made1(e)
        BY <2>2
    <3> DEFINE s == Collapse(ctx, OwnerOf(db, e.src))
               d == Collapse(ctx, Target(db, e.dst))
    <3>2. s \in Ids /\ EndLike(s) /\ d \in Ids /\ EndLike(d)
        BY EdgeTypes, OwnersAreNodes, RecordsEnd
    <3>3. r.key = Key(s, d, "destroys", None, None) \/ r.key = Key(s, d, "creates", None, e.kind)
      <4>1. r = Plain(s, d, "destroys", e)
            \/ r = [Plain(s, d, "creates", e) EXCEPT !.key.form = e.kind, !.partial = (e.kind = "factory")]
          BY <3>1
      <4> DEFINE k == e.kind
                 p == e.kind = "factory"
      <4> HIDE DEF s, d, k, p
      <4>2. [Plain(s, d, "creates", e) EXCEPT !.key.form = k, !.partial = p].key
               = Key(s, d, "creates", None, k)
          BY DEF Plain, Key
      <4>3. CASE r = Plain(s, d, "destroys", e)
          BY <4>3, PlainKey
      <4>4. CASE r = [Plain(s, d, "creates", e) EXCEPT !.key.form = k, !.partial = p]
          BY <4>2, <4>4 DEF k
      <4> QED BY <4>1, <4>3, <4>4, Zenon DEF k, p
    <3> HIDE DEF s, d
    <3> QED BY <3>2, <3>3, KeyFits
  <2>3. CASE \E e \in byValue : r = made2(e)
    <3>1. PICK e \in byValue : r = made2(e)
        BY <2>3
    <3> DEFINE s == Collapse(ctx, e.dst)
               d == Collapse(ctx, EntityOfType(db, db.type[e.src]))
    <3>2. s \in Ids /\ EndLike(s) /\ d \in Ids /\ EndLike(d)
      <4>1. e.dst \in Ids /\ db.kind[e.dst] \in NodeKinds
          BY EdgeTypes, EntitiesAreNodes DEF Edges
      <4> QED BY <4>1, OwnersAreNodes, RecordsEnd
    <3>3. r.key = Key(s, d, "creates", None, "return")
      <4>1. r = [Plain(s, d, "creates", e) EXCEPT !.key.form = "return", !.partial = TRUE]
          BY <3>1
      <4> HIDE DEF s, d
      <4> QED BY <4>1 DEF Plain, Key
    <3> HIDE DEF s, d
    <3> QED BY <3>2, <3>3, KeyFits
  <2> QED BY <2>1, <2>2, <2>3
<1>6. ASSUME NEW r \in UseRows(db, ctx) PROVE RowFits(r, ctx, db)
  <2>1. PICK e \in Edges(db, {"calls", "uses"}, Callers, Callers) :
               /\ OwnerOf(db, e.src) # None /\ OwnerOf(db, e.dst) # None
               /\ r = [Plain(Collapse(ctx, OwnerOf(db, e.src)), Collapse(ctx, OwnerOf(db, e.dst)), "uses", e)
                         EXCEPT !.key.via = e.dst, !.partial = (e.dst \in db.pure)]
      BY <1>6 DEF UseRows
  <2> DEFINE s == Collapse(ctx, OwnerOf(db, e.src))
             d == Collapse(ctx, OwnerOf(db, e.dst))
  <2>2. s \in Ids /\ EndLike(s) /\ d \in Ids /\ EndLike(d)
      BY <2>1, OwnersAreNodes, RecordsEnd
  <2>3. r = [Plain(s, d, "uses", e) EXCEPT !.key.via = e.dst, !.partial = (e.dst \in db.pure)]
      BY <2>1
  <2> HIDE DEF s, d
  <2>4. r.key = Key(s, d, "uses", e.dst, None)
      BY <2>3 DEF Plain, Key
  <2> QED BY <2>2, <2>4, KeyFits
<1>7. ASSUME NEW r \in FriendRows(db, ctx) PROVE RowFits(r, ctx, db)
  <2>1. PICK e \in Edges(db, {"friend"}, EntityKinds, EntityKinds) :
               r = Plain(Collapse(ctx, e.src), Collapse(ctx, e.dst), "befriends", e)
      BY <1>7 DEF FriendRows
  <2> DEFINE s == Collapse(ctx, e.src)
             d == Collapse(ctx, e.dst)
  <2>2. s \in Ids /\ EndLike(s) /\ d \in Ids /\ EndLike(d)
    <3>1. /\ e.src \in Ids /\ db.kind[e.src] \in NodeKinds
          /\ e.dst \in Ids /\ db.kind[e.dst] \in NodeKinds
        BY EdgeTypes, EntitiesAreNodes DEF Edges
    <3> QED BY <3>1, RecordsEnd
  <2> HIDE DEF s, d
  <2>3. r.key = Key(s, d, "befriends", None, None)
      BY <2>1, PlainKey DEF s, d
  <2> QED BY <2>2, <2>3, KeyFits
<1>8. ASSUME n = 10, NEW r \in DeclareRows(db, nodes) PROVE RowFits(r, ctx, db)
  <2>1. PICK e \in Edges(db, {"contains"}, {"namespace"}, All) :
               nodes[e.dst] # None /\ r = Plain(e.src, e.dst, "declares", e)
      BY <1>8 DEF DeclareRows
  <2>2. e.src \in Ids /\ e.dst \in Ids /\ db.kind[e.src] = "namespace"
      BY EdgeTypes DEF Edges
  <2>3. EndLike(e.src) /\ EndLike(e.dst)
      BY <1>8, <2>1, <2>2, KindIsFixed
  <2> QED BY <2>1, <2>2, <2>3, KeyFits, PlainKey
<1>9. /\ Phases[1] = "inheritance" /\ Phases[2] = "specializes" /\ Phases[3] = "instantiates"
      /\ Phases[4] = "field_relations" /\ Phases[5] = "instance_composition"
      /\ Phases[6] = "creates_destroys" /\ Phases[7] = "uses" /\ Phases[8] = "befriends"
      /\ Phases[9] = "entity_nodes" /\ Phases[10] = "declares"
    BY DEF Phases
<1>10. CASE n = 10
  <2>1. Rows(Phases[n], db, ctx, nodes) \subseteq DeclareRows(db, nodes)
      BY <1>9, <1>10 DEF Rows, Proper
  <2> QED BY <1>8, <1>10, <2>1
<1>11. CASE n # 10
  <2>1. Rows(Phases[1], db, ctx, nodes) \subseteq InheritanceRows(db, ctx)
      BY <1>9 DEF Rows, Proper
  <2>2. Rows(Phases[2], db, ctx, nodes) \subseteq TemplateRows(db, ctx, "specializes")
      BY <1>9 DEF Rows, Proper
  <2>3. Rows(Phases[3], db, ctx, nodes) \subseteq TemplateRows(db, ctx, "instantiates")
      BY <1>9 DEF Rows, Proper
  <2>4. Rows(Phases[4], db, ctx, nodes) \subseteq FieldRows(db, ctx)
      BY <1>9 DEF Rows, Proper
  <2>5. Rows(Phases[5], db, ctx, nodes) \subseteq InstanceRows(db)
      BY <1>9 DEF Rows, Proper
  <2>6. Rows(Phases[6], db, ctx, nodes) \subseteq CreateRows(db, ctx)
      BY <1>9 DEF Rows, Proper
  <2>7. Rows(Phases[7], db, ctx, nodes) \subseteq UseRows(db, ctx)
      BY <1>9 DEF Rows, Proper
  <2>8. Rows(Phases[8], db, ctx, nodes) \subseteq FriendRows(db, ctx)
      BY <1>9 DEF Rows, Proper
  <2>9. Rows(Phases[9], db, ctx, nodes) \subseteq {}
      BY <1>9 DEF Rows, Proper
  <2>10. n \in {1, 2, 3, 4, 5, 6, 7, 8, 9}
      BY <1>11
  <2> QED BY <1>1, <1>2, <1>3, <1>4, <1>5, <1>6, <1>7, <2>1, <2>2, <2>3, <2>4, <2>5, <2>6, <2>7, <2>8, <2>9, <2>10
<1> QED BY <1>10, <1>11

-----------------------------------------------------------------------------
(* The tables and the pass. *)

Relation(e) ==
    e = [key |-> Key(e.key.src, e.key.dst, e.key.kind, e.key.via, e.key.form), mult |-> e.mult,
         access |-> e.access, partial |-> e.partial, count |-> e.count]

\* A relation of a draft: its ends are rows of entity_node to be.
Drafted(e) ==
    /\ Relation(e)
    /\ e.key.src \in Present(base) /\ EndLike(e.key.src)
    /\ e.key.dst \in Present(base) /\ EndLike(e.key.dst)
    /\ e.key.kind = "implements" => /\ IsInterface(pass.ctx, e.key.dst)
                                    /\ base.kind[e.key.dst] \notin {"enum", "union", "namespace"}
    /\ e.key.kind = "generalizes" => ~IsInterface(pass.ctx, e.key.dst)

\* A relation of the tables: a foreign key holds its ends.
Stored(e) ==
    /\ Relation(e)
    /\ e.key.src \in Present(base) /\ e.key.dst \in Present(base)
    /\ entity.nodes[e.key.src] # None /\ entity.nodes[e.key.dst] # None
    /\ e.key.kind = "implements" => entity.nodes[e.key.dst][1] = "interface"
    /\ e.key.kind = "generalizes" => entity.nodes[e.key.dst][1] # "interface"

\* The lookup tables of a pass are those of a layer 0 that there was; what the pass has
\* inserted fits them, and fits the layer 0 that its write lock holds still.
PassOK ==
    /\ pass = [pc |-> pass.pc, n |-> pass.n, ctx |-> pass.ctx, draft |-> pass.draft, seen |-> pass.seen]
    /\ pass.draft = [edges |-> pass.draft.edges, nodes |-> pass.draft.nodes]
    /\ pass.pc \in {"idle", "begin", "phase"}
    /\ pass.pc # "idle" => Sound(pass.seen) /\ pass.ctx = RollupState(pass.seen)
    /\ pass.pc = "begin" => pass.draft.edges = {}
    /\ Locked => /\ pass.n \in 1..11
                 /\ \A e \in pass.draft.edges : Drafted(e)
                 /\ pass.n > 9 => pass.draft.nodes = Nodes(base, pass.ctx)

TablesOK ==
    /\ entity = [edges |-> entity.edges, nodes |-> entity.nodes]
    /\ \A e \in entity.edges : Stored(e)
    /\ made # None => entity.nodes = Nodes(made, RollupState(made))

RollupInv == Sound(base) /\ PassOK /\ TablesOK

\* What Nodes makes of the end of a relation.
LEMMA NodeRow ==
    ASSUME NEW db, NEW ctx, Sound(db), NEW s \in Present(db), EndLike(s)
    PROVE  /\ Nodes(db, ctx)[s] # None
           /\ db.kind[s] \notin {"enum", "union", "namespace"} =>
                 (Nodes(db, ctx)[s][1] = "interface" <=> IsInterface(ctx, s))
           /\ db.kind[s] \in {"enum", "union", "namespace"} => Nodes(db, ctx)[s][1] # "interface"
<1>1. s \in Ids /\ db.kind[s] \in NodeKinds \union {"namespace"}
    BY KindIsFixed DEF Present
<1>2. Nodes(db, ctx)[s] = EntityKind(ctx, s, db.kind[s])
    BY <1>1 DEF Nodes
<1> DEFINE k == db.kind[s]
           t == EntityKind(ctx, s, k)
<1>3. t \in NodeTypes /\ (k \notin {"enum", "union", "namespace"} => (t[1] = "interface" <=> IsInterface(ctx, s)))
      /\ (k \in {"enum", "union", "namespace"} => t[1] # "interface")
    BY <1>1 DEF EntityKind, NodeTypes
<1> HIDE DEF t
<1>4. t # None
    BY <1>3, Layer0IsSound
<1> QED BY <1>2, <1>3, <1>4 DEF t

LEMMA WithoutIsSound ==
    ASSUME NEW db, Sound(db), NEW F \in SUBSET Ids
    PROVE  Sound(Without(db, F)) /\ Present(Without(db, F)) = Present(db) \ F
<1> DEFINE w == Without(db, F)
           kind == [s \in Ids |-> IF s \in F THEN None ELSE db.kind[s]]
           arg == [s \in Ids |-> IF db.arg[s] \in F THEN None ELSE db.arg[s]]
           edge == {e \in db.edge : e.src \notin F /\ e.dst \notin F}
<1>1. db \in Databases
    BY DEF Sound
<1>2. /\ db.kind \in [Ids -> STRING \union {None}] /\ db.arg \in [Ids -> Ids \union {None}]
      /\ db.edge \in SUBSET [src : Ids, kind : STRING, dst : Ids, access : STRING]
    BY <1>1 DEF Databases
<1>3. /\ kind \in [Ids -> STRING \union {None}] /\ arg \in [Ids -> Ids \union {None}]
      /\ edge \in SUBSET [src : Ids, kind : STRING, dst : Ids, access : STRING]
    BY <1>2
<1>4. w = [db EXCEPT !.kind = kind, !.arg = arg, !.edge = edge]
    BY <1>1, <1>2 DEF Without, Databases
<1> HIDE DEF w, kind, arg, edge
<1>5. /\ w \in Databases /\ w.kind = kind /\ w.arg = arg /\ w.edge = edge
      /\ w.pure = db.pure /\ w.parent = db.parent /\ w.named = db.named
    BY <1>1, <1>3, <1>4 DEF Databases
<1>6. \A s \in Ids : w.kind[s] = IF s \in F THEN None ELSE db.kind[s]
    BY <1>5 DEF kind
<1>7. Present(w) = Present(db) \ F
    BY <1>6 DEF Present
<1>8. \A s \in Ids : w.kind[s] \in KindOf(s) \union {None}
    BY <1>6 DEF Sound
<1>9. ASSUME NEW e \in w.edge
      PROVE  /\ e.src \in Present(w) /\ e.dst \in Present(w)
             /\ e.kind \in {"specializes", "instantiates"} /\ w.kind[e.src] \in NodeKinds
                   => w.kind[e.dst] \in NodeKinds
             /\ e.kind = "inherits" => w.kind[e.dst] \notin {"enum", "union"}
  <2>1. e \in db.edge /\ e.src \notin F /\ e.dst \notin F
      BY <1>5 DEF edge
  <2>2. e.src \in Ids /\ e.dst \in Ids /\ w.kind[e.src] = db.kind[e.src] /\ w.kind[e.dst] = db.kind[e.dst]
      BY <1>6, <2>1, EdgeTypes
  <2> QED BY <1>7, <2>1, <2>2 DEF Sound
<1>10. \A s \in w.named \intersect Present(w) : w.kind[s] \in NodeKinds
    BY <1>5, <1>6, <1>7 DEF Sound, Present
<1>11. ASSUME NEW m \in w.pure, w.kind[m] = "method", w.parent[m] # None
       PROVE  w.kind[w.parent[m]] \notin {"enum", "union"}
  <2>1. m \in Ids /\ m \in db.pure /\ w.parent[m] = db.parent[m] /\ w.parent[m] \in Ids
      BY <1>1, <1>5, <1>11 DEF Databases
  <2>2. db.kind[m] = "method"
      BY <1>6, <1>11, <2>1, NoneIsNoKind
  <2>3. db.kind[db.parent[m]] \notin {"enum", "union"}
      BY <1>11, <2>1, <2>2 DEF Sound
  <2> QED BY <1>6, <2>1, <2>3, NoneIsNoKind DEF NodeKinds, EntityKinds
<1>12. Sound(w)
    BY <1>5, <1>8, <1>9, <1>10, <1>11 DEF Sound
<1> QED BY <1>7, <1>12 DEF w

LEMMA RollupStarts == RollupInit => RollupInv
<1> SUFFICES ASSUME RollupInit PROVE RollupInv
    OBVIOUS
<1>1. Sound(base)
    BY Layer0IsSound DEF RollupInit
<1>2. PassOK
    BY DEF RollupInit, PassOK, Idle, NoDraft, Locked
<1>3. TablesOK
    BY DEF RollupInit, TablesOK, NoDraft
<1> QED BY <1>1, <1>2, <1>3 DEF RollupInv

\* Whatever leaves the tables and layer 0 alone leaves the relations in place.
LEMMA StoredStays ==
    ASSUME TablesOK, UNCHANGED <<entity, made>>, Present(base) \subseteq Present(base')
    PROVE  TablesOK'
<1>1. \A e \in entity.edges : Stored(e)'
    BY DEF TablesOK, Stored, Relation
<1> QED BY <1>1 DEF TablesOK

LEMMA PassStepKeeps ==
    ASSUME RollupInv, Precompute \/ Begin \/ Fail
    PROVE  RollupInv'
<1>1. Sound(base)' /\ TablesOK'
  <2>1. UNCHANGED <<base, entity, made>>
      BY DEF Precompute, Begin, Fail
  <2> QED BY <2>1, StoredStays DEF RollupInv
<1>2. CASE Precompute
  <2>1. pass' = [Idle EXCEPT !.pc = "begin", !.ctx = RollupState(base), !.seen = base] /\ Sound(base)
      BY <1>2 DEF Precompute, RollupInv
  <2> DEFINE c == RollupState(base)
  <2>2. pass' = [pc |-> "begin", n |-> 0, ctx |-> c, draft |-> NoDraft, seen |-> base]
    <3> HIDE DEF c
    <3>1. pass' = [Idle EXCEPT !.pc = "begin", !.ctx = c, !.seen = base]
        BY <2>1 DEF c
    <3> QED BY <3>1 DEF Idle
  <2> HIDE DEF c
  <2>3. /\ pass'.pc = "begin" /\ pass'.n = 0 /\ pass'.ctx = c /\ pass'.seen = base
        /\ pass'.draft = NoDraft
      BY <2>2
  <2>4. Sound(pass'.seen) /\ pass'.ctx = RollupState(pass'.seen)
      BY <2>1, <2>3 DEF c
  <2>5. pass' = [pc |-> pass'.pc, n |-> pass'.n, ctx |-> pass'.ctx, draft |-> pass'.draft, seen |-> pass'.seen]
        /\ pass'.draft = [edges |-> pass'.draft.edges, nodes |-> pass'.draft.nodes]
        /\ pass'.draft.edges = {}
      BY <2>2, <2>3 DEF NoDraft
  <2>6. PassOK'
      BY <2>3, <2>4, <2>5 DEF PassOK, Locked
  <2> QED BY <1>1, <2>6 DEF RollupInv
<1>3. CASE Begin
  <2>1. /\ pass.pc = "begin" /\ PassOK /\ UNCHANGED <<base, entity, made>>
        /\ pass' = [pass EXCEPT !.pc = "phase", !.n = 1, !.draft.nodes = entity.nodes]
      BY <1>3 DEF Begin, RollupInv
  <2>2. /\ pass'.pc = "phase" /\ pass'.n = 1 /\ pass'.ctx = pass.ctx /\ pass'.seen = pass.seen
        /\ pass'.draft.edges = {} /\ pass'.draft = [edges |-> pass'.draft.edges, nodes |-> pass'.draft.nodes]
        /\ pass' = [pc |-> pass'.pc, n |-> pass'.n, ctx |-> pass'.ctx, draft |-> pass'.draft, seen |-> pass'.seen]
    <3> DEFINE draft == [pass.draft EXCEPT !.nodes = entity.nodes]
    <3>1. /\ pass = [pc |-> "begin", n |-> pass.n, ctx |-> pass.ctx, draft |-> pass.draft, seen |-> pass.seen]
          /\ pass.draft = [edges |-> {}, nodes |-> pass.draft.nodes]
        BY <2>1 DEF PassOK
    <3>2. pass' = [pass EXCEPT !.pc = "phase", !.n = 1, !.draft = draft]
        BY <2>1, <3>1
    <3>3. draft.edges = {} /\ draft = [edges |-> draft.edges, nodes |-> draft.nodes]
        BY <3>1
    <3> HIDE DEF draft
    <3>4. pass' = [pc |-> "phase", n |-> 1, ctx |-> pass.ctx, draft |-> draft, seen |-> pass.seen]
        BY <3>1, <3>2
    <3> QED BY <3>3, <3>4
  <2>3. PassOK'
      BY <2>1, <2>2 DEF PassOK, Locked
  <2> QED BY <1>1, <2>3 DEF RollupInv
<1>4. CASE Fail
  <2>1. pass' = Idle
      BY <1>4 DEF Fail
  <2>2. PassOK'
      BY <2>1 DEF PassOK, Idle, NoDraft, Locked
  <2> QED BY <1>1, <2>2 DEF RollupInv
<1> QED BY <1>2, <1>3, <1>4

LEMMA PhaseKeeps == RollupInv /\ Phase => RollupInv'
<1> SUFFICES ASSUME RollupInv, Phase PROVE RollupInv'
    OBVIOUS
<1>1. Sound(base) /\ PassOK /\ TablesOK /\ Locked /\ UNCHANGED <<base, entity, made>> /\ pass.pc = "phase"
    BY DEF RollupInv, Phase, Locked
<1>2. Sound(base)' /\ TablesOK'
    BY <1>1, StoredStays
<1>3. pass.n \in 1..10 /\ Len(Phases) = 10
  <2>1. Len(Phases) = 10
      BY DEF Phases
  <2>2. pass.n \in 1..11
      BY <1>1 DEF PassOK
  <2> QED BY <2>1, <2>2 DEF Phase
<1> DEFINE rows == Rows(Phases[pass.n], base, pass.ctx, pass.draft.nodes)
           keys == {r.key : r \in rows}
<1>4. PICK final \in [keys -> rows] :
              pass' = IF \E k \in keys : {k.src, k.dst} \ Present(base) # {} THEN Idle
                      ELSE [pass EXCEPT
                              !.n = @ + 1,
                              !.draft.edges = Upserted(@, rows, final),
                              !.draft.nodes = IF Phases[pass.n] = "entity_nodes"
                                              THEN Nodes(base, pass.ctx) ELSE @]
    BY Zenon DEF Phase
<1>5. CASE \E k \in keys : {k.src, k.dst} \ Present(base) # {}
  <2>1. pass' = Idle
      BY <1>4, <1>5
  <2>2. PassOK'
      BY <2>1 DEF PassOK, Idle, NoDraft, Locked
  <2> QED BY <1>2, <2>2 DEF RollupInv
<1>6. CASE ~\E k \in keys : {k.src, k.dst} \ Present(base) # {}
  <2> DEFINE edges == Upserted(pass.draft.edges, rows, final)
             nodes == IF Phases[pass.n] = "entity_nodes" THEN Nodes(base, pass.ctx) ELSE pass.draft.nodes
  <2>1. pass' = [pass EXCEPT !.n = pass.n + 1, !.draft.edges = edges, !.draft.nodes = nodes]
      BY <1>4, <1>6
  <2>2. /\ pass'.n = pass.n + 1 /\ pass'.draft.edges = edges /\ pass'.draft.nodes = nodes
        /\ pass'.pc = pass.pc /\ pass'.ctx = pass.ctx /\ pass'.seen = pass.seen
        /\ pass'.draft = [edges |-> edges, nodes |-> nodes]
        /\ pass' = [pc |-> pass'.pc, n |-> pass'.n, ctx |-> pass'.ctx, draft |-> pass'.draft, seen |-> pass'.seen]
    <3>1. /\ pass = [pc |-> pass.pc, n |-> pass.n, ctx |-> pass.ctx, draft |-> pass.draft, seen |-> pass.seen]
          /\ pass.draft = [edges |-> pass.draft.edges, nodes |-> pass.draft.nodes]
        BY <1>1 DEF PassOK
    <3> HIDE DEF edges, nodes
    <3> QED BY <2>1, <3>1
  <2>3. \A r \in rows : RowFits(r, pass.ctx, base)
    <3>1. Hops(pass.ctx)
        BY <1>1, HopsOfLayer0 DEF PassOK
    <3>2. ASSUME pass.n = 10, NEW s \in Ids, pass.draft.nodes[s] # None PROVE EndLike(s)
      <4>1. pass.draft.nodes[s] = Nodes(base, pass.ctx)[s]
          BY <1>1, <3>2 DEF PassOK
      <4>2. base.kind[s] \in NodeKinds \union {"namespace"}
          BY <3>2, <4>1 DEF Nodes
      <4> QED BY <1>1, <4>2, KindIsFixed
    <3> QED BY <1>1, <1>3, <3>1, <3>2, RowsFit
  <2> HIDE DEF rows
  <2>4. \A k \in keys : /\ k = Key(k.src, k.dst, k.kind, k.via, k.form)
                        /\ k.src \in Present(base) /\ EndLike(k.src)
                        /\ k.dst \in Present(base) /\ EndLike(k.dst)
                        /\ k.kind = "implements" => /\ IsInterface(pass.ctx, k.dst)
                                                    /\ base.kind[k.dst] \notin {"enum", "union", "namespace"}
                        /\ k.kind = "generalizes" => ~IsInterface(pass.ctx, k.dst)
      BY <1>6, <2>3 DEF RowFits
  <2>5. ASSUME NEW e \in edges PROVE Drafted(e)
    <3> DEFINE before(k) == {x \in pass.draft.edges : x.key = k}
               group(k) == {r \in rows : r.key = k}
               count(k) == Cardinality(group(k)) + SumOf(before(k))
               new(k) == [key |-> k, mult |-> final[k].mult, access |-> final[k].access,
                          partial |-> \E r \in group(k) \union before(k) : r.partial,
                          count |-> IF k.kind \in Once THEN 1 ELSE count(k)]
    <3>1. edges = {x \in pass.draft.edges : x.key \notin keys} \union {new(k) : k \in keys}
        BY Zenon DEF Upserted
    <3>2. CASE e \in pass.draft.edges
        BY <1>1, <3>2 DEF PassOK
    <3>3. CASE \E k \in keys : e = new(k)
      <4>1. PICK k \in keys : e = new(k)
          BY <3>3
      <4> DEFINE m == final[k].mult
                 a == final[k].access
                 p == \E r \in group(k) \union before(k) : r.partial
                 c == IF k.kind \in Once THEN 1 ELSE count(k)
      <4>2. e = [key |-> k, mult |-> m, access |-> a, partial |-> p, count |-> c]
          BY <4>1
      <4> HIDE DEF m, a, p, c, keys
      <4>3. e.key = k /\ e.mult = m /\ e.access = a /\ e.partial = p /\ e.count = c
          BY <4>2
      <4>4. Relation(e)
        <5>1. k = Key(k.src, k.dst, k.kind, k.via, k.form)
            BY <2>4
        <5> QED BY <4>2, <4>3, <5>1 DEF Relation
      <4> QED BY <2>4, <4>3, <4>4 DEF Drafted
    <3> HIDE DEF new, edges, keys
    <3> QED BY <3>1, <3>2, <3>3
  <2> HIDE DEF edges
  <2>6. pass.n + 1 > 9 => nodes = Nodes(base, pass.ctx)
    <3>1. Phases[9] = "entity_nodes" /\ Phases[10] # "entity_nodes"
        BY DEF Phases
    <3>2. pass.n > 9 => pass.draft.nodes = Nodes(base, pass.ctx)
        BY <1>1 DEF PassOK
    <3>3. pass.n + 1 > 9 => pass.n = 9 \/ pass.n = 10
        BY <1>3
    <3> QED BY <3>1, <3>2, <3>3
  <2> HIDE DEF nodes
  <2>7. \A e \in edges : Drafted(e)'
      BY <1>1, <2>2, <2>5 DEF Drafted, Relation
  <2>8. pass.n + 1 \in 1..11
      BY <1>3
  <2>9. PassOK'
      BY <1>1, <2>2, <2>6, <2>7, <2>8 DEF PassOK, Locked
  <2> QED BY <1>2, <2>9 DEF RollupInv
<1> QED BY <1>5, <1>6

LEMMA CommitKeeps ==
    ASSUME RollupInv, Commit
    PROVE  RollupInv'
<1>1. /\ Sound(base) /\ PassOK /\ TablesOK /\ Locked /\ pass.n > Len(Phases)
      /\ entity' = pass.draft /\ pass' = Idle /\ base' = base
      /\ made' = IF pass.seen = base THEN base ELSE None
    BY DEF RollupInv, Commit, Locked
<1>2. Len(Phases) = 10
    BY DEF Phases
<1>3. pass.n > 9
    BY <1>1, <1>2 DEF PassOK
<1>4. /\ entity' = [edges |-> pass.draft.edges, nodes |-> pass.draft.nodes]
      /\ entity'.edges = pass.draft.edges /\ entity'.nodes = Nodes(base, pass.ctx)
      /\ entity' = [edges |-> entity'.edges, nodes |-> entity'.nodes]
    BY <1>1, <1>3 DEF PassOK
<1>5. ASSUME NEW e \in entity'.edges PROVE Stored(e)'
  <2>1. Drafted(e)
      BY <1>1, <1>4, <1>5 DEF PassOK
  <2> DEFINE nodes == Nodes(base, pass.ctx)
  <2>2. /\ nodes[e.key.src] # None /\ nodes[e.key.dst] # None
        /\ e.key.kind = "implements" => nodes[e.key.dst][1] = "interface"
        /\ e.key.kind = "generalizes" => nodes[e.key.dst][1] # "interface"
      BY <1>1, <2>1, NodeRow DEF Drafted
  <2> HIDE DEF nodes
  <2>3. entity'.nodes = nodes /\ base' = base
      BY <1>1, <1>4 DEF nodes
  <2>4. Relation(e)'
      BY <2>1 DEF Drafted, Relation
  <2> QED BY <2>1, <2>2, <2>3, <2>4 DEF Drafted, Stored, Present
<1>6. made' # None => entity'.nodes = Nodes(made', RollupState(made'))
    BY <1>1, <1>4 DEF PassOK, Locked
<1>7. TablesOK'
    BY <1>4, <1>5, <1>6 DEF TablesOK
<1>8. PassOK'
    BY <1>1 DEF PassOK, Idle, NoDraft, Locked
<1>9. Sound(base)'
    BY <1>1
<1> QED BY <1>7, <1>8, <1>9 DEF RollupInv

\* Outside of its transaction a pass has nothing that layer 0 could outdate but its
\* lookup tables.
LEMMA UnlockedStays ==
    ASSUME PassOK, ~Locked, UNCHANGED pass
    PROVE  PassOK'
BY DEF PassOK, Locked

LEMMA ReindexKeeps ==
    ASSUME RollupInv, Reindex
    PROVE  RollupInv'
<1>1. /\ ~Locked /\ UNCHANGED <<entity, pass, made>> /\ base' \in Layer0
      /\ Present(base) \subseteq Present(base')
    BY DEF Reindex
<1>2. Sound(base)'
    BY <1>1, Layer0IsSound
<1>3. TablesOK'
    BY <1>1, StoredStays DEF RollupInv
<1>4. PassOK'
    BY <1>1, UnlockedStays DEF RollupInv
<1> QED BY <1>2, <1>3, <1>4 DEF RollupInv

LEMMA DeleteKeeps ==
    ASSUME RollupInv, NEW F, Delete(F)
    PROVE  RollupInv'
<1>1. ~Locked /\ F \subseteq Present(base) /\ UNCHANGED pass /\ F \subseteq Ids
    BY DEF Delete, Present
<1>2. PassOK'
    BY <1>1, UnlockedStays DEF RollupInv
<1>3. CASE Clash(F)
  <2>1. UNCHANGED <<base, entity, made>>
      BY <1>3 DEF Delete
  <2>2. Sound(base)' /\ TablesOK'
      BY <2>1, StoredStays DEF RollupInv
  <2> QED BY <1>2, <2>2 DEF RollupInv
<1>4. CASE ~Clash(F)
  <2> DEFINE edges == {Unlinked(e, F) : e \in Survivors(F)}
             nodes == [s \in Ids |-> IF s \in F THEN None ELSE entity.nodes[s]]
  <2>1. base' = Without(base, F) /\ made' = None /\ entity' = [edges |-> edges, nodes |-> nodes]
      BY <1>4 DEF Delete
  <2>2. Sound(base)' /\ Present(base') = Present(base) \ F
    <3>1. Sound(Without(base, F)) /\ Present(Without(base, F)) = Present(base) \ F
        BY <1>1, WithoutIsSound DEF RollupInv
    <3> QED BY <2>1, <3>1
  <2>3. ASSUME NEW x \in edges PROVE Stored(x)'
    <3>1. PICK e \in Survivors(F) : x = Unlinked(e, F)
        BY <2>3
    <3>2. e \in entity.edges /\ e.key.src \notin F /\ e.key.dst \notin F /\ Stored(e)
        BY <3>1 DEF Survivors, RollupInv, TablesOK
    <3>3. /\ Relation(x) /\ x.key.src = e.key.src /\ x.key.dst = e.key.dst /\ x.key.kind = e.key.kind
      <4>1. Relation(e)
          BY <3>2 DEF Stored
      <4>2. CASE e.key.via \notin F
          BY <3>1, <4>1, <4>2 DEF Unlinked
      <4>3. CASE e.key.via \in F
        <5>1. x = [e EXCEPT !.key.via = None]
            BY <3>1, <4>3 DEF Unlinked
        <5> DEFINE k == [e.key EXCEPT !.via = None]
        <5>2. e.key = Key(e.key.src, e.key.dst, e.key.kind, e.key.via, e.key.form)
            BY <4>1 DEF Relation, Key
        <5>3. k = Key(e.key.src, e.key.dst, e.key.kind, None, e.key.form)
            BY <5>2 DEF Key
        <5>4. k.src = e.key.src /\ k.dst = e.key.dst /\ k.kind = e.key.kind
              /\ k = Key(k.src, k.dst, k.kind, k.via, k.form)
            BY <5>3 DEF Key
        <5>5. x = [e EXCEPT !.key = k]
            BY <5>1, <4>1 DEF Relation
        <5>6. e = [key |-> e.key, mult |-> e.mult, access |-> e.access, partial |-> e.partial,
                   count |-> e.count]
            BY <4>1 DEF Relation
        <5> HIDE DEF k
        <5>7. x = [key |-> k, mult |-> e.mult, access |-> e.access, partial |-> e.partial,
                   count |-> e.count]
            BY <5>5, <5>6
        <5>8. x.key = k /\ x.mult = e.mult /\ x.access = e.access /\ x.partial = e.partial
              /\ x.count = e.count
            BY <5>7
        <5> QED BY <5>4, <5>7, <5>8 DEF Relation
      <4> QED BY <4>2, <4>3
    <3>4. e.key.src \in Ids /\ e.key.dst \in Ids
        BY <3>2 DEF Stored, Present
    <3>5. nodes[e.key.src] = entity.nodes[e.key.src] /\ nodes[e.key.dst] = entity.nodes[e.key.dst]
        BY <3>2, <3>4
    <3>6. Relation(x)'
        BY <3>3 DEF Relation
    <3> HIDE DEF nodes, edges
    <3>7. entity'.nodes = nodes
        BY <2>1
    <3> QED BY <2>2, <3>2, <3>3, <3>5, <3>6, <3>7 DEF Stored
  <2> HIDE DEF nodes, edges
  <2>4. TablesOK'
    <3>1. entity'.edges = edges /\ entity'.nodes = nodes
        BY <2>1
    <3> QED BY <2>1, <2>3, <3>1 DEF TablesOK
  <2> QED BY <1>2, <2>2, <2>4 DEF RollupInv
<1> QED BY <1>3, <1>4

LEMMA RollupStays == RollupInv /\ [RollupNext]_rollupVars => RollupInv'
<1> SUFFICES ASSUME RollupInv, [RollupNext]_rollupVars PROVE RollupInv'
    OBVIOUS
<1>1. CASE Precompute \/ Begin \/ Fail
    BY <1>1, PassStepKeeps
<1>2. CASE Phase
    BY <1>2, PhaseKeeps
<1>3. CASE Commit
    BY <1>3, CommitKeeps
<1>4. CASE Reindex
    BY <1>4, ReindexKeeps
<1>5. CASE \E F \in Deletions : Delete(F)
    BY <1>5, DeleteKeeps
<1>6. CASE UNCHANGED rollupVars
  <2>1. UNCHANGED <<base, entity, pass, made>>
      BY <1>6 DEF rollupVars
  <2> QED BY <2>1 DEF RollupInv, PassOK, TablesOK, Drafted, Stored, Relation, Locked
<1> QED BY <1>1, <1>2, <1>3, <1>4, <1>5, <1>6 DEF RollupNext, PassStep

LEMMA TablesAgree == RollupInv => EdgesFitNodes
BY DEF RollupInv, TablesOK, Stored, EdgesFitNodes

\* The relations and the nodes agree at every moment: also when layer 0 was re-indexed
\* between the lookup tables of a pass and its transaction, when a pass failed in the
\* middle, and when files were deleted since (materialize_entity_edges and the foreign
\* keys of entity_edge).
THEOREM TablesFit == RollupSpec => []EdgesFitNodes
<1>1. RollupInit => RollupInv
    BY RollupStarts
<1> QED BY <1>1, RollupStays, TablesAgree, PTL DEF RollupSpec

-----------------------------------------------------------------------------
(* A reader beside the others: whatever they do between two of its statements. *)

GraphInit == RollupInit /\ eg = Closed

GraphNext(questions) ==
    \/ eg.status \in {"closed", "done"} /\ RollupNext /\ eg' = Closed
    \/ \E q \in questions : Ask(q)
    \/ GraphStep
    \/ eg.status \notin {"closed", "done"} /\ RollupNext /\ Watch

GraphSpec(questions) == GraphInit /\ [][GraphNext(questions)]_graphVars

LEMMA OwnersAreParents ==
    ASSUME NEW db, NEW s \in Ids, NEW K, NEW P
    PROVE  s \in Owners(db, K, P) <=> Members(db, s, K) \intersect P # {}
BY DEF Owners, Members

\* _is_interface, over the lookup tables of a layer 0, is what the comment says of it.
LEMMA InterfaceByTables ==
    ASSUME NEW db, Sound(db), NEW s \in Ids, db.kind[s] \in NodeKinds
    PROVE  /\ IsInterface(RollupState(db), s) <=> Interface(db, s)
           /\ HasPure(RollupState(db), s) <=> Members(db, s, {"method"}) \intersect db.pure # {}
<1> DEFINE st == RollupState(db)
           methods == Members(db, s, {"method"})
           fields == Members(db, s, {"field"})
<1>1. /\ s \in st.pure <=> methods \intersect db.pure # {}
      /\ s \in st.nonPure <=> methods \intersect (Ids \ db.pure) # {}
      /\ s \in st.fields <=> fields \intersect Ids # {}
      /\ s \in st.known
    BY OwnersAreParents DEF RollupState
<1>2. methods \subseteq Ids /\ fields \subseteq Ids
    BY DEF Members, Present
<1> HIDE DEF st
<1>3. IsInterface(st, s) <=> Interface(db, s)
    BY <1>1, <1>2 DEF IsInterface, Interface
<1>4. HasPure(st, s) <=> methods \intersect db.pure # {}
    BY <1>1 DEF HasPure
<1> QED BY <1>3, <1>4 DEF st

LEMMA DerivedIsMaterialized ==
    ASSUME NEW db, Sound(db), NEW s \in Ids, db.kind[s] \in NodeKinds
    PROVE  Derived(db, s) = EntityKind(RollupState(db), s, db.kind[s])
<1> DEFINE methods == Members(db, s, {"method"})
           fields == Members(db, s, {"field"})
           class == IF IsInterface(RollupState(db), s) THEN "interface"
                    ELSE IF HasPure(RollupState(db), s) THEN "abstract_class" ELSE "class"
<1>1. ClassKind(db, s) = class
  <2>1. /\ Interface(db, s) <=> /\ methods \intersect db.pure # {}
                                /\ methods \subseteq db.pure /\ fields = {}
        /\ IsInterface(RollupState(db), s) <=> Interface(db, s)
        /\ HasPure(RollupState(db), s) <=> methods \intersect db.pure # {}
      BY InterfaceByTables DEF Interface
  <2>2. CASE methods \intersect db.pure = {}
    <3>1. ClassKind(db, s) = "class"
        BY <2>2 DEF ClassKind
    <3> QED BY <2>1, <2>2, <3>1
  <2>3. CASE methods \intersect db.pure # {} /\ methods \subseteq db.pure /\ fields = {}
    <3>1. ClassKind(db, s) = "interface"
        BY <2>3 DEF ClassKind
    <3> QED BY <2>1, <2>3, <3>1
  <2>4. CASE methods \intersect db.pure # {} /\ ~(methods \subseteq db.pure /\ fields = {})
    <3>1. ClassKind(db, s) = "abstract_class"
        BY <2>4 DEF ClassKind
    <3> QED BY <2>1, <2>4, <3>1
  <2> QED BY <2>2, <2>3, <2>4
<1> HIDE DEF class
<1>2. /\ Derived(db, s) = IF db.kind[s] \in {"enum", "union"} THEN <<db.kind[s], "plain">>
                          ELSE IF db.kind[s] = "class_template" THEN <<class, "template">>
                          ELSE <<class, "plain">>
    BY <1>1 DEF Derived, NodeKinds, EntityKinds
<1>3. EntityKind(RollupState(db), s, db.kind[s])
         = IF db.kind[s] \in {"enum", "union"} THEN <<db.kind[s], "plain">>
           ELSE IF db.kind[s] = "class_template" THEN <<class, "template">>
           ELSE <<class, "plain">>
    BY NoneIsNoKind DEF EntityKind, NodeKinds, EntityKinds, class
<1> QED BY <1>2, <1>3

LEMMA InterfacesLookAbstract ==
    ASSUME NEW db, Sound(db), NEW s \in Ids, db.kind[s] \in NodeKinds
    PROVE  Abstractness(EntityKind(RollupState(db), s, db.kind[s])) = "interface" <=> Interface(db, s)
<1> DEFINE t == EntityKind(RollupState(db), s, db.kind[s])
<1>1. t[1] = "interface" <=> Interface(db, s)
  <2>1. CASE db.kind[s] \in {"enum", "union"}
    <3>1. t[1] # "interface"
        BY <2>1 DEF EntityKind
    <3>2. ASSUME NEW m \in Members(db, s, {"method"}) \intersect db.pure PROVE FALSE
      <4>1. db.kind[m] = "method" /\ db.parent[m] = s /\ m \in db.pure
          BY <3>2 DEF Members
      <4> QED BY <2>1, <4>1, IdsAreNumbers DEF Sound
    <3> QED BY <3>1, <3>2 DEF Interface
  <2>2. CASE db.kind[s] \notin {"enum", "union"}
    <3>1. t[1] = "interface" <=> IsInterface(RollupState(db), s)
        BY <2>2, NoneIsNoKind DEF EntityKind, NodeKinds, EntityKinds
    <3> QED BY <3>1, InterfaceByTables
  <2> QED BY <2>1, <2>2
<1> HIDE DEF t
<1>2. Abstractness(t) = "interface" <=> t[1] = "interface"
    BY DEF Abstractness
<1> QED BY <1>1, <1>2 DEF t

Shape(g) ==
    g = [status |-> g.status, ask |-> g.ask, left |-> g.left, walk |-> g.walk, seen |-> g.seen,
         answer |-> g.answer, types |-> g.types, still |-> g.still, same |-> g.same]

\* The graph after one statement, field by field.
LEMMA StatementFields ==
    ASSUME Shape(eg), Statement
    PROVE  LET s == Head(eg.walk)
               new == Fresh(s)
               types == Wrapped(new \union {s.node})
               queue == InOrder(new)
           IN  /\ eg'.types = types
               /\ eg'.seen = eg.seen \union new
               /\ eg'.answer = eg.answer \union Kept(new, types)
               /\ eg'.walk = Tail(eg.walk) \o
                     (IF Deeper(s.depth + 1)
                      THEN FlattenSeq([i \in DOMAIN queue |-> Statements(queue[i], s.depth + 1)])
                      ELSE << >>)
               /\ eg'.status = eg.status /\ eg'.ask = eg.ask /\ eg'.left = eg.left
               /\ eg'.still = eg.still /\ eg'.same = eg.same
               /\ Shape(eg')
<1> DEFINE s == Head(eg.walk)
           new == Fresh(s)
           types == Wrapped(new \union {s.node})
           queue == InOrder(new)
           seen == eg.seen \union new
           answer == eg.answer \union Kept(new, types)
           walk == Tail(eg.walk) \o
                     (IF Deeper(s.depth + 1)
                      THEN FlattenSeq([i \in DOMAIN queue |-> Statements(queue[i], s.depth + 1)])
                      ELSE << >>)
<1>1. eg' = [eg EXCEPT !.types = types, !.seen = seen, !.answer = answer, !.walk = walk]
    BY DEF Statement
<1> HIDE DEF types, seen, answer, walk
<1>2. eg' = [status |-> eg.status, ask |-> eg.ask, left |-> eg.left, walk |-> walk, seen |-> seen,
             answer |-> answer, types |-> types, still |-> eg.still, same |-> eg.same]
    BY <1>1 DEF Shape
<1>3. /\ eg'.types = types /\ eg'.seen = seen /\ eg'.answer = answer /\ eg'.walk = walk
      /\ eg'.status = eg.status /\ eg'.ask = eg.ask /\ eg'.left = eg.left
      /\ eg'.still = eg.still /\ eg'.same = eg.same
    BY <1>2
<1>4. Shape(eg')
    BY <1>2, <1>3 DEF Shape
<1> QED BY <1>3, <1>4 DEF types, seen, answer, walk

LEMMA NextSeedFields ==
    ASSUME Shape(eg), NextSeed
    PROVE  /\ eg'.ask = eg.ask /\ eg'.answer = eg.answer /\ eg'.still = eg.still
           /\ eg'.same = eg.same /\ Shape(eg') /\ eg.status = "next"
           /\ eg.left = << >> => /\ eg'.status = "done" /\ eg'.types = eg.types
                                /\ eg'.left = eg.left /\ eg'.seen = eg.seen /\ eg'.walk = eg.walk
           /\ eg.left # << >> => eg'.left = Tail(eg.left)
           /\ eg.left # << >> /\ Head(eg.left) \notin Present(base) =>
                 /\ eg'.status = "next" /\ eg'.types = eg.types
                 /\ eg'.seen = eg.seen /\ eg'.walk = eg.walk
           /\ eg.left # << >> /\ Head(eg.left) \in Present(base) =>
                 /\ eg'.status = "walk" /\ eg'.types = Wrapped({Head(eg.left)})
                 /\ eg'.seen = {Head(eg.left)} /\ eg'.walk = Statements(Head(eg.left), 0)
<1> DEFINE seen == {Head(eg.left)}
           types == Wrapped(seen)
           walk == Statements(Head(eg.left), 0)
           left == Tail(eg.left)
           here == Head(eg.left) \in Present(base)
<1>1. /\ eg.status = "next"
      /\ eg' = IF eg.left = << >> THEN [eg EXCEPT !.status = "done"]
               ELSE IF ~here THEN [eg EXCEPT !.left = left]
               ELSE [eg EXCEPT !.status = "walk", !.left = left, !.seen = seen, !.types = types,
                               !.walk = walk]
    BY DEF NextSeed
<1> HIDE DEF types, seen, walk, left, here
<1>2. CASE eg.left = << >>
  <2>1. eg' = [status |-> "done", ask |-> eg.ask, left |-> eg.left, walk |-> eg.walk, seen |-> eg.seen,
               answer |-> eg.answer, types |-> eg.types, still |-> eg.still, same |-> eg.same]
      BY <1>1, <1>2 DEF Shape
  <2> QED BY <1>1, <1>2, <2>1 DEF Shape
<1>3. CASE eg.left # << >> /\ ~here
  <2>1. eg' = [status |-> "next", ask |-> eg.ask, left |-> left, walk |-> eg.walk, seen |-> eg.seen,
               answer |-> eg.answer, types |-> eg.types, still |-> eg.still, same |-> eg.same]
      BY <1>1, <1>3 DEF Shape
  <2>2. Shape(eg')
      BY <2>1 DEF Shape
  <2> QED BY <1>1, <1>3, <2>1, <2>2 DEF left, here
<1>4. CASE eg.left # << >> /\ here
  <2>1. eg' = [status |-> "walk", ask |-> eg.ask, left |-> left, walk |-> walk, seen |-> seen,
               answer |-> eg.answer, types |-> types, still |-> eg.still, same |-> eg.same]
      BY <1>1, <1>4 DEF Shape
  <2>2. Shape(eg')
      BY <2>1 DEF Shape
  <2> QED BY <1>1, <1>4, <2>1, <2>2 DEF left, here, types, seen, walk
<1> QED BY <1>2, <1>3, <1>4

LEMMA EndOfWalkFields ==
    ASSUME Shape(eg), EndOfWalk
    PROVE  /\ eg.status = "walk" /\ eg.walk = << >> /\ eg'.status = "next"
           /\ eg'.ask = eg.ask /\ eg'.left = eg.left /\ eg'.walk = eg.walk
           /\ eg'.seen = eg.seen /\ eg'.answer = eg.answer /\ eg'.types = eg.types
           /\ eg'.still = eg.still /\ eg'.same = eg.same /\ Shape(eg')
<1>1. eg' = [status |-> "next", ask |-> eg.ask, left |-> eg.left, walk |-> eg.walk, seen |-> eg.seen,
             answer |-> eg.answer, types |-> eg.types, still |-> eg.still, same |-> eg.same]
    BY DEF EndOfWalk, Shape
<1>2. Shape(eg')
    BY <1>1 DEF Shape
<1> QED BY <1>1, <1>2 DEF EndOfWalk

LEMMA WatchFields ==
    ASSUME Shape(eg), Watch
    PROVE  /\ eg'.status = eg.status
           /\ eg'.ask = eg.ask /\ eg'.left = eg.left /\ eg'.walk = eg.walk
           /\ eg'.seen = eg.seen /\ eg'.answer = eg.answer /\ eg'.types = eg.types
           /\ eg'.still <=> eg.still /\ entity' = entity
           /\ eg'.same <=> eg.same /\ base' = base /\ (entity' = entity \/ made' = base)
           /\ Shape(eg')
<1> DEFINE still == eg.still /\ entity' = entity
           same == eg.same /\ base' = base /\ (entity' = entity \/ made' = base)
<1>1. eg' = [eg EXCEPT !.still = still, !.same = same]
    BY DEF Watch
<1> HIDE DEF still, same
<1>2. eg' = [status |-> eg.status, ask |-> eg.ask, left |-> eg.left, walk |-> eg.walk, seen |-> eg.seen,
             answer |-> eg.answer, types |-> eg.types, still |-> still, same |-> same]
    BY <1>1 DEF Shape
<1>3. Shape(eg')
    BY <1>2 DEF Shape
<1>4. /\ eg'.status = eg.status
      /\ eg'.ask = eg.ask /\ eg'.left = eg.left /\ eg'.walk = eg.walk
      /\ eg'.seen = eg.seen /\ eg'.answer = eg.answer /\ eg'.types = eg.types
      /\ eg'.still = still /\ eg'.same = same
    BY <1>2
<1> QED BY <1>3, <1>4 DEF still, same

LEMMA AskFields ==
    ASSUME NEW q, Ask(q)
    PROVE  /\ eg.status = "closed" /\ eg'.status = "next" /\ eg'.ask = q /\ eg'.left = q.seeds
           /\ eg'.seen = {} /\ eg'.answer = {} /\ eg'.walk = << >>
           /\ eg'.types = [s \in Ids |-> None] /\ eg'.still
           /\ eg'.same <=> made = base \/ entity = NoDraft
           /\ Shape(eg')
<1> DEFINE none == [s \in Ids |-> None]
           fresh == made = base \/ entity = NoDraft
           seeds == q.seeds
<1>1. eg' = [Closed EXCEPT !.status = "next", !.ask = q, !.left = seeds, !.same = fresh]
    BY DEF Ask
<1>2. Closed = [status |-> "closed", ask |-> None, left |-> << >>, walk |-> << >>, seen |-> {},
                answer |-> {}, types |-> none, still |-> TRUE, same |-> TRUE]
    BY DEF Closed
<1> HIDE DEF none, fresh, seeds
<1>3. eg' = [status |-> "next", ask |-> q, left |-> seeds, walk |-> << >>, seen |-> {},
             answer |-> {}, types |-> none, still |-> TRUE, same |-> fresh]
    BY <1>1, <1>2
<1>4. Shape(eg')
    BY <1>3 DEF Shape
<1>5. /\ eg'.status = "next" /\ eg'.ask = q /\ eg'.left = seeds
      /\ eg'.seen = {} /\ eg'.answer = {} /\ eg'.walk = << >>
      /\ eg'.types = none /\ eg'.still /\ eg'.same = fresh
    BY <1>3
<1> QED BY <1>4, <1>5 DEF none, fresh, seeds, Ask

\* What a type says of its symbol: nothing of a symbol that is no record and no enum.
TypeFits(t, s) ==
    t # None /\ base.kind[s] \in NodeKinds => t = EntityKind(RollupState(base), s, base.kind[s])

\* The stored rows say of layer 0 what the derived ones say, and so do those that the
\* graph remembers.
Typed == \A s \in Ids : TypeFits(entity.nodes[s], s) /\ TypeFits(eg.types[s], s)

TypesInv == RollupInv /\ Shape(eg) /\ (eg.status # "closed" /\ eg.same => Typed)

LEMMA TypesStart == GraphInit => TypesInv
<1> SUFFICES ASSUME GraphInit PROVE TypesInv
    OBVIOUS
<1>1. RollupInv
    BY RollupStarts DEF GraphInit
<1>2. Shape(eg) /\ eg.status = "closed"
    BY DEF GraphInit, Closed, Shape
<1> QED BY <1>1, <1>2 DEF TypesInv

\* The rows of a commit over these very symbols.
LEMMA MadeRowsFit ==
    ASSUME RollupInv, made = base \/ entity = NoDraft, NEW s \in Ids
    PROVE  TypeFits(entity.nodes[s], s)
<1>1. CASE entity = NoDraft
    BY <1>1 DEF NoDraft, TypeFits
<1>2. CASE made = base
  <2>1. made # None
      BY <1>2, Layer0IsSound DEF RollupInv, Sound
  <2>2. entity.nodes = Nodes(base, RollupState(base))
      BY <1>2, <2>1 DEF RollupInv, TablesOK
  <2> QED BY <2>2 DEF Nodes, TypeFits
<1> QED BY <1>1, <1>2

\* Wrapping a node of any kind, whatever there is to read its type from.
LEMMA WrappedFits ==
    ASSUME RollupInv, Typed, NEW S, NEW s \in Ids
    PROVE  TypeFits(Wrapped(S)[s], s)
<1>1. TypeFits(TypeRead(s), s)
  <2>1. TypeFits(Derived(base, s), s)
      BY DerivedIsMaterialized DEF RollupInv, TypeFits
  <2> QED BY <2>1 DEF TypeRead, Typed
<1>2. Wrapped(S)[s] = IF s \in S THEN TypeRead(s) ELSE eg.types[s]
    BY DEF Wrapped
<1> QED BY <1>1, <1>2 DEF Typed

LEMMA ShapeStays ==
    ASSUME NEW questions, Shape(eg), [GraphNext(questions)]_graphVars
    PROVE  Shape(eg')
<1>1. Shape(Closed)
    BY DEF Shape, Closed
<1>2. CASE UNCHANGED eg
    BY <1>2
<1>3. ASSUME NEW q, Ask(q) PROVE Shape(eg')
    BY <1>3, AskFields
<1> QED BY <1>1, <1>2, <1>3, StatementFields, NextSeedFields, EndOfWalkFields, WatchFields
    DEF GraphNext, GraphStep, graphVars

LEMMA TypesStay ==
    ASSUME NEW questions, TypesInv, [GraphNext(questions)]_graphVars
    PROVE  TypesInv'
<1>1. RollupInv'
  <2>1. [RollupNext]_rollupVars
      BY DEF GraphNext, GraphStep, Ask, NextSeed, Statement, EndOfWalk, graphVars
  <2> QED BY <2>1, RollupStays DEF TypesInv
<1>2. RollupInv /\ Shape(eg) /\ (eg.status # "closed" /\ eg.same => Typed)
    BY DEF TypesInv
<1>3. Shape(eg)'
    BY <1>2, ShapeStays
<1> SUFFICES ASSUME eg'.status # "closed", eg'.same PROVE Typed'
    BY <1>1, <1>3 DEF TypesInv
<1>4. CASE eg' = Closed
    BY <1>4 DEF Closed
<1>5. CASE \E q \in questions : Ask(q)
  <2>1. PICK q \in questions : Ask(q)
      BY <1>5
  <2>2. UNCHANGED <<base, entity, made>>
      BY <2>1 DEF Ask, rollupVars
  <2>3. eg'.types = [s \in Ids |-> None] /\ (made = base \/ entity = NoDraft)
      BY <2>1, AskFields
  <2>4. \A s \in Ids : TypeFits(entity.nodes[s], s)
      BY <1>2, <2>3, MadeRowsFit
  <2> QED BY <2>2, <2>3, <2>4 DEF Typed, TypeFits
<1>6. CASE GraphStep
  <2>1. /\ UNCHANGED <<base, entity, made>> /\ eg.status # "closed" /\ eg'.same = eg.same
        /\ eg'.types = eg.types \/ \E S : eg'.types = Wrapped(S)
    <3>1. CASE NextSeed
        BY <1>2, <3>1, NextSeedFields DEF NextSeed, rollupVars
    <3>2. CASE Statement
        BY <1>2, <3>2, StatementFields DEF Statement, rollupVars
    <3>3. CASE EndOfWalk
        BY <1>2, <3>3, EndOfWalkFields DEF EndOfWalk, rollupVars
    <3> QED BY <1>6, <3>1, <3>2, <3>3 DEF GraphStep
  <2>2. Typed
      BY <1>2, <2>1
  <2>3. \A s \in Ids : TypeFits(entity.nodes[s], s) /\ TypeFits(eg'.types[s], s)
      BY <1>2, <2>1, <2>2, WrappedFits DEF Typed
  <2> QED BY <2>1, <2>3 DEF Typed, TypeFits
<1>7. CASE eg.status \notin {"closed", "done"} /\ RollupNext /\ Watch
  <2>1. /\ eg'.types = eg.types /\ eg.same /\ base' = base
        /\ entity' = entity \/ made' = base
      BY <1>2, <1>7, WatchFields
  <2>2. Typed
      BY <1>2, <1>7, <2>1
  <2>3. \A s \in Ids : TypeFits(entity'.nodes[s], s)
    <3>1. CASE entity' = entity
        BY <2>2, <3>1 DEF Typed
    <3>2. CASE made' = base
      <4>1. base # None
          BY <1>2, Layer0IsSound DEF RollupInv, Sound
      <4>2. entity'.nodes = Nodes(base, RollupState(base))
          BY <1>1, <2>1, <3>2, <4>1 DEF RollupInv, TablesOK
      <4> QED BY <4>2 DEF Nodes, TypeFits
    <3> QED BY <2>1, <3>1, <3>2
  <2> QED BY <2>1, <2>2, <2>3 DEF Typed, TypeFits
<1>8. CASE UNCHANGED graphVars
  <2>1. UNCHANGED <<base, entity, made, eg>>
      BY <1>8 DEF graphVars, rollupVars
  <2> QED BY <1>2, <2>1 DEF Typed, TypeFits
<1> QED BY <1>4, <1>5, <1>6, <1>7, <1>8 DEF GraphNext

LEMMA TypesAgree == TypesInv => TypesMatchEitherWay
<1> SUFFICES ASSUME TypesInv, eg.status # "closed", eg.same, NEW s \in Ids, eg.types[s] # None,
                    base.kind[s] \in NodeKinds
             PROVE  /\ eg.types[s] = EntityKind(RollupState(base), s, base.kind[s])
                    /\ Abstractness(eg.types[s]) = "interface" <=> Interface(base, s)
    BY DEF TypesMatchEitherWay
<1>1. eg.types[s] = EntityKind(RollupState(base), s, base.kind[s])
    BY DEF TypesInv, Typed, TypeFits
<1> QED BY <1>1, InterfacesLookAbstract DEF TypesInv, RollupInv

\* While the symbols stay, a graph's types are those of the symbols, whether it read
\* them from entity_node or derived them, and whatever passes committed, failed or were
\* running meanwhile (EntityGraph._entity_type and _derive_entity_type against
\* _entity_kind of the rollup).
THEOREM TypesMatch ==
    ASSUME NEW questions
    PROVE  GraphSpec(questions) => []TypesMatchEitherWay
<1>1. TypesInv /\ [GraphNext(questions)]_graphVars => TypesInv'
    BY TypesStay
<1> QED BY <1>1, TypesStart, TypesAgree, PTL DEF GraphSpec
-----------------------------------------------------------------------------
(* The order of a statement's rows, and the statements that they cost. *)

LEMMA OrderExists ==
    ASSUME NEW S \in SUBSET Nat, IsFiniteSet(S)
    PROVE  \E q \in SetToSeqs(S) : \A i, j \in DOMAIN q : i < j => q[i] < q[j]
<1> DEFINE Ordered(q, X) == /\ q \in SetToSeqs(X)
                            /\ \A i, j \in DOMAIN q : i < j => q[i] < q[j]
           T == {n \in Nat : \A X \in SUBSET Nat :
                                IsFiniteSet(X) /\ Cardinality(X) = n => \E q : Ordered(q, X)}
<1>1. 0 \in T
  <2> SUFFICES ASSUME NEW X \in SUBSET Nat, IsFiniteSet(X), Cardinality(X) = 0
               PROVE  \E q : Ordered(q, X)
      OBVIOUS
  <2>1. X = {}
      BY FS_EmptySet
  <2>2. Ordered([i \in 1..0 |-> 0], X)
      BY <2>1 DEF SetToSeqs
  <2> QED BY <2>2
<1>2. ASSUME NEW n \in T \intersect Nat PROVE n + 1 \in T
  <2> SUFFICES ASSUME NEW X \in SUBSET Nat, IsFiniteSet(X), Cardinality(X) = n + 1
               PROVE  \E q : Ordered(q, X)
      OBVIOUS
  <2>1. X # {}
      BY FS_EmptySet
  <2>2. PICK x \in X : \A y \in X : x <= y
      BY <2>1, LeastNumber
  <2> DEFINE Y == X \ {x}
  <2>3. IsFiniteSet(Y) /\ Cardinality(Y) = n /\ Y \in SUBSET Nat
    <3>1. Cardinality(X \ {x}) = Cardinality(X) - 1 /\ IsFiniteSet(X \ {x})
        BY FS_RemoveElement
    <3>2. Cardinality(X) = n + 1 /\ n \in Nat
        OBVIOUS
    <3> QED BY <3>1, <3>2
  <2> HIDE DEF Ordered
  <2>4. PICK q : Ordered(q, Y)
      BY <2>3
  <2> USE DEF Ordered
  <2>5. /\ q \in [1..n -> Y] /\ DOMAIN q = 1..n
        /\ \A i, j \in 1..n : i # j => q[i] # q[j]
        /\ \A i, j \in 1..n : i < j => q[i] < q[j]
      BY <2>3, <2>4 DEF SetToSeqs
  <2> DEFINE p == [i \in 1..(n + 1) |-> IF i = 1 THEN x ELSE q[i - 1]]
  <2>6. p \in [1..(n + 1) -> X]
      BY <2>5
  <2>7. ASSUME NEW i \in 1..(n + 1), NEW j \in 1..(n + 1), i < j
        PROVE  p[i] < p[j]
    <3>1. j - 1 \in 1..n /\ p[j] = q[j - 1] /\ q[j - 1] \in Y
        BY <2>5, <2>7
    <3>2. CASE i = 1
      <4>1. x <= q[j - 1] /\ x # q[j - 1] /\ x \in Nat /\ q[j - 1] \in Nat
          BY <2>2, <3>1
      <4> QED BY <3>1, <3>2, <4>1
    <3>3. CASE i # 1
      <4>1. i - 1 \in 1..n /\ i - 1 < j - 1 /\ p[i] = q[i - 1]
          BY <2>7, <3>3
      <4> QED BY <2>5, <3>1, <4>1
    <3> QED BY <3>2, <3>3
  <2>8. ASSUME NEW i \in 1..(n + 1), NEW j \in 1..(n + 1), i # j
        PROVE  p[i] # p[j]
    <3>1. i < j \/ j < i
        BY <2>8
    <3>2. p[i] \in Nat /\ p[j] \in Nat
        BY <2>6
    <3> HIDE DEF p
    <3>3. p[i] < p[j] \/ p[j] < p[i]
        BY <2>7, <3>1
    <3> QED BY <3>2, <3>3
  <2> HIDE DEF p
  <2>9. DOMAIN p = 1..(n + 1) /\ p \in SetToSeqs(X)
      BY <2>6, <2>8 DEF SetToSeqs
  <2>10. Ordered(p, X)
      BY <2>7, <2>9
  <2> QED BY <2>10
<1> HIDE DEF T
<1>3. Cardinality(S) \in T
    BY <1>1, <1>2, SetInduction, FS_CardinalityType
<1>4. \E q : Ordered(q, S)
    BY <1>3 DEF T
<1> QED BY <1>4

LEMMA InOrderIsAll ==
    ASSUME NEW S \in SUBSET Nat, IsFiniteSet(S)
    PROVE  InOrder(S) \in Seq(S) /\ Range(InOrder(S)) = S
<1> DEFINE q == InOrder(S)
           c == Cardinality(S)
<1>1. q \in SetToSeqs(S)
    BY OrderExists DEF InOrder
<1>2. c \in Nat
    BY FS_CardinalityType
<1> HIDE DEF q
<1>3. q \in [1..c -> S] /\ \A i, j \in 1..c : i # j => q[i] # q[j]
    BY <1>1 DEF SetToSeqs
<1> HIDE DEF c
<1>4. q \in Seq(S)
    BY <1>2, <1>3
<1>5. Range(q) = S
  <2>1. Range(q) \subseteq S
      BY <1>3 DEF Range
  <2> DEFINE R == Range(q)
  <2>2. IsFiniteSet(R)
      BY <2>1, FS_Subset
  <2>3. q \in Bijection(1..c, R)
      BY <1>3 DEF Bijection, Injection, Surjection, IsInjective, Range
  <2>4. IsFiniteSet(1..c) /\ Cardinality(1..c) = c
      BY <1>2, FS_Interval
  <2>5. Cardinality(R) = c
      BY <2>3, <2>4, FS_Bijection DEF ExistsBijection
  <2> QED BY <2>1, <2>5, FS_Subset DEF c
<1> QED BY <1>4, <1>5 DEF q

\* Every member of a member, and nothing else.
LEMMA FlattenIsAll ==
    ASSUME NEW T, NEW ss, ss \in Seq(Seq(T))
    PROVE  /\ FlattenSeq(ss) \in Seq(T)
           /\ Range(FlattenSeq(ss)) = UNION {Range(ss[i]) : i \in DOMAIN ss}
<1> DEFINE n == Len(ss)
           V == Seq(T)
           P == Nat \X V
           G == [p \in P |-> IF p[1] + 1 \in 1..n THEN p[2] \o ss[p[1] + 1] ELSE p[2]]
           v == << >>
           flatten[i \in 1..Len(ss)] == IF i = 1 THEN ss[i] ELSE flatten[i - 1] \o ss[i]
<1>1. n \in Nat /\ DOMAIN ss = 1..n /\ \A i \in 1..n : ss[i] \in V
    OBVIOUS
<1>2. v \in V
    OBVIOUS
<1>3. \A a, b \in V : a \o b \in V
    BY ConcatProperties
<1> HIDE DEF n, v, V
<1>5. \A i \in Nat, t \in V : G[<<i, t>>] = IF i + 1 \in 1..n THEN t \o ss[i + 1] ELSE t
    OBVIOUS
<1>4. G \in [P -> V] /\ P = Nat \X V
    BY <1>1, <1>3
<1> HIDE DEF G, flatten, P
<1>6. PICK f \in [Nat -> V] : f[0] = v /\ \A i \in Nat : f[i + 1] = G[<<i, f[i]>>]
    BY ONLY <1>2, <1>4, Accumulates
<1>9. ASSUME NEW i \in Nat, i + 1 \in 1..n
      PROVE  f[i + 1] = f[i] \o ss[i + 1]
    BY <1>5, <1>6, <1>9
<1>10. f[0] = << >>
    BY <1>6 DEF v
<1> DEFINE h == [i \in 1..n |-> f[i]]
<1>11. ASSUME NEW i \in 1..n PROVE h[i] = IF i = 1 THEN ss[i] ELSE h[i - 1] \o ss[i]
  <2>1. CASE i = 1
    <3>1. f[0 + 1] = << >> \o ss[1]
        BY <1>9, <1>10, <2>1, 0 + 1 = 1
    <3>2. << >> \o ss[1] = ss[1]
        BY <1>1, <2>1 DEF V
    <3> QED BY <2>1, <3>1, <3>2, 0 + 1 = 1
  <2>2. CASE i # 1
    <3>1. i - 1 \in 1..n /\ i - 1 \in Nat /\ (i - 1) + 1 = i
        BY <1>1, <2>2
    <3>2. f[(i - 1) + 1] = f[i - 1] \o ss[(i - 1) + 1]
        BY <1>9, <3>1
    <3> QED BY <2>2, <3>1, <3>2
  <2> QED BY <2>1, <2>2
<1>12. h = [i \in 1..Len(ss) |-> IF i = 1 THEN ss[i] ELSE h[i - 1] \o ss[i]]
  <2>1. h = [i \in 1..n |-> h[i]]
      OBVIOUS
  <2> HIDE DEF h
  <2> QED BY <1>11, <2>1, Zenon DEF n
<1>13. flatten = [i \in 1..Len(ss) |-> IF i = 1 THEN ss[i] ELSE flatten[i - 1] \o ss[i]]
    BY <1>12, Zenon DEF flatten
<1>14. FlattenSeq(ss) = IF Len(ss) = 0 THEN ss ELSE flatten[Len(ss)]
    BY Zenon DEF FlattenSeq, flatten
<1> HIDE DEF flatten, h
<1> USE DEF V
<1> DEFINE Q(i) == /\ flatten[i] \in Seq(T)
                   /\ Range(flatten[i]) = UNION {Range(ss[j]) : j \in 1..i}
           E == {i \in Nat : i + 1 \in 1..n => Q(i + 1)}
<1>15. 0 \in E
  <2> SUFFICES ASSUME 1 \in 1..n PROVE Q(1)
      BY 0 + 1 = 1
  <2>1. flatten[1] = ss[1]
      BY <1>13 DEF n
  <2> QED BY <1>1, <2>1
<1>16. ASSUME NEW i \in Nat, i \in E PROVE i + 1 \in E
  <2> SUFFICES ASSUME i + 2 \in 1..n PROVE Q(i + 2)
    <3> HIDE DEF Q
    <3>1. (i + 1) + 1 = i + 2
        OBVIOUS
    <3> QED BY <3>1
  <2> HIDE DEF Q
  <2>1. i + 1 \in 1..n /\ Q(i + 1)
      BY <1>1, <1>16
  <2> USE DEF Q
  <2>2. flatten[i + 2] = flatten[i + 1] \o ss[i + 2]
    <3>1. i + 2 # 1 /\ (i + 2) - 1 = i + 1
        OBVIOUS
    <3> QED BY <1>13, <3>1 DEF n
  <2>3. ss[i + 2] \in Seq(T) /\ flatten[i + 1] \in Seq(T)
      BY <1>1, <2>1
  <2>4. /\ flatten[i + 2] \in Seq(T)
        /\ Range(flatten[i + 2]) = Range(flatten[i + 1]) \union Range(ss[i + 2])
    <3> DEFINE a == flatten[i + 1]
               b == ss[i + 2]
    <3>1. a \in Seq(T) /\ b \in Seq(T) /\ flatten[i + 2] = a \o b
        BY <2>2, <2>3
    <3> HIDE DEF a, b
    <3>2. a \o b \in Seq(T)
        BY <3>1, ConcatProperties
    <3>3. Range(a \o b) = Range(a) \union Range(b)
        BY <3>1, RangeConcatenation
    <3> QED BY <3>1, <3>2, <3>3 DEF a, b
  <2>5. 1..(i + 2) = (1..(i + 1)) \union {i + 2}
      OBVIOUS
  <2>6. UNION {Range(ss[j]) : j \in 1..(i + 2)}
           = (UNION {Range(ss[j]) : j \in 1..(i + 1)}) \union Range(ss[i + 2])
    <3> DEFINE R(j) == Range(ss[j])
    <3> HIDE DEF R
    <3>1. UNION {R(j) : j \in 1..(i + 2)} = (UNION {R(j) : j \in 1..(i + 1)}) \union R(i + 2)
        BY <2>5
    <3> QED BY <3>1 DEF R
  <2> QED BY <2>1, <2>4, <2>6
<1> HIDE DEF E, Q
<1>17. Nat \subseteq E
    BY <1>15, <1>16, SetInduction
<1>18. CASE n = 0
  <2>1. ss = << >> /\ FlattenSeq(ss) = << >> /\ DOMAIN ss = {}
      BY <1>14, <1>18 DEF n
  <2>2. << >> \in Seq(T) /\ Range(<< >>) = {}
      BY DEF Range
  <2>3. UNION {Range(ss[i]) : i \in {}} = {}
      OBVIOUS
  <2> QED BY <2>1, <2>2, <2>3
<1>19. CASE n # 0
  <2>1. n - 1 \in E /\ (n - 1) + 1 = n /\ n \in 1..n
      BY <1>1, <1>17, <1>19
  <2>2. Q(n)
      BY <2>1 DEF E
  <2>3. FlattenSeq(ss) = flatten[n]
      BY <1>14, <1>19 DEF n
  <2> QED BY <1>1, <2>2, <2>3 DEF Q
<1> QED BY <1>18, <1>19

-----------------------------------------------------------------------------
(* What a walk visits, level by level.  E are the relations, q the question, s the *)
(* seed.                                                                       *)

EndsIn(E, n, k, dir) ==
    {IF dir = "out" THEN e.key.dst ELSE e.key.src :
        e \in {x \in E : x.key.kind = k /\ (IF dir = "out" THEN x.key.src ELSE x.key.dst) = n}}

AroundIn(E, S, k, dir) == S \union UNION {EndsIn(E, x, k, d) : x \in S, d \in Range(Directions(dir))}

\* RelatedWithin, over a given set of relations.
Reach(E, S, k, dir, n) ==
    LET ball[i \in 0..n] == IF i = 0 THEN S ELSE AroundIn(E, ball[i - 1], k, dir)
    IN  ball[n]

Joins(E) == \A e \in E : e.key.src \in Ids /\ e.key.dst \in Ids

LEMMA EndsAreIds ==
    ASSUME NEW E, Joins(E), NEW n, NEW k, NEW dir
    PROVE  EndsIn(E, n, k, dir) \subseteq Ids
BY DEF EndsIn, Joins

LEMMA ReachRecurs ==
    ASSUME NEW E, Joins(E), NEW S \in SUBSET Ids, NEW k, NEW dir
    PROVE  /\ Reach(E, S, k, dir, 0) = S
           /\ \A n \in Nat :
                 /\ Reach(E, S, k, dir, n) \in SUBSET Ids
                 /\ Reach(E, S, k, dir, n + 1) = AroundIn(E, Reach(E, S, k, dir, n), k, dir)
<1> DEFINE V == SUBSET Ids
           Up(B) == AroundIn(E, B, k, dir)
           G == [B \in V |-> Up(B)]
<1>1. \A B \in V : Up(B) \in V
    BY EndsAreIds DEF AroundIn
<1> HIDE DEF V, Up
<1>2. \A B \in V : G[B] = Up(B)
    OBVIOUS
<1>3. G \in [V -> V] /\ S \in V
  <2>1. G \in [V -> V]
      BY <1>1
  <2> QED BY <2>1 DEF V
<1> HIDE DEF G
<1>4. PICK f \in [Nat -> V] : f[0] = S /\ \A n \in Nat : f[n + 1] = G[f[n]]
    BY ONLY <1>3, Iterates
<1>5. \A n \in Nat : f[n + 1] = Up(f[n])
    BY <1>2, <1>4
<1>6. ASSUME NEW n \in Nat PROVE Reach(E, S, k, dir, n) = f[n]
  <2> DEFINE ball[i \in 0..n] == IF i = 0 THEN S ELSE AroundIn(E, ball[i - 1], k, dir)
             h == [i \in 0..n |-> f[i]]
  <2>1. ASSUME NEW i \in 0..n PROVE h[i] = IF i = 0 THEN S ELSE Up(h[i - 1])
    <3>1. CASE i = 0
        BY <1>4, <3>1
    <3>2. CASE i # 0
      <4>1. i - 1 \in Nat /\ i - 1 \in 0..n /\ (i - 1) + 1 = i
          BY <3>2
      <4>2. f[(i - 1) + 1] = Up(f[i - 1])
          BY <1>5, <4>1
      <4> QED BY <3>2, <4>1, <4>2
    <3> QED BY <3>1, <3>2
  <2>2. h = [i \in 0..n |-> IF i = 0 THEN S ELSE AroundIn(E, h[i - 1], k, dir)]
    <3>1. h = [i \in 0..n |-> h[i]]
        OBVIOUS
    <3> HIDE DEF h
    <3> QED BY <2>1, <3>1, Zenon DEF Up
  <2>3. ball = [i \in 0..n |-> IF i = 0 THEN S ELSE AroundIn(E, ball[i - 1], k, dir)]
      BY <2>2, Zenon DEF ball
  <2>4. Reach(E, S, k, dir, n) = ball[n]
      BY Zenon DEF Reach, ball
  <2> HIDE DEF ball
  <2>5. \A i \in 0..n : ball[i] = IF i = 0 THEN S ELSE Up(ball[i - 1])
      BY <2>3 DEF Up
  <2> DEFINE D == {i \in Nat : i <= n => ball[i] = f[i]}
  <2>6. 0 \in D
      BY <1>4, <2>5
  <2>7. ASSUME NEW i \in D \intersect Nat PROVE i + 1 \in D
    <3> SUFFICES ASSUME i + 1 <= n PROVE ball[i + 1] = f[i + 1]
        OBVIOUS
    <3>1. i + 1 \in 0..n /\ i + 1 # 0 /\ (i + 1) - 1 = i /\ ball[i] = f[i] /\ i \in Nat
        OBVIOUS
    <3>2. ball[i + 1] = Up(ball[(i + 1) - 1])
        BY <2>5, <3>1
    <3> QED BY <1>5, <3>1, <3>2
  <2> HIDE DEF D
  <2>8. n \in D
      BY <2>6, <2>7, SetInduction
  <2>9. ball[n] = f[n]
      BY <2>8 DEF D
  <2> QED BY <2>4, <2>9
<1>7. \A n \in Nat : f[n] \in SUBSET Ids
    BY <1>4 DEF V
<1>8. Reach(E, S, k, dir, 0) = S
    BY <1>4, <1>6
<1>9. ASSUME NEW n \in Nat
      PROVE  Reach(E, S, k, dir, n) \in SUBSET Ids
             /\ Reach(E, S, k, dir, n + 1) = Up(Reach(E, S, k, dir, n))
  <2>1. Reach(E, S, k, dir, n) = f[n] /\ Reach(E, S, k, dir, n + 1) = f[n + 1]
      BY <1>6, n + 1 \in Nat
  <2> QED BY <1>5, <1>7, <2>1
<1> QED BY <1>8, <1>9 DEF Up

Dirs(q) == Range(Directions(q.dir))
Item(q, x, d, dir) == [node |-> x, depth |-> d, kind |-> q.kind, dir |-> dir]
Items(q) == [node : Ids, depth : Nat, kind : {q.kind}, dir : Dirs(q)]
Cost(q, S, d) == {Item(q, x, d, dir) : x \in S, dir \in Dirs(q)}
Limit(q) == IF q.transitive THEN q.depth ELSE 1
Ball(E, q, s, n) == Reach(E, {s}, q.kind, q.dir, n)

LEMMA BallRecurs ==
    ASSUME NEW E, Joins(E), NEW q, NEW s \in Ids
    PROVE  /\ Ball(E, q, s, 0) = {s}
           /\ \A n \in Nat :
                 /\ Ball(E, q, s, n) \subseteq Ids
                 /\ Ball(E, q, s, n) \subseteq Ball(E, q, s, n + 1)
                 /\ \A x \in Ball(E, q, s, n), dir \in Dirs(q) :
                       EndsIn(E, x, q.kind, dir) \subseteq Ball(E, q, s, n + 1)
                 /\ \A y \in Ball(E, q, s, n + 1) \ Ball(E, q, s, n) :
                       \E x \in Ball(E, q, s, n), dir \in Dirs(q) : y \in EndsIn(E, x, q.kind, dir)
<1>1. {s} \in SUBSET Ids
    OBVIOUS
<1>2. Ball(E, q, s, 0) = {s}
    BY <1>1, ReachRecurs DEF Ball
<1>3. ASSUME NEW n \in Nat
      PROVE  /\ Ball(E, q, s, n) \in SUBSET Ids
             /\ Ball(E, q, s, n + 1) =
                   Ball(E, q, s, n) \union UNION {EndsIn(E, x, q.kind, d) : x \in Ball(E, q, s, n), d \in Dirs(q)}
    BY <1>1, ReachRecurs DEF Ball, Dirs, AroundIn
<1> QED BY <1>2, <1>3

\* A ball that does not grow is the last one.
LEMMA BallStops ==
    ASSUME NEW E, Joins(E), NEW q, NEW s \in Ids, NEW m \in Nat, NEW n \in Nat, m <= n,
           Ball(E, q, s, m + 1) \subseteq Ball(E, q, s, m)
    PROVE  Ball(E, q, s, n) = Ball(E, q, s, m)
<1> DEFINE B(i) == Ball(E, q, s, i)
           D == {i \in Nat : B(m + i) = B(m)}
<1>1. 0 \in D
    OBVIOUS
<1>2. ASSUME NEW i \in D \intersect Nat PROVE i + 1 \in D
  <2>1. m + i \in Nat /\ (m + i) + 1 = m + (i + 1) /\ B(m + i) = B(m)
      OBVIOUS
  <2>2. /\ B(m + i) \subseteq B((m + i) + 1)
        /\ \A y \in B((m + i) + 1) \ B(m + i) :
              \E x \in B(m + i), dir \in Dirs(q) : y \in EndsIn(E, x, q.kind, dir)
      BY <2>1, BallRecurs
  <2>3. \A x \in B(m), dir \in Dirs(q) : EndsIn(E, x, q.kind, dir) \subseteq B(m + 1)
      BY BallRecurs
  <2> HIDE DEF B
  <2>4. B((m + i) + 1) = B(m)
      BY <2>1, <2>2, <2>3 DEF B
  <2> QED BY <2>1, <2>4
<1> HIDE DEF D
<1>3. n - m \in D
    BY <1>1, <1>2, SetInduction, n - m \in Nat
<1>4. B(m + (n - m)) = B(m) /\ m + (n - m) = n
    BY <1>3 DEF D
<1> QED BY <1>4

\* What a walk owes: the statements of the level d that are left come first, those of
\* the nodes it has seen beyond that level follow.
Level(E, q, s, d, seen, walk) ==
    /\ d \in Nat /\ d < Limit(q)
    /\ walk \in Seq(Items(q))
    /\ \A i \in DOMAIN walk : /\ walk[i].depth \in {d, d + 1} /\ walk[i].depth < Limit(q)
                              /\ walk[i].node \in Ball(E, q, s, walk[i].depth)
    /\ \A i, j \in DOMAIN walk : i <= j => walk[i].depth <= walk[j].depth
    /\ Ball(E, q, s, d) \subseteq seen /\ seen \subseteq Ball(E, q, s, d + 1)
    /\ \A x \in Ball(E, q, s, d), dir \in Dirs(q) :
          EndsIn(E, x, q.kind, dir) \subseteq seen \/ Item(q, x, d, dir) \in Range(walk)
    /\ d + 1 < Limit(q) => \A x \in seen \ Ball(E, q, s, d), dir \in Dirs(q) :
                              Item(q, x, d + 1, dir) \in Range(walk)

\* The statement at the head is of the next level: this one is done.
LEMMA LevelUp ==
    ASSUME NEW E, Joins(E), NEW q, Limit(q) \in Nat, NEW s \in Ids, NEW d, NEW seen, NEW walk,
           Level(E, q, s, d, seen, walk), walk # << >>, walk[1].depth # d
    PROVE  Level(E, q, s, d + 1, seen, walk)
<1> DEFINE B(n) == Ball(E, q, s, n)
<1>1. d \in Nat /\ d + 1 \in Nat /\ walk \in Seq(Items(q)) /\ 1 \in DOMAIN walk
    BY DEF Level
<1>2. walk[1].depth = d + 1 /\ d + 1 < Limit(q)
    BY <1>1 DEF Level
<1>3. \A i \in DOMAIN walk : walk[i].depth = d + 1
  <2> SUFFICES ASSUME NEW i \in DOMAIN walk PROVE walk[i].depth = d + 1
      OBVIOUS
  <2>1. walk[1].depth <= walk[i].depth /\ walk[i].depth \in {d, d + 1}
      BY <1>1 DEF Level
  <2> QED BY <1>1, <1>2, <2>1
<1>4. \A x, dir : Item(q, x, d, dir) \notin Range(walk)
    BY <1>1, <1>3 DEF Item, Range
<1>5. \A x \in B(d), dir \in Dirs(q) : EndsIn(E, x, q.kind, dir) \subseteq seen
    BY <1>4 DEF Level
<1>6. \A y \in B(d + 1) \ B(d) : \E x \in B(d), dir \in Dirs(q) : y \in EndsIn(E, x, q.kind, dir)
    BY <1>1, BallRecurs
<1>7. B(d) \subseteq seen /\ seen \subseteq B(d + 1)
    BY DEF Level
<1>8. seen = B(d + 1)
    BY <1>5, <1>6, <1>7
<1>9. B(d + 1) \subseteq B((d + 1) + 1)
    BY <1>1, BallRecurs
<1>10. \A x \in B(d + 1), dir \in Dirs(q) :
          EndsIn(E, x, q.kind, dir) \subseteq seen \/ Item(q, x, d + 1, dir) \in Range(walk)
  <2> SUFFICES ASSUME NEW x \in B(d + 1), NEW dir \in Dirs(q)
               PROVE  EndsIn(E, x, q.kind, dir) \subseteq seen \/ Item(q, x, d + 1, dir) \in Range(walk)
      OBVIOUS
  <2>1. CASE x \in B(d)
      BY <1>5, <2>1
  <2>2. CASE x \notin B(d)
      BY <1>2, <1>8, <2>2 DEF Level
  <2> QED BY <2>1, <2>2
<1>11. \A i \in DOMAIN walk : /\ walk[i].depth \in {d + 1, (d + 1) + 1} /\ walk[i].depth < Limit(q)
                              /\ walk[i].node \in Ball(E, q, s, walk[i].depth)
    BY <1>2, <1>3 DEF Level
<1>12. \A i, j \in DOMAIN walk : i <= j => walk[i].depth <= walk[j].depth
    BY DEF Level
<1>13. seen \ B(d + 1) = {}
    BY <1>8
<1> QED BY <1>1, <1>2, <1>8, <1>9, <1>10, <1>11, <1>12, <1>13 DEF Level

\* A statement of the level d, and the statements that its rows cost.
LEMMA LevelStays ==
    ASSUME NEW E, Joins(E), NEW q, Limit(q) \in Nat, NEW s \in Ids, NEW d, NEW seen, NEW walk,
           Level(E, q, s, d, seen, walk), walk # << >>, walk[1].depth = d,
           NEW new, new = EndsIn(E, walk[1].node, walk[1].kind, walk[1].dir) \ seen,
           NEW more \in Seq(Items(q)),
           Range(more) = IF d + 1 < Limit(q) THEN Cost(q, new, d + 1) ELSE {}
    PROVE  Level(E, q, s, d, seen \union new, Tail(walk) \o more)
<1> DEFINE B(n) == Ball(E, q, s, n)
           head == walk[1]
           rest == Tail(walk)
           w == rest \o more
<1>1. /\ d \in Nat /\ d + 1 \in Nat /\ walk \in Seq(Items(q)) /\ 1 \in DOMAIN walk
      /\ d < Limit(q) /\ DOMAIN walk = 1..Len(walk) /\ Len(walk) \in Nat
    BY DEF Level
<1>2. /\ head \in Items(q) /\ head = Item(q, head.node, head.depth, head.dir) /\ head.dir \in Dirs(q)
      /\ head.node \in B(d) /\ head.kind = q.kind
  <2>1. head \in Items(q)
      BY <1>1
  <2>2. head.node \in B(d)
      BY <1>1 DEF Level
  <2> HIDE DEF head
  <2> QED BY <2>1, <2>2 DEF Items, Item
<1>3. rest \in Seq(Items(q)) /\ Len(rest) = Len(walk) - 1
      /\ \A i \in 1..Len(rest) : i + 1 \in DOMAIN walk /\ rest[i] = walk[i + 1]
    BY <1>1
<1>4. w \in Seq(Items(q)) /\ Len(w) = Len(rest) + Len(more)
      /\ \A i \in 1..(Len(rest) + Len(more)) :
            w[i] = IF i <= Len(rest) THEN rest[i] ELSE more[i - Len(rest)]
  <2> HIDE DEF rest
  <2> QED BY <1>3, ConcatProperties
<1>5. Range(w) = Range(rest) \union Range(more)
  <2> HIDE DEF rest
  <2> QED BY <1>3, RangeConcatenation
<1>6. Range(walk) = {head} \union Range(rest)
  <2>1. ASSUME NEW x \in Range(walk) PROVE x = head \/ x \in Range(rest)
    <3>1. PICK i \in DOMAIN walk : x = walk[i]
        BY DEF Range
    <3>2. CASE i = 1
        BY <3>1, <3>2
    <3>3. CASE i # 1
      <4>1. i - 1 \in 1..Len(rest) /\ (i - 1) + 1 = i
          BY <1>1, <1>3, <3>3
      <4>2. rest[i - 1] = x
          BY <1>3, <3>1, <4>1
      <4>3. DOMAIN rest = 1..Len(rest)
          BY <1>3
      <4> HIDE DEF rest
      <4> QED BY <4>1, <4>2, <4>3 DEF Range
    <3> QED BY <3>2, <3>3
  <2>2. ASSUME NEW x \in Range(rest) PROVE x \in Range(walk)
    <3>1. DOMAIN rest = 1..Len(rest)
        BY <1>3
    <3> HIDE DEF rest
    <3> QED BY <1>3, <3>1 DEF Range
  <2>3. head \in Range(walk)
      BY <1>1 DEF Range
  <2> HIDE DEF rest, head
  <2> QED BY <2>1, <2>2, <2>3
<1>7. new \subseteq B(d + 1)
    BY <1>1, <1>2, BallRecurs
<1>8. \A i \in 1..Len(more) : /\ more[i].depth = d + 1 /\ d + 1 < Limit(q) /\ more[i].node \in B(d + 1)
  <2> SUFFICES ASSUME NEW i \in 1..Len(more)
               PROVE  more[i].depth = d + 1 /\ d + 1 < Limit(q) /\ more[i].node \in B(d + 1)
      OBVIOUS
  <2>1. more[i] \in Range(more)
      BY DEF Range
  <2>2. d + 1 < Limit(q)
      BY <2>1
  <2>3. PICK x \in new, dir \in Dirs(q) : more[i] = Item(q, x, d + 1, dir)
      BY <2>1, <2>2 DEF Cost
  <2> QED BY <1>7, <2>2, <2>3 DEF Item
<1>9. \A i \in DOMAIN w : /\ w[i].depth \in {d, d + 1} /\ w[i].depth < Limit(q)
                          /\ w[i].node \in Ball(E, q, s, w[i].depth)
  <2> SUFFICES ASSUME NEW i \in DOMAIN w
               PROVE  /\ w[i].depth \in {d, d + 1} /\ w[i].depth < Limit(q)
                      /\ w[i].node \in Ball(E, q, s, w[i].depth)
      OBVIOUS
  <2>1. i \in 1..(Len(rest) + Len(more)) /\ Len(rest) \in Nat /\ Len(more) \in Nat
      BY <1>1, <1>3, <1>4
  <2>2. CASE i <= Len(rest)
    <3>1. i \in 1..Len(rest) /\ w[i] = walk[i + 1] /\ i + 1 \in DOMAIN walk
        BY <1>3, <1>4, <2>1, <2>2
    <3> HIDE DEF w, rest
    <3> QED BY <3>1 DEF Level
  <2>3. CASE ~(i <= Len(rest))
    <3>1. i - Len(rest) \in 1..Len(more) /\ w[i] = more[i - Len(rest)]
        BY <1>4, <2>1, <2>3
    <3> HIDE DEF w, rest
    <3> QED BY <1>1, <1>8, <3>1
  <2> QED BY <2>2, <2>3
<1>10. \A i, j \in DOMAIN w : i <= j => w[i].depth <= w[j].depth
  <2> SUFFICES ASSUME NEW i \in DOMAIN w, NEW j \in DOMAIN w, i <= j
               PROVE  w[i].depth <= w[j].depth
      OBVIOUS
  <2>1. /\ i \in 1..(Len(rest) + Len(more)) /\ Len(rest) \in Nat /\ Len(more) \in Nat
        /\ j \in 1..(Len(rest) + Len(more))
      BY <1>1, <1>3, <1>4
  <2>2. CASE j <= Len(rest)
    <3>1. /\ i \in 1..Len(rest) /\ w[i] = walk[i + 1] /\ i + 1 \in DOMAIN walk
          /\ j \in 1..Len(rest) /\ w[j] = walk[j + 1] /\ j + 1 \in DOMAIN walk
          /\ i + 1 <= j + 1
        BY <1>3, <1>4, <2>1, <2>2
    <3> HIDE DEF w, rest
    <3> QED BY <3>1 DEF Level
  <2>3. CASE ~(j <= Len(rest))
    <3>1. j - Len(rest) \in 1..Len(more) /\ w[j] = more[j - Len(rest)]
        BY <1>4, <2>1, <2>3
    <3>2. w[j].depth = d + 1
        BY <1>8, <3>1
    <3>3. w[i].depth \in {d, d + 1}
        BY <1>9
    <3> HIDE DEF w, rest
    <3> QED BY <1>1, <3>2, <3>3
  <2> QED BY <2>2, <2>3
<1>11. B(d) \subseteq seen \union new /\ seen \union new \subseteq B(d + 1)
    BY <1>7 DEF Level
<1>12. ASSUME NEW x \in B(d), NEW dir \in Dirs(q)
       PROVE  EndsIn(E, x, q.kind, dir) \subseteq seen \union new \/ Item(q, x, d, dir) \in Range(w)
  <2>1. EndsIn(E, x, q.kind, dir) \subseteq seen \/ Item(q, x, d, dir) \in Range(walk)
      BY DEF Level
  <2>2. CASE Item(q, x, d, dir) = head
    <3>1. x = head.node /\ dir = head.dir
        BY <2>2 DEF Item
    <3> QED BY <1>2, <3>1
  <2>3. CASE Item(q, x, d, dir) # head
    <3> HIDE DEF w, head, rest
    <3> QED BY <1>5, <1>6, <2>1, <2>3
  <2> QED BY <2>2, <2>3
<1>13. ASSUME d + 1 < Limit(q), NEW x \in (seen \union new) \ B(d), NEW dir \in Dirs(q)
       PROVE  Item(q, x, d + 1, dir) \in Range(w)
  <2>1. CASE x \in seen
    <3>1. Item(q, x, d + 1, dir) \in Range(walk)
        BY <1>13, <2>1 DEF Level
    <3>2. Item(q, x, d + 1, dir) # head
        BY <1>1 DEF Item
    <3> HIDE DEF w, head, rest
    <3> QED BY <1>5, <1>6, <3>1, <3>2
  <2>2. CASE x \in new
    <3>1. Item(q, x, d + 1, dir) \in Range(more)
        BY <1>13, <2>2 DEF Cost
    <3> HIDE DEF w, rest
    <3> QED BY <1>5, <3>1
  <2> QED BY <2>1, <2>2
<1> HIDE DEF w
<1>14. Level(E, q, s, d, seen \union new, w)
    BY <1>1, <1>4, <1>9, <1>10, <1>11, <1>12, <1>13 DEF Level
<1> QED BY <1>14 DEF w

\* Nothing is left: the walk has seen the nodes up to the depth asked for.
LEMMA LevelEnds ==
    ASSUME NEW E, Joins(E), NEW q, Limit(q) \in Nat, NEW s \in Ids, NEW d, NEW seen,
           Level(E, q, s, d, seen, << >>)
    PROVE  seen = Ball(E, q, s, Limit(q))
<1> DEFINE B(n) == Ball(E, q, s, n)
<1>1. /\ d \in Nat /\ d < Limit(q) /\ B(d) \subseteq seen /\ seen \subseteq B(d + 1)
      /\ \A x \in B(d), dir \in Dirs(q) : EndsIn(E, x, q.kind, dir) \subseteq seen
      /\ d + 1 < Limit(q) => \A x \in seen \ B(d), dir \in Dirs(q) : FALSE
    BY DEF Level, Range
<1>2. \A y \in B(d + 1) \ B(d) : \E x \in B(d), dir \in Dirs(q) : y \in EndsIn(E, x, q.kind, dir)
    BY <1>1, BallRecurs
<1>3. seen = B(d + 1)
    BY <1>1, <1>2
<1>4. CASE d + 1 = Limit(q)
    BY <1>3, <1>4
<1>5. CASE d + 1 < Limit(q)
  <2>1. Dirs(q) # {}
    <3>1. Directions(q.dir) # << >> /\ 1 \in DOMAIN Directions(q.dir)
        BY DEF Directions
    <3> QED BY <3>1 DEF Dirs, Range
  <2>2. B(d + 1) \subseteq B(d)
      BY <1>1, <1>3, <1>5, <2>1
  <2>3. B(Limit(q)) = B(d)
      BY <1>1, <2>2, BallStops
  <2>4. B(d) \subseteq B(d + 1)
      BY <1>1, BallRecurs
  <2> QED BY <1>3, <2>2, <2>3, <2>4
<1> QED BY <1>1, <1>4, <1>5

-----------------------------------------------------------------------------
(* What an open graph has answered so far, as long as the relations stay. *)

Reached(E, q, s) == Ball(E, q, s, Limit(q)) \ {s}
KeptBy(q, S, types) == {x \in S : Abstractness(types[x]) \in q.keep}
AnswerFor(E, q, A, types) == UNION {KeptBy(q, Reached(E, q, a), types) : a \in A}

\* A question that relation() accepts: its nodes exist or did, and it goes one relation
\* far at least.
Relational(q) == q.seeds \in Seq(Ids) /\ Limit(q) \in Nat \ {0}

\* The walk from the seed s.
Walking(E, g, A, s) ==
    /\ Range(g.ask.seeds) = A \union {s} \union Range(g.left)
    /\ s \in g.seen
    /\ \A x \in g.seen \ {s} : g.types[x] # None
    /\ g.answer = AnswerFor(E, g.ask, A, g.types) \union KeptBy(g.ask, g.seen \ {s}, g.types)
    /\ \E d \in Nat : Level(E, g.ask, s, d, g.seen, g.walk)

\* A: the seeds whose walks are over.
Answered(E, g) ==
    /\ Relational(g.ask) /\ g.left \in Seq(Ids)
    /\ g.status \in {"next", "walk", "done"}
    /\ \E A \in SUBSET Ids :
          /\ \A a \in A : \A x \in Reached(E, g.ask, a) : g.types[x] # None
          /\ g.status # "walk" => /\ Range(g.ask.seeds) = A \union Range(g.left)
                                  /\ g.answer = AnswerFor(E, g.ask, A, g.types)
          /\ g.status = "done" => g.left = << >>
          /\ g.status = "walk" => \E s \in Ids : Walking(E, g, A, s)

AnswerInv ==
    /\ RollupInv /\ Shape(eg)
    /\ eg.status # "closed" /\ eg.still /\ eg.ask.job = "relation" => Answered(entity.edges, eg)

LEMMA EndsOfTables ==
    ASSUME RollupInv
    PROVE  /\ Joins(entity.edges)
           /\ \A n, k, dir : Ends(n, k, dir) = EndsIn(entity.edges, n, k, dir)
           /\ \A n, k, dir : \A x \in EndsIn(entity.edges, n, k, dir) : entity.nodes[x] # None
           /\ \A n, k, dir : n \notin Present(base) => EndsIn(entity.edges, n, k, dir) = {}
<1>1. \A e \in entity.edges : /\ e.key.src \in Present(base) /\ e.key.dst \in Present(base)
                              /\ entity.nodes[e.key.src] # None /\ entity.nodes[e.key.dst] # None
    BY DEF RollupInv, TablesOK, Stored
<1>2. Present(base) \subseteq Ids
    BY DEF Present
<1>3. Joins(entity.edges)
    BY <1>1, <1>2 DEF Joins
<1>4. \A n, k, dir : Ends(n, k, dir) = EndsIn(entity.edges, n, k, dir)
    BY DEF Ends, RowsOf, EndsIn
<1>5. \A n, k, dir : \A x \in EndsIn(entity.edges, n, k, dir) : entity.nodes[x] # None
    BY <1>1 DEF EndsIn
<1>6. \A n, k, dir : n \notin Present(base) => EndsIn(entity.edges, n, k, dir) = {}
    BY <1>1 DEF EndsIn
<1> QED BY <1>3, <1>4, <1>5, <1>6

\* The statements of a node are one per direction.
LEMMA StatementsAreItems ==
    ASSUME eg.ask.job = "relation", NEW n \in Ids, NEW d \in Nat
    PROVE  /\ Statements(n, d) \in Seq(Items(eg.ask)) /\ Statements(n, d) # << >>
           /\ Range(Statements(n, d)) = {Item(eg.ask, n, d, dir) : dir \in Dirs(eg.ask)}
           /\ \A i \in DOMAIN Statements(n, d) : /\ Statements(n, d)[i].depth = d
                                                 /\ Statements(n, d)[i].node = n
<1> DEFINE q == eg.ask
           D == Directions(q.dir)
           st == [i \in DOMAIN D |-> Item(q, n, d, D[i])]
<1>1. Statements(n, d) = st
    BY DEF Statements, Item
<1>2. D = <<"out", "in">> \/ D = <<q.dir>>
    BY DEF Directions
<1> HIDE DEF D
<1>3. \E k \in {1, 2} : DOMAIN D = 1..k
    BY <1>2
<1>4. \A i \in DOMAIN D : D[i] \in Dirs(q)
    BY DEF Dirs, Range, D
<1> HIDE DEF q
<1>5. \A i \in DOMAIN D : Item(q, n, d, D[i]) \in Items(q)
    BY <1>4 DEF Item, Items
<1>6. st \in Seq(Items(q)) /\ st # << >> /\ DOMAIN st = DOMAIN D
  <2>1. PICK k \in {1, 2} : DOMAIN D = 1..k
      BY <1>3
  <2>2. st \in [1..k -> Items(q)] /\ k \in Nat /\ k # 0
      BY <1>5, <2>1
  <2> HIDE DEF st
  <2>3. st \in Seq(Items(q)) /\ Len(st) = k
      BY <2>2
  <2> QED BY <2>1, <2>2, <2>3
<1>7. Range(st) = {Item(q, n, d, dir) : dir \in Dirs(q)}
    BY DEF Range, Dirs, D
<1>8. \A i \in DOMAIN st : st[i].depth = d /\ st[i].node = n
    BY DEF Item
<1> QED BY <1>1, <1>6, <1>7, <1>8 DEF q

\* The first statements of a walk.
LEMMA LevelStarts ==
    ASSUME NEW E, Joins(E), NEW q, Limit(q) \in Nat \ {0}, NEW s \in Ids,
           NEW st \in Seq(Items(q)),
           Range(st) = {Item(q, s, 0, dir) : dir \in Dirs(q)},
           \A i \in DOMAIN st : st[i].depth = 0 /\ st[i].node = s
    PROVE  Level(E, q, s, 0, {s}, st)
<1>1. Ball(E, q, s, 0) = {s} /\ Ball(E, q, s, 0) \subseteq Ball(E, q, s, 0 + 1)
    BY BallRecurs
<1>2. 0 \in Nat /\ 0 < Limit(q)
    OBVIOUS
<1>3. \A i \in DOMAIN st : /\ st[i].depth \in {0, 0 + 1} /\ st[i].depth < Limit(q)
                           /\ st[i].node \in Ball(E, q, s, st[i].depth)
    BY <1>1, <1>2
<1>4. \A i, j \in DOMAIN st : i <= j => st[i].depth <= st[j].depth
    OBVIOUS
<1>5. \A dir \in Dirs(q) : Item(q, s, 0, dir) \in Range(st)
    OBVIOUS
<1> QED BY <1>1, <1>2, <1>3, <1>4, <1>5 DEF Level

\* A seed that no relation has an end at.
LEMMA NothingReached ==
    ASSUME NEW E, Joins(E), NEW q, Limit(q) \in Nat, NEW s \in Ids,
           \A dir : EndsIn(E, s, q.kind, dir) = {}
    PROVE  Reached(E, q, s) = {}
<1>1. Ball(E, q, s, 0) = {s}
      /\ \A y \in Ball(E, q, s, 0 + 1) \ Ball(E, q, s, 0) :
            \E x \in Ball(E, q, s, 0), dir \in Dirs(q) : y \in EndsIn(E, x, q.kind, dir)
    BY BallRecurs
<1>2. Ball(E, q, s, 0 + 1) \subseteq Ball(E, q, s, 0)
    BY <1>1
<1>3. Ball(E, q, s, Limit(q)) = Ball(E, q, s, 0)
    BY <1>2, BallStops
<1> QED BY <1>1, <1>3 DEF Reached

\* A type once read is kept; the ends of a relation have one to read.
LEMMA TypesAreKept ==
    ASSUME NEW S
    PROVE  /\ \A x \in Ids : eg.types[x] # None => Wrapped(S)[x] = eg.types[x]
           /\ \A x \in Ids \intersect S : entity.nodes[x] # None => Wrapped(S)[x] # None
BY DEF Wrapped, TypeRead

LEMMA AnswersStay ==
    ASSUME NEW E, NEW q, Joins(E), NEW A \in SUBSET Ids, NEW types, NEW types2, Limit(q) \in Nat,
           \A a \in A : \A x \in Reached(E, q, a) : types[x] # None,
           \A x \in Ids : types[x] # None => types2[x] = types[x]
    PROVE  /\ \A a \in A : \A x \in Reached(E, q, a) : types2[x] # None
           /\ AnswerFor(E, q, A, types2) = AnswerFor(E, q, A, types)
<1>1. \A a \in A : \A x \in Reached(E, q, a) : x \in Ids
    BY BallRecurs DEF Reached
<1>2. \A a \in A : \A x \in Reached(E, q, a) : types2[x] = types[x]
    BY <1>1
<1>3. \A a \in A : KeptBy(q, Reached(E, q, a), types2) = KeptBy(q, Reached(E, q, a), types)
    BY <1>2 DEF KeptBy
<1>4. AnswerFor(E, q, A, types2) = AnswerFor(E, q, A, types)
    BY <1>3 DEF AnswerFor
<1> QED BY <1>2, <1>4

\* Between two walks, and within one.
LEMMA AnsweredSoFar ==
    ASSUME NEW E, NEW g, NEW A \in SUBSET Ids, Relational(g.ask), g.left \in Seq(Ids),
           g.status \in {"next", "done"}, g.status = "done" => g.left = << >>,
           \A a \in A : \A x \in Reached(E, g.ask, a) : g.types[x] # None,
           Range(g.ask.seeds) = A \union Range(g.left),
           g.answer = AnswerFor(E, g.ask, A, g.types)
    PROVE  Answered(E, g)
BY DEF Answered

LEMMA AnsweredMeanwhile ==
    ASSUME NEW E, NEW g, NEW A \in SUBSET Ids, NEW s \in Ids, Relational(g.ask),
           g.left \in Seq(Ids), g.status = "walk", Walking(E, g, A, s),
           \A a \in A : \A x \in Reached(E, g.ask, a) : g.types[x] # None
    PROVE  Answered(E, g)
BY DEF Answered

LEMMA AskAnswers ==
    ASSUME NEW q, Ask(q), q.job = "relation" => Relational(q), eg'.ask.job = "relation"
    PROVE  Answered(entity'.edges, eg')
<1>1. /\ eg'.status = "next" /\ eg'.ask = q /\ eg'.left = q.seeds /\ eg'.answer = {}
    BY AskFields
<1>2. AnswerFor(entity'.edges, q, {}, eg'.types) = {}
    BY DEF AnswerFor
<1>3. Relational(q) /\ q.seeds \in Seq(Ids)
    BY <1>1 DEF Relational
<1>4. {} \in SUBSET Ids /\ Range(q.seeds) = {} \union Range(eg'.left)
    BY <1>1
<1> QED BY <1>1, <1>2, <1>3, <1>4, AnsweredSoFar

LEMMA NextSeedAnswers ==
    ASSUME RollupInv, Shape(eg), NextSeed, eg.ask.job = "relation", Answered(entity.edges, eg)
    PROVE  Answered(entity.edges, eg')
<1> DEFINE E == entity.edges
           q == eg.ask
           h == Head(eg.left)
<1>1. eg.status = "next" /\ Relational(q) /\ eg.left \in Seq(Ids) /\ Joins(E)
      /\ Limit(q) \in Nat \ {0} /\ eg'.ask = q /\ eg'.answer = eg.answer
    BY NextSeedFields, EndsOfTables DEF Answered, Relational
<1>2. PICK A \in SUBSET Ids :
              /\ \A a \in A : \A x \in Reached(E, q, a) : eg.types[x] # None
              /\ Range(q.seeds) = A \union Range(eg.left)
              /\ eg.answer = AnswerFor(E, q, A, eg.types)
    BY <1>1 DEF Answered
<1>3. CASE eg.left = << >>
  <2>1. eg'.status = "done" /\ eg'.types = eg.types /\ eg'.left = eg.left
      BY <1>3, NextSeedFields
  <2> HIDE DEF E
  <2>2. /\ A \in SUBSET Ids /\ Relational(eg'.ask) /\ eg'.left \in Seq(Ids)
        /\ eg'.status \in {"next", "done"} /\ (eg'.status = "done" => eg'.left = << >>)
        /\ \A a \in A : \A x \in Reached(E, eg'.ask, a) : eg'.types[x] # None
        /\ Range(eg'.ask.seeds) = A \union Range(eg'.left)
        /\ eg'.answer = AnswerFor(E, eg'.ask, A, eg'.types)
      BY <1>1, <1>2, <1>3, <2>1
  <2>3. Answered(E, eg')
      BY ONLY <2>2, AnsweredSoFar
  <2> QED BY <2>3 DEF E
<1>4. CASE eg.left # << >>
  <2>1. /\ h \in Ids /\ Tail(eg.left) \in Seq(Ids) /\ Range(eg.left) = {h} \union Range(Tail(eg.left))
        /\ eg'.left = Tail(eg.left)
    <3>1. eg'.left = Tail(eg.left)
        BY <1>4, NextSeedFields
    <3> DEFINE l == eg.left
    <3>2. l \in Seq(Ids) /\ l # << >>
        BY <1>1, <1>4
    <3> HIDE DEF l
    <3>3. Head(l) \in Ids /\ Tail(l) \in Seq(Ids) /\ Range(l) = {Head(l)} \union Range(Tail(l))
      <4>1. l = <<Head(l)>> \o Tail(l) /\ Head(l) \in Ids /\ Tail(l) \in Seq(Ids)
          BY <3>2
      <4>2. <<Head(l)>> \in Seq(Ids) /\ Range(<<Head(l)>>) = {Head(l)}
          BY <4>1 DEF Range
      <4> DEFINE a == <<Head(l)>>
                 b == Tail(l)
      <4> HIDE DEF a, b
      <4>3. a \in Seq(Ids) /\ b \in Seq(Ids) => Range(a \o b) = Range(a) \union Range(b)
          BY RangeConcatenation
      <4> QED BY <4>1, <4>2, <4>3 DEF a, b
    <3> QED BY <3>1, <3>3 DEF l
  <2>2. CASE h \notin Present(base)
    <3>1. eg'.status = "next" /\ eg'.types = eg.types
        BY <1>4, <2>2, NextSeedFields
    <3>2. \A dir : EndsIn(E, h, q.kind, dir) = {}
        BY <2>2, EndsOfTables
    <3>3. Reached(E, q, h) = {}
      <4> HIDE DEF E, q, h
      <4> QED BY <1>1, <2>1, <3>2, NothingReached
    <3> DEFINE A2 == A \union {h}
    <3>4. AnswerFor(E, q, A2, eg.types) = AnswerFor(E, q, A, eg.types)
      <4>1. KeptBy(q, Reached(E, q, h), eg.types) = {}
          BY <3>3 DEF KeptBy
      <4> HIDE DEF E, q, h
      <4> QED BY <4>1 DEF AnswerFor
    <3>5. \A a \in A2 : \A x \in Reached(E, q, a) : eg.types[x] # None
        BY <1>2, <3>3
    <3>6. A2 \in SUBSET Ids /\ Range(q.seeds) = A2 \union Range(Tail(eg.left))
      <4> HIDE DEF q, h
      <4> QED BY <1>2, <2>1
    <3> HIDE DEF A2, E
    <3>7. Answered(E, eg')
        BY <1>1, <1>2, <2>1, <3>1, <3>4, <3>5, <3>6, AnsweredSoFar
    <3> QED BY <3>7 DEF E
  <2>3. CASE h \in Present(base)
    <3>1. /\ eg'.status = "walk" /\ eg'.types = Wrapped({h})
          /\ eg'.seen = {h} /\ eg'.walk = Statements(h, 0)
        BY <1>4, <2>3, NextSeedFields
    <3>2. Level(E, q, h, 0, {h}, Statements(h, 0))
      <4>1. /\ Statements(h, 0) \in Seq(Items(q))
            /\ Range(Statements(h, 0)) = {Item(q, h, 0, dir) : dir \in Dirs(q)}
            /\ \A i \in DOMAIN Statements(h, 0) : /\ Statements(h, 0)[i].depth = 0
                                                  /\ Statements(h, 0)[i].node = h
        <5>1. h \in Ids /\ 0 \in Nat
            BY <2>1
        <5> HIDE DEF h
        <5> QED BY <5>1, StatementsAreItems
      <4> DEFINE st == Statements(h, 0)
      <4> HIDE DEF E, q, h, st
      <4>2. st \in Seq(Items(q)) /\ Range(st) = {Item(q, h, 0, dir) : dir \in Dirs(q)}
            /\ \A i \in DOMAIN st : st[i].depth = 0 /\ st[i].node = h
          BY <4>1 DEF st
      <4>3. Level(E, q, h, 0, {h}, st)
          BY <1>1, <2>1, <4>2, LevelStarts
      <4> QED BY <4>3 DEF st
    <3>3. \A x \in Ids : eg.types[x] # None => Wrapped({h})[x] = eg.types[x]
        BY TypesAreKept
    <3>4. /\ \A a \in A : \A x \in Reached(E, q, a) : eg'.types[x] # None
          /\ AnswerFor(E, q, A, eg'.types) = AnswerFor(E, q, A, eg.types)
      <4> DEFINE new == eg'.types
                 old == eg.types
      <4>1. \A x \in Ids : old[x] # None => new[x] = old[x]
          BY <3>1, <3>3
      <4>2. \A a \in A : \A x \in Reached(E, q, a) : old[x] # None
          BY <1>2
      <4> HIDE DEF E, q, new, old
      <4>3. /\ \A a \in A : \A x \in Reached(E, q, a) : new[x] # None
            /\ AnswerFor(E, q, A, new) = AnswerFor(E, q, A, old)
        <5>1. Joins(E) /\ A \in SUBSET Ids /\ Limit(q) \in Nat
            BY <1>1
        <5> QED BY ONLY <4>1, <4>2, <5>1, AnswersStay
      <4> QED BY <4>3 DEF new, old
    <3> HIDE DEF E, h
    <3>5. eg'.seen \ {h} = {} /\ KeptBy(q, {}, eg'.types) = {} /\ 0 \in Nat
        BY <3>1 DEF KeptBy
    <3>6. Range(q.seeds) = A \union {h} \union Range(eg'.left)
        BY <1>2, <2>1
    <3>7. Walking(E, eg', A, h)
        BY <1>1, <1>2, <3>1, <3>2, <3>4, <3>5, <3>6 DEF Walking
    <3>8. eg'.left \in Seq(Ids)
        BY <2>1
    <3>9. /\ A \in SUBSET Ids /\ h \in Ids /\ Relational(eg'.ask) /\ eg'.left \in Seq(Ids)
          /\ eg'.status = "walk" /\ Walking(E, eg', A, h)
          /\ \A a \in A : \A x \in Reached(E, eg'.ask, a) : eg'.types[x] # None
        BY <1>1, <2>1, <3>1, <3>4, <3>7, <3>8
    <3>10. Answered(E, eg')
        BY ONLY <3>9, AnsweredMeanwhile
    <3> QED BY <3>10 DEF E
  <2> QED BY <2>2, <2>3
<1> QED BY <1>3, <1>4

\* The statements that the rows of a statement cost.
LEMMA RowsCost ==
    ASSUME eg.ask.job = "relation", NEW new \in SUBSET Ids, NEW d \in Nat
    PROVE  LET queue == InOrder(new)
               more == FlattenSeq([i \in DOMAIN queue |-> Statements(queue[i], d)])
           IN  /\ more \in Seq(Items(eg.ask))
               /\ Range(more) = Cost(eg.ask, new, d)
<1> DEFINE q == eg.ask
           queue == InOrder(new)
           T == Items(q)
           ss == [i \in DOMAIN queue |-> Statements(queue[i], d)]
           I(x) == {Item(q, x, d, dir) : dir \in Dirs(q)}
<1>1. queue \in Seq(new) /\ Range(queue) = new
  <2>1. new \in SUBSET Nat /\ IsFiniteSet(new)
      BY IdsAreNumbers, FS_Subset
  <2> QED BY <2>1, InOrderIsAll
<1>2. \A x \in Ids : Statements(x, d) \in Seq(T) /\ Range(Statements(x, d)) = I(x)
    BY StatementsAreItems
<1> HIDE DEF queue, T, q, I
<1>3. DOMAIN queue = 1..Len(queue) /\ Len(queue) \in Nat
      /\ \A i \in DOMAIN queue : queue[i] \in new /\ queue[i] \in Ids
    BY <1>1
<1>4. ss \in Seq(Seq(T)) /\ DOMAIN ss = DOMAIN queue
  <2> DEFINE V == Seq(T)
             n == Len(queue)
  <2>1. \A i \in DOMAIN queue : Statements(queue[i], d) \in V
      BY <1>2, <1>3
  <2> HIDE DEF V, n
  <2>2. ss \in [1..n -> V] /\ n \in Nat
      BY <1>3, <2>1 DEF n
  <2> HIDE DEF ss
  <2>3. ss \in Seq(V) /\ DOMAIN ss = 1..n
      BY <2>2
  <2> QED BY <1>3, <2>3 DEF V, n
<1>5. \A i \in DOMAIN ss : Range(ss[i]) = I(queue[i])
    BY <1>2, <1>3, <1>4
<1>6. /\ FlattenSeq(ss) \in Seq(T)
      /\ Range(FlattenSeq(ss)) = UNION {Range(ss[i]) : i \in DOMAIN ss}
  <2> HIDE DEF ss
  <2> QED BY <1>4, FlattenIsAll
<1> HIDE DEF ss
<1>7. UNION {Range(ss[i]) : i \in DOMAIN ss} = UNION {I(x) : x \in new}
  <2>1. \A x \in new : \E i \in DOMAIN ss : queue[i] = x
      BY <1>1, <1>4 DEF Range
  <2> DEFINE R(i) == Range(ss[i])
  <2>2. \A i \in DOMAIN ss : R(i) = I(queue[i]) /\ queue[i] \in new
      BY <1>3, <1>4, <1>5
  <2> HIDE DEF R
  <2>3. UNION {R(i) : i \in DOMAIN ss} = UNION {I(x) : x \in new}
      BY <2>1, <2>2
  <2> QED BY <2>3 DEF R
<1>8. UNION {I(x) : x \in new} = Cost(q, new, d)
    BY DEF I, Cost
<1> QED BY <1>6, <1>7, <1>8 DEF ss, queue, T, q

LEMMA StatementAnswers ==
    ASSUME RollupInv, Shape(eg), Statement, eg.ask.job = "relation", Answered(entity.edges, eg)
    PROVE  Answered(entity.edges, eg')
<1> DEFINE E == entity.edges
           q == eg.ask
           seen == eg.seen
           walk == eg.walk
           old == eg.types
           head == Head(walk)
           new == Fresh(head)
           types == Wrapped(new \union {head.node})
           queue == InOrder(new)
           more == IF Deeper(head.depth + 1)
                   THEN FlattenSeq([i \in DOMAIN queue |-> Statements(queue[i], head.depth + 1)])
                   ELSE << >>
<1>1. /\ eg.status = "walk" /\ walk # << >> /\ Relational(q) /\ eg.left \in Seq(Ids) /\ Joins(E)
      /\ Limit(q) \in Nat \ {0} /\ Limit(q) \in Nat
    BY EndsOfTables DEF Statement, Answered, Relational
<1>2. /\ eg'.ask = q /\ eg'.left = eg.left /\ eg'.status = "walk" /\ eg'.types = types
      /\ eg'.seen = seen \union new /\ eg'.answer = eg.answer \union Kept(new, types)
      /\ eg'.walk = Tail(walk) \o more
    BY <1>1, StatementFields
<1>3. PICK A \in SUBSET Ids, s \in Ids :
              /\ \A a \in A : \A x \in Reached(E, q, a) : old[x] # None
              /\ Walking(E, eg, A, s)
    BY <1>1 DEF Answered
<1>4. PICK d0 \in Nat : Level(E, q, s, d0, seen, walk)
    BY <1>3 DEF Walking
<1>5. walk \in Seq(Items(q)) /\ head = walk[1] /\ 1 \in DOMAIN walk /\ head \in Items(q)
    BY <1>1, <1>4 DEF Level
<1>6. PICK d \in Nat : Level(E, q, s, d, seen, walk) /\ head.depth = d
  <2>1. CASE head.depth = d0
      BY <1>4, <2>1
  <2>2. CASE head.depth # d0
    <3>1. head.depth = d0 + 1 /\ d0 + 1 \in Nat
        BY <1>4, <1>5, <2>2 DEF Level
    <3>2. walk[1].depth # d0
        BY <1>5, <2>2
    <3> HIDE DEF E, q, seen, walk, head
    <3>3. Level(E, q, s, d0 + 1, seen, walk)
        BY ONLY <1>1, <1>4, <3>2, s \in Ids, LevelUp
    <3> QED BY <3>1, <3>3
  <2> QED BY <2>1, <2>2
<1>7. /\ new = EndsIn(E, head.node, head.kind, head.dir) \ seen
      /\ \A x \in new : entity.nodes[x] # None
    BY EndsOfTables DEF Fresh
<1>8. new \subseteq Ids
  <2>1. EndsIn(E, head.node, head.kind, head.dir) \subseteq Ids
      BY <1>1, EndsAreIds
  <2> QED BY <1>7, <2>1
<1>9. Deeper(d + 1) <=> d + 1 < Limit(q)
  <2>1. Deeper(d + 1) <=> q.transitive /\ d + 1 < q.depth
      BY DEF Deeper
  <2>2. Limit(q) = IF q.transitive THEN q.depth ELSE 1
      BY DEF Limit
  <2> HIDE DEF q
  <2> QED BY <2>1, <2>2
<1>10. /\ more \in Seq(Items(q))
       /\ Range(more) = IF d + 1 < Limit(q) THEN Cost(q, new, d + 1) ELSE {}
  <2> DEFINE all == FlattenSeq([i \in DOMAIN queue |-> Statements(queue[i], d + 1)])
  <2>1. /\ all \in Seq(Items(q))
        /\ Range(all) = Cost(q, new, d + 1)
    <3> HIDE DEF new
    <3> QED BY <1>8, RowsCost, d + 1 \in Nat
  <2>2. more = IF Deeper(d + 1) THEN all ELSE << >>
      BY <1>6
  <2> HIDE DEF all, more, q, new
  <2>3. << >> \in Seq(Items(q)) /\ Range(<< >>) = {}
      BY DEF Range
  <2> QED BY <1>9, <2>1, <2>2, <2>3
<1>11. \A x \in Ids : old[x] # None => types[x] = old[x]
    BY TypesAreKept
<1>12. \A x \in new : types[x] # None
    BY <1>7, <1>8, TypesAreKept
<1>13. Kept(new, types) = KeptBy(q, new, types)
    BY DEF Kept, KeptBy
<1> HIDE DEF E, q, seen, walk, old, head, new, types, queue, more
<1>14. Level(E, q, s, d, seen \union new, Tail(walk) \o more)
  <2>1. /\ new = EndsIn(E, walk[1].node, walk[1].kind, walk[1].dir) \ seen
        /\ walk[1].depth = d /\ walk # << >> /\ Joins(E) /\ Limit(q) \in Nat /\ s \in Ids
        /\ Level(E, q, s, d, seen, walk)
      BY <1>1, <1>5, <1>6, <1>7
  <2> QED BY ONLY <1>10, <2>1, LevelStays
<1>15. /\ \A a \in A : \A x \in Reached(E, q, a) : types[x] # None
       /\ AnswerFor(E, q, A, types) = AnswerFor(E, q, A, old)
  <2>1. /\ Joins(E) /\ Limit(q) \in Nat /\ A \in SUBSET Ids
        /\ \A a \in A : \A x \in Reached(E, q, a) : old[x] # None
      BY <1>1, <1>3 DEF old
  <2> QED BY ONLY <1>11, <2>1, AnswersStay
<1>16. /\ Range(q.seeds) = A \union {s} \union Range(eg.left)
       /\ s \in seen /\ (\A x \in seen \ {s} : old[x] # None)
       /\ eg.answer = AnswerFor(E, q, A, old) \union KeptBy(q, seen \ {s}, old)
    BY <1>3 DEF Walking, q, seen, old
<1>17. seen \subseteq Ids
  <2>1. seen \subseteq Ball(E, q, s, d + 1) /\ d + 1 \in Nat
      BY <1>6 DEF Level
  <2> QED BY <1>1, <2>1, BallRecurs
<1>18. (seen \union new) \ {s} = (seen \ {s}) \union new
    BY <1>7, <1>16
<1>19. KeptBy(q, (seen \union new) \ {s}, types) = KeptBy(q, seen \ {s}, old) \union KeptBy(q, new, types)
  <2>1. \A x \in seen \ {s} : types[x] = old[x]
      BY <1>11, <1>16, <1>17
  <2> QED BY <1>18, <2>1 DEF KeptBy
<1>20. \A x \in (seen \union new) \ {s} : types[x] # None
    BY <1>11, <1>12, <1>16, <1>17
<1>21. Walking(E, eg', A, s)
  <2>1. Range(eg'.ask.seeds) = A \union {s} \union Range(eg'.left)
      BY <1>2, <1>16
  <2>2. s \in eg'.seen /\ \A x \in eg'.seen \ {s} : eg'.types[x] # None
      BY <1>2, <1>16, <1>20
  <2>3. eg'.answer = AnswerFor(E, eg'.ask, A, eg'.types) \union KeptBy(eg'.ask, eg'.seen \ {s}, eg'.types)
    <3>1. eg'.answer = (AnswerFor(E, q, A, types) \union KeptBy(q, seen \ {s}, old)) \union KeptBy(q, new, types)
        BY <1>2, <1>13, <1>15, <1>16
    <3>2. AnswerFor(E, eg'.ask, A, eg'.types) = AnswerFor(E, q, A, types)
        BY <1>2
    <3>3. KeptBy(eg'.ask, eg'.seen \ {s}, eg'.types) = KeptBy(q, seen \ {s}, old) \union KeptBy(q, new, types)
        BY <1>2, <1>19
    <3> QED BY <3>1, <3>2, <3>3
  <2>4. Level(E, eg'.ask, s, d, eg'.seen, eg'.walk)
      BY <1>2, <1>14
  <2> QED BY <2>1, <2>2, <2>3, <2>4 DEF Walking
<1>22. /\ A \in SUBSET Ids /\ s \in Ids /\ Relational(eg'.ask) /\ eg'.left \in Seq(Ids)
       /\ eg'.status = "walk" /\ Walking(E, eg', A, s)
       /\ \A a \in A : \A x \in Reached(E, eg'.ask, a) : eg'.types[x] # None
    BY <1>1, <1>2, <1>15, <1>21
<1>23. Answered(E, eg')
    BY ONLY <1>22, AnsweredMeanwhile
<1> QED BY <1>23 DEF E

LEMMA EndOfWalkAnswers ==
    ASSUME RollupInv, Shape(eg), EndOfWalk, eg.ask.job = "relation", Answered(entity.edges, eg)
    PROVE  Answered(entity.edges, eg')
<1> DEFINE E == entity.edges
           q == eg.ask
<1>1. /\ eg.status = "walk" /\ eg.walk = << >> /\ Relational(q) /\ eg.left \in Seq(Ids) /\ Joins(E)
      /\ Limit(q) \in Nat /\ eg'.ask = q /\ eg'.left = eg.left /\ eg'.status = "next"
      /\ eg'.types = eg.types /\ eg'.answer = eg.answer
    BY EndsOfTables, EndOfWalkFields DEF Answered, Relational
<1>2. PICK A \in SUBSET Ids, s \in Ids :
              /\ \A a \in A : \A x \in Reached(E, q, a) : eg.types[x] # None
              /\ Walking(E, eg, A, s)
    BY <1>1 DEF Answered
<1>3. PICK d \in Nat : Level(E, q, s, d, eg.seen, << >>)
    BY <1>1, <1>2 DEF Walking
<1>4. eg.seen = Ball(E, q, s, Limit(q))
  <2> HIDE DEF E, q
  <2> QED BY <1>1, <1>3, LevelEnds
<1>5. /\ Range(q.seeds) = A \union {s} \union Range(eg.left)
      /\ \A x \in Reached(E, q, s) : eg.types[x] # None
      /\ eg.answer = AnswerFor(E, q, A, eg.types) \union KeptBy(q, Reached(E, q, s), eg.types)
    BY <1>2, <1>4 DEF Walking, Reached
<1> DEFINE A2 == A \union {s}
<1>6. AnswerFor(E, q, A2, eg.types) = AnswerFor(E, q, A, eg.types) \union KeptBy(q, Reached(E, q, s), eg.types)
  <2> HIDE DEF E, q
  <2> QED BY DEF AnswerFor
<1>7. \A a \in A2 : \A x \in Reached(E, q, a) : eg.types[x] # None
    BY <1>2, <1>5
<1>8. A2 \in SUBSET Ids /\ Range(q.seeds) = A2 \union Range(eg.left)
    BY <1>5
<1> HIDE DEF A2, E, q
<1>9. /\ A2 \in SUBSET Ids /\ Relational(eg'.ask) /\ eg'.left \in Seq(Ids)
      /\ eg'.status \in {"next", "done"} /\ (eg'.status = "done" => eg'.left = << >>)
      /\ \A a \in A2 : \A x \in Reached(E, eg'.ask, a) : eg'.types[x] # None
      /\ Range(eg'.ask.seeds) = A2 \union Range(eg'.left)
      /\ eg'.answer = AnswerFor(E, eg'.ask, A2, eg'.types)
    BY <1>1, <1>5, <1>6, <1>7, <1>8
<1>10. Answered(E, eg')
    BY ONLY <1>9, AnsweredSoFar
<1> QED BY <1>10 DEF E

\* Only the fields that an answer hangs on matter.
LEMMA AnsweredByFields ==
    ASSUME NEW E, NEW g, NEW g2, Answered(E, g), g2.status = g.status, g2.ask = g.ask,
           g2.left = g.left, g2.walk = g.walk, g2.seen = g.seen, g2.answer = g.answer,
           g2.types = g.types
    PROVE  Answered(E, g2)
<1>1. \A A, s : Walking(E, g, A, s) => Walking(E, g2, A, s)
    BY DEF Walking
<1> QED BY <1>1 DEF Answered

LEMMA AnswersStart == GraphInit => AnswerInv
<1> SUFFICES ASSUME GraphInit PROVE AnswerInv
    OBVIOUS
<1>1. RollupInv
    BY RollupStarts DEF GraphInit
<1>2. Shape(eg) /\ eg.status = "closed"
    BY DEF GraphInit, Closed, Shape
<1> QED BY <1>1, <1>2 DEF AnswerInv

LEMMA AnswersLast ==
    ASSUME NEW questions, \A q \in questions : q.job = "relation" => Relational(q),
           AnswerInv, [GraphNext(questions)]_graphVars
    PROVE  AnswerInv'
<1>1. RollupInv'
  <2>1. [RollupNext]_rollupVars
      BY DEF GraphNext, GraphStep, Ask, NextSeed, Statement, EndOfWalk, graphVars
  <2> QED BY <2>1, RollupStays DEF AnswerInv
<1>2. RollupInv /\ Shape(eg)
      /\ (eg.status # "closed" /\ eg.still /\ eg.ask.job = "relation" => Answered(entity.edges, eg))
    BY DEF AnswerInv
<1>3. Shape(eg)'
    BY <1>2, ShapeStays
<1> SUFFICES ASSUME eg'.status # "closed", eg'.still, eg'.ask.job = "relation"
             PROVE  Answered(entity'.edges, eg')
    BY <1>1, <1>3 DEF AnswerInv
<1>4. CASE eg' = Closed
    BY <1>4 DEF Closed
<1>5. CASE \E q \in questions : Ask(q)
  <2>1. PICK q \in questions : Ask(q)
      BY <1>5
  <2> QED BY <2>1, AskAnswers
<1>6. CASE GraphStep
  <2>1. entity' = entity
      BY <1>6 DEF GraphStep, NextSeed, Statement, EndOfWalk, rollupVars
  <2>2. eg'.still = eg.still /\ eg'.ask = eg.ask /\ eg.status # "closed"
      BY <1>2, <1>6, NextSeedFields, StatementFields, EndOfWalkFields DEF GraphStep, Statement
  <2>3. Answered(entity.edges, eg)
      BY <1>2, <2>2
  <2>4. Answered(entity.edges, eg')
      BY <1>2, <1>6, <2>2, <2>3, NextSeedAnswers, StatementAnswers, EndOfWalkAnswers DEF GraphStep
  <2> QED BY <2>1, <2>4
<1>7. CASE eg.status \notin {"closed", "done"} /\ RollupNext /\ Watch
  <2>1. /\ eg'.status = eg.status /\ eg'.ask = eg.ask /\ eg'.left = eg.left /\ eg'.walk = eg.walk
        /\ eg'.seen = eg.seen /\ eg'.answer = eg.answer /\ eg'.types = eg.types
        /\ eg.still /\ entity' = entity
      BY <1>2, <1>7, WatchFields
  <2>2. Answered(entity.edges, eg)
      BY <1>2, <1>7, <2>1
  <2> QED BY <2>1, <2>2, AnsweredByFields
<1>8. CASE UNCHANGED graphVars
  <2>1. UNCHANGED <<entity, eg>>
      BY <1>8 DEF graphVars, rollupVars
  <2> QED BY <1>2, <2>1
<1> QED BY <1>4, <1>5, <1>6, <1>7, <1>8 DEF GraphNext

\* The closure over the rows of the tables is the one over their relations.
LEMMA RelatedIsReached ==
    ASSUME RollupInv, NEW S, NEW k, NEW dir, NEW n
    PROVE  RelatedWithin(S, k, dir, n) = Reach(entity.edges, S, k, dir, n)
<1>1. \A m, j, d : Ends(m, j, d) = EndsIn(entity.edges, m, j, d)
    BY DEF Ends, RowsOf, EndsIn
<1>2. \A T : Around(T, k, dir) = AroundIn(entity.edges, T, k, dir)
    BY <1>1 DEF Around, AroundIn
<1> QED BY <1>2, Zenon DEF RelatedWithin, Reach

LEMMA AnswersAgree == AnswerInv => AnswerIsClosure
<1> SUFFICES ASSUME AnswerInv, eg.status = "done", eg.still, eg.ask.job = "relation"
             PROVE  eg.answer = UNION {Kept(RelatedWithin({s}, eg.ask.kind, eg.ask.dir,
                                              IF eg.ask.transitive THEN eg.ask.depth ELSE 1) \ {s},
                                eg.types) : s \in Range(eg.ask.seeds)}
    BY DEF AnswerIsClosure
<1> DEFINE q == eg.ask
           E == entity.edges
<1>1. RollupInv /\ Answered(E, eg)
    BY DEF AnswerInv
<1>2. PICK A \in SUBSET Ids : /\ Range(q.seeds) = A \union Range(eg.left)
                              /\ eg.answer = AnswerFor(E, q, A, eg.types)
                              /\ eg.left = << >>
    BY <1>1 DEF Answered
<1>3. Range(q.seeds) = A
  <2>1. Range(eg.left) = {}
      BY <1>2 DEF Range
  <2> QED BY <1>2, <2>1
<1>4. ASSUME NEW s
      PROVE  Kept(RelatedWithin({s}, q.kind, q.dir, IF q.transitive THEN q.depth ELSE 1) \ {s}, eg.types)
                = KeptBy(q, Reached(E, q, s), eg.types)
  <2>1. RelatedWithin({s}, q.kind, q.dir, Limit(q)) = Ball(E, q, s, Limit(q))
      BY <1>1, RelatedIsReached DEF Ball
  <2> QED BY <2>1 DEF Kept, KeptBy, Reached, Limit
<1> QED BY <1>2, <1>3, <1>4 DEF AnswerFor

\* relation() answers the transitive closure up to its depth, whatever the relations
\* (cycles, several seeds, both directions), whenever the rows it stands on stay while
\* it reads, and whatever the others do to the symbols meanwhile (EntityQuery.relation
\* and its walk over statements).
THEOREM AnswersAreClosures ==
    ASSUME NEW questions, \A q \in questions : q.job = "relation" => Relational(q)
    PROVE  GraphSpec(questions) => []AnswerIsClosure
<1>1. AnswerInv /\ [GraphNext(questions)]_graphVars => AnswerInv'
    BY AnswersLast
<1> QED BY <1>1, AnswersStart, AnswersAgree, PTL DEF GraphSpec

-----------------------------------------------------------------------------
(* What the roll-up is about: a layer 0 that C++ programs have.              *)

\* No template is, through others, its own: there is an order in which each comes before
\* what specializes or instantiates it.  A method has one owner.
Ordinary(db) ==
    /\ IsFiniteSet(db.edge)
    /\ \E rank \in [Ids -> 0..Cardinality(Ids)] :
          \A e \in db.edge : e.kind \in {"specializes", "instantiates"} => rank[e.dst] < rank[e.src]
    /\ \A x, y \in Edges(db, {"method_of"}, All, EntityKinds) : x.src = y.src => x.dst = y.dst

LEMMA HopsGoDown ==
    ASSUME NEW db, Sound(db), Ordinary(db)
    PROVE  \E rank \in [Ids -> 0..Cardinality(Ids)] :
              \A s \in Ids : NextHop(db, s) # None =>
                    NextHop(db, s) \in Ids /\ rank[NextHop(db, s)] < rank[s]
<1>1. PICK rank \in [Ids -> 0..Cardinality(Ids)] :
              \A e \in db.edge : e.kind \in {"specializes", "instantiates"} => rank[e.dst] < rank[e.src]
    BY DEF Ordinary
<1>2. ASSUME NEW s \in Ids, NextHop(db, s) # None
      PROVE  NextHop(db, s) \in Ids /\ rank[NextHop(db, s)] < rank[s]
  <2> DEFINE hops(k) == {e.dst : e \in {x \in db.edge : x.src = s /\ x.kind = k}}
             lowest(S) == CHOOSE x \in S : \A y \in S : x <= y
  <2>1. ASSUME NEW k \in {"specializes", "instantiates"}
        PROVE  hops(k) \subseteq Ids /\ \A d \in hops(k) : rank[d] < rank[s]
      BY <1>1, EdgeTypes
  <2>2. ASSUME NEW S \in SUBSET Ids, S # {} PROVE lowest(S) \in S
    <3>1. \E x \in S : \A y \in S : x <= y
        BY <2>2, IdsAreNumbers, LeastNumber
    <3> QED BY <3>1
  <2>3. NextHop(db, s) = IF hops("specializes") # {} THEN lowest(hops("specializes"))
                         ELSE IF hops("instantiates") # {} THEN lowest(hops("instantiates")) ELSE None
      BY DEF NextHop
  <2> HIDE DEF hops, lowest
  <2>4. CASE hops("specializes") # {}
      BY <2>1, <2>2, <2>3, <2>4
  <2>5. CASE hops("specializes") = {} /\ hops("instantiates") # {}
      BY <2>1, <2>2, <2>3, <2>5
  <2> QED BY <1>2, <2>3, <2>4, <2>5
<1> QED BY <1>1, <1>2

\* A trail: each of its elements is the next hop of the one before, and none comes back.
Trail(db, rank, t) ==
    /\ t \in Seq(Ids) /\ t # << >>
    /\ \A i \in DOMAIN t : i < Len(t) => /\ t[i + 1] = NextHop(db, t[i])
                                         /\ rank[t[Len(t)]] < rank[t[i]]

LEMMA TrailGoesOn ==
    ASSUME NEW db, NEW rank \in [Ids -> Nat], NEW t, Trail(db, rank, t),
           \A s \in Ids : NextHop(db, s) # None =>
                NextHop(db, s) \in Ids /\ rank[NextHop(db, s)] < rank[s]
    PROVE  /\ Last(t) \in Range(t) /\ Range(t) \subseteq Ids
           /\ \A x \in Range(t) : x = Last(t) \/ NextHop(db, x) \in Range(t)
           /\ NextHop(db, Last(t)) # None =>
                 /\ Last(t) \notin Range(Front(t))
                 /\ Trail(db, rank, Append(t, NextHop(db, Last(t))))
                 /\ Last(Append(t, NextHop(db, Last(t)))) = NextHop(db, Last(t))
                 /\ Range(Append(t, NextHop(db, Last(t)))) = Range(t) \union {NextHop(db, Last(t))}
<1> DEFINE l == Len(t)
           h == NextHop(db, t[l])
<1>1. t \in [1..l -> Ids] /\ l \in Nat \ {0} /\ DOMAIN t = 1..l /\ Last(t) = t[l]
    BY DEF Trail, Last
<1>2. \A i \in 1..l : i < l => t[i + 1] = NextHop(db, t[i]) /\ rank[t[l]] < rank[t[i]]
    BY <1>1 DEF Trail
<1>3. t[l] \in Ids /\ t[l] \in Range(t) /\ Range(t) \subseteq Ids
    BY <1>1 DEF Range
<1>4. ASSUME NEW x \in Range(t), x # t[l] PROVE NextHop(db, x) \in Range(t)
  <2>1. PICK i \in 1..l : x = t[i]
      BY <1>1 DEF Range
  <2>2. i < l /\ i + 1 \in 1..l
      BY <1>1, <1>4, <2>1
  <2> QED BY <1>1, <1>2, <2>1, <2>2 DEF Range
<1>5. ASSUME h # None
      PROVE  /\ t[l] \notin Range(Front(t))
             /\ Trail(db, rank, Append(t, h)) /\ Last(Append(t, h)) = h
             /\ Range(Append(t, h)) = Range(t) \union {h}
  <2>1. h \in Ids /\ rank[h] < rank[t[l]]
      BY <1>3, <1>5
  <2>2. t[l] \notin Range(Front(t))
    <3>1. \A x \in Range(Front(t)) : \E i \in 1..(l - 1) : x = t[i]
        BY <1>1 DEF Front, Range
    <3>2. \A i \in 1..(l - 1) : rank[t[l]] < rank[t[i]] /\ rank[t[l]] \in Nat
        BY <1>1, <1>2, <1>3
    <3>3. \A n \in Nat : ~(n < n)
        OBVIOUS
    <3> QED BY <3>1, <3>2, <3>3
  <2> HIDE DEF h
  <2> DEFINE a == Append(t, h)
  <2>3. /\ a \in Seq(Ids) /\ a # << >> /\ Len(a) = l + 1 /\ DOMAIN a = 1..(l + 1)
        /\ \A i \in 1..l : a[i] = t[i]
        /\ a[l + 1] = h
      BY <1>1, <2>1
  <2> HIDE DEF a
  <2>4. Last(a) = h
      BY <2>3 DEF Last
  <2>5. ASSUME NEW i \in 1..(l + 1), i < l + 1
        PROVE  a[i + 1] = NextHop(db, a[i]) /\ rank[a[l + 1]] < rank[a[i]]
    <3>1. i \in 1..l /\ a[i] = t[i]
        BY <1>1, <2>3, <2>5
    <3>2. CASE i = l
        BY <2>1, <2>3, <3>1, <3>2 DEF h
    <3>3. CASE i # l
      <4>1. i < l /\ i + 1 \in 1..l
        <5>1. l \in Nat /\ i \in 1..l /\ i # l
            BY <1>1, <3>1, <3>3
        <5> HIDE DEF l
        <5> QED BY <5>1
      <4>2. rank[h] \in Nat /\ rank[t[l]] \in Nat /\ rank[t[i]] \in Nat
          BY <1>1, <1>3, <2>1, <3>1
      <4> QED BY <1>2, <2>1, <2>3, <3>1, <4>1, <4>2
    <3> QED BY <3>2, <3>3
  <2>6. Trail(db, rank, a)
      BY <2>3, <2>5 DEF Trail
  <2>7. Range(a) = Range(t) \union {h}
    <3>1. ASSUME NEW x \in Range(a) PROVE x \in Range(t) \union {h}
      <4>1. PICK i \in 1..(l + 1) : x = a[i]
          BY <2>3 DEF Range
      <4>2. i \in 1..l \/ i = l + 1
          BY <1>1
      <4> QED BY <1>1, <2>3, <4>1, <4>2 DEF Range
    <3>2. ASSUME NEW x \in Range(t) PROVE x \in Range(a)
      <4>1. PICK i \in 1..l : x = t[i]
          BY <1>1 DEF Range
      <4>2. i \in 1..(l + 1)
          BY <1>1
      <4> QED BY <2>3, <4>1, <4>2 DEF Range
    <3>3. h \in Range(a)
      <4>1. l + 1 \in 1..(l + 1)
          BY <1>1
      <4> QED BY <2>3, <4>1 DEF Range
    <3> QED BY <3>1, <3>2, <3>3
  <2> QED BY <2>2, <2>4, <2>6, <2>7 DEF a
<1> QED BY <1>1, <1>3, <1>4, <1>5

LEMMA PrimaryFollows ==
    ASSUME NEW db, Hops(RollupState(db)), NEW s \in Ids
    PROVE  \E g \in [Nat -> SUBSET Ids] :
              /\ g[0] = {s}
              /\ \A n \in Nat : g[n + 1] = g[n] \union ({NextHop(db, x) : x \in g[n]} \ {None})
              /\ Primary(db, s) = CHOOSE p \in g[Cardinality(Ids)] : NextHop(db, p) = None
<1> DEFINE C == Cardinality(Ids)
           V == SUBSET Ids
           up(S) == S \union ({NextHop(db, x) : x \in S} \ {None})
           G == [S \in V |-> up(S)]
           v == {s}
           chain[n \in 0..C] == IF n = 0 THEN {s} ELSE up(chain[n - 1])
<1>1. C \in Nat
    BY IdsAreNumbers, FS_CardinalityType
<1>2. ASSUME NEW S \in V PROVE up(S) \in V
  <2>1. RollupState(db).hop = [x \in Ids |-> NextHop(db, x)]
      BY DEF RollupState
  <2> QED BY <2>1 DEF Hops
<1>3. v \in V
    OBVIOUS
<1> HIDE DEF V, up
<1>4. G \in [V -> V]
    BY <1>2
<1> HIDE DEF G, v
<1>5. PICK f \in [Nat -> V] : f[0] = v /\ \A n \in Nat : f[n + 1] = G[f[n]]
    BY <1>3, <1>4, Iterates
<1>6. \A n \in Nat : f[n] \in V /\ f[n + 1] = up(f[n])
    BY <1>5 DEF G
<1> DEFINE h == [n \in 0..C |-> f[n]]
<1>7. h = [n \in 0..C |-> IF n = 0 THEN {s} ELSE up(h[n - 1])]
  <2>1. ASSUME NEW n \in 0..C
        PROVE  h[n] = IF n = 0 THEN v ELSE up(h[n - 1])
    <3>1. CASE n = 0
        BY <1>1, <1>5, <3>1
    <3>2. CASE n # 0
      <4>1. n - 1 \in Nat /\ n - 1 \in 0..C /\ (n - 1) + 1 = n
          BY <1>1, <3>2
      <4>2. f[(n - 1) + 1] = up(f[n - 1])
          BY <1>6, <4>1
      <4> QED BY <3>2, <4>1, <4>2
    <3> QED BY <3>1, <3>2
  <2>2. h = [n \in 0..C |-> h[n]]
      OBVIOUS
  <2> HIDE DEF h
  <2> QED BY <2>1, <2>2, Zenon DEF v
<1>8. Primary(db, s) = CHOOSE p \in chain[C] : NextHop(db, p) = None
    BY Zenon DEF Primary, chain, up
<1>9. chain = [n \in 0..C |-> IF n = 0 THEN {s} ELSE up(chain[n - 1])]
    BY <1>7, Zenon DEF chain
<1> HIDE DEF chain, h
<1>10. \A n \in 0..C : chain[n] = IF n = 0 THEN v ELSE up(chain[n - 1])
    BY <1>9 DEF v
<1> DEFINE T == {n \in Nat : n <= C => chain[n] = f[n]}
<1>11. 0 \in T
    BY <1>1, <1>5, <1>10
<1>12. ASSUME NEW n \in T \intersect Nat PROVE n + 1 \in T
  <2> SUFFICES ASSUME n + 1 <= C PROVE chain[n + 1] = f[n + 1]
      OBVIOUS
  <2>1. chain[n] = f[n] /\ n + 1 \in 0..C /\ n + 1 # 0 /\ (n + 1) - 1 = n
      BY <1>1
  <2>2. chain[n + 1] = up(chain[n])
      BY <1>10, <2>1
  <2> QED BY <1>6, <2>1, <2>2
<1> HIDE DEF T
<1>13. C \in T
    BY <1>1, <1>11, <1>12, SetInduction
<1>14. Primary(db, s) = CHOOSE p \in f[C] : NextHop(db, p) = None
    BY <1>1, <1>8, <1>13 DEF T
<1>15. f \in [Nat -> SUBSET Ids] /\ f[0] = {s}
    BY <1>5 DEF v, V
<1> QED BY <1>6, <1>14, <1>15 DEF up

\* _collapse finds the template an instance stands for.
LEMMA CollapseIsPrimary ==
    ASSUME NEW db, Sound(db), Ordinary(db), NEW s \in Ids
    PROVE  /\ Collapse(RollupState(db), s) = Primary(db, s)
           /\ Primary(db, s) \in Ids
<1> DEFINE C == Cardinality(Ids)
           ctx == RollupState(db)
<1>1. PICK rank \in [Ids -> 0..C] :
         \A x \in Ids : NextHop(db, x) # None => NextHop(db, x) \in Ids /\ rank[NextHop(db, x)] < rank[x]
    BY HopsGoDown
<1>2. C \in Nat /\ rank \in [Ids -> Nat] /\ \A x \in Ids : rank[x] <= C
  <2>1. C \in Nat
      BY IdsAreNumbers, FS_CardinalityType
  <2> QED BY <2>1
<1>3. Hops(ctx) /\ \A x \in Ids : ctx.hop[x] = NextHop(db, x)
    BY HopsOfLayer0 DEF RollupState
<1>4. PICK f \in [Nat -> Seq(Ids) \ {<< >>}] :
              /\ f[0] = <<s>>
              /\ \A n \in Nat : f[n + 1] = IF \/ ctx.hop[Last(f[n])] = None
                                              \/ Last(f[n]) \in Range(Front(f[n]))
                                           THEN f[n] ELSE Append(f[n], ctx.hop[Last(f[n])])
              /\ Collapse(ctx, s) = Last(f[C])
    BY <1>3, CollapseFollows, Zenon
<1>5. PICK g \in [Nat -> SUBSET Ids] :
              /\ g[0] = {s}
              /\ \A n \in Nat : g[n + 1] = g[n] \union ({NextHop(db, x) : x \in g[n]} \ {None})
              /\ Primary(db, s) = CHOOSE p \in g[C] : NextHop(db, p) = None
    BY <1>3, PrimaryFollows, Zenon
<1> HIDE DEF C, ctx
<1> DEFINE along(n) == /\ Trail(db, rank, f[n])
                       /\ g[n] = Range(f[n])
                       /\ \/ NextHop(db, Last(f[n])) = None
                          \/ rank[Last(f[n])] + n <= C
           T == {n \in Nat : along(n)}
<1>6. 0 \in T
  <2> DEFINE t == <<s>>
  <2>1. t \in Seq(Ids) /\ t # << >> /\ Len(t) = 1 /\ DOMAIN t = {1} /\ t[1] = s
      OBVIOUS
  <2> HIDE DEF t
  <2>2. Trail(db, rank, t) /\ Range(t) = {s} /\ Last(t) = s
      BY <2>1 DEF Trail, Range, Last
  <2>3. rank[s] + 0 <= C
      BY <1>2
  <2> QED BY <1>4, <1>5, <2>2, <2>3 DEF t
<1>7. ASSUME NEW n \in T \intersect Nat PROVE n + 1 \in T
  <2> DEFINE t == f[n]
             l == Last(t)
             h == NextHop(db, l)
  <2>1. along(n)
      OBVIOUS
  <2>2. /\ l \in Range(t) /\ Range(t) \subseteq Ids
        /\ \A x \in Range(t) : x = l \/ NextHop(db, x) \in Range(t)
        /\ h # None => /\ l \notin Range(Front(t))
                       /\ Trail(db, rank, Append(t, h))
                       /\ Last(Append(t, h)) = h
                       /\ Range(Append(t, h)) = Range(t) \union {h}
      BY <1>1, <1>2, <2>1, TrailGoesOn
  <2>3. ctx.hop[l] = h
      BY <1>3, <2>2
  <2>4. f[n + 1] = IF h = None \/ l \in Range(Front(t)) THEN t ELSE Append(t, h)
      BY <1>4, <2>3
  <2>5. g[n + 1] = Range(t) \union ({NextHop(db, x) : x \in Range(t)} \ {None})
      BY <1>5, <2>1
  <2>6. {NextHop(db, x) : x \in Range(t)} \ {None} \subseteq Range(t) \union {h}
      BY <2>2
  <2>7. CASE h = None
    <3>1. f[n + 1] = t
        BY <2>4, <2>7
    <3>2. g[n + 1] = Range(t)
        BY <2>5, <2>6, <2>7
    <3> QED BY <2>1, <2>7, <3>1, <3>2
  <2>8. CASE h # None
    <3>1. f[n + 1] = Append(t, h)
        BY <2>2, <2>4, <2>8
    <3>2. g[n + 1] = Range(t) \union {h}
        BY <2>2, <2>5, <2>6, <2>8
    <3>3. rank[h] + (n + 1) <= C
      <4>1. l \in Ids /\ h \in Ids /\ rank[h] < rank[l] /\ rank[h] \in Nat /\ rank[l] \in Nat
          BY <1>1, <1>2, <2>2, <2>8
      <4>2. rank[l] + n <= C
          BY <2>1, <2>8
      <4> HIDE DEF h, l
      <4> QED BY <1>2, <4>1, <4>2
    <3>4. along(n + 1)
        BY <2>2, <2>8, <3>1, <3>2, <3>3
    <3> HIDE DEF along
    <3> QED BY <3>4
  <2> QED BY <2>7, <2>8
<1> HIDE DEF T
<1>8. C \in T
    BY <1>2, <1>6, <1>7, SetInduction
<1> DEFINE t == f[C]
           l == Last(t)
<1>9. along(C)
    BY <1>8 DEF T
<1>10. /\ l \in Range(t) /\ Range(t) \subseteq Ids
       /\ \A x \in Range(t) : x = l \/ NextHop(db, x) \in Range(t)
    BY <1>1, <1>2, <1>9, TrailGoesOn
<1>11. NextHop(db, l) = None
  <2> SUFFICES ASSUME NextHop(db, l) # None PROVE FALSE
      OBVIOUS
  <2>1. rank[l] \in Nat /\ rank[l] + C <= C /\ rank[NextHop(db, l)] \in Nat
        /\ rank[NextHop(db, l)] < rank[l]
      BY <1>1, <1>2, <1>9, <1>10
  <2> DEFINE r == rank[l]
             q == rank[NextHop(db, l)]
  <2>2. r \in Nat /\ q \in Nat /\ q < r /\ r + C <= C
      BY <2>1
  <2> HIDE DEF r, q
  <2> QED BY <1>2, <2>2
<1>12. \A x \in g[C] : NextHop(db, x) = None <=> x = l
    BY <1>9, <1>10, <1>11, IdsAreNumbers
<1>13. l \in g[C]
    BY <1>9, <1>10
<1>14. Primary(db, s) = l
  <2> HIDE DEF l, along
  <2> QED BY <1>5, <1>12, <1>13
<1> QED BY <1>4, <1>10, <1>14 DEF ctx

-----------------------------------------------------------------------------
(* Sums and rows. *)

\* The sum of the counts of relations that count disjoint groups.
LEMMA SumOfIsSize ==
    ASSUME NEW S, IsFiniteSet(S), NEW g,
           \A x \in S : IsFiniteSet(g[x]) /\ x.count = Cardinality(g[x]),
           \A x, y \in S : x # y => g[x] \intersect g[y] = {}
    PROVE  LET U == UNION {g[x] : x \in S} IN IsFiniteSet(U) /\ SumOf(S) = Cardinality(U)
<1> DEFINE pick(s) == CHOOSE x \in s : TRUE
           R == [s \in SUBSET S |-> s \ {pick(s)}]
           c == [x \in S |-> x.count]
           P == (SUBSET S) \X Nat
           G == [p \in P |-> IF p[1] = {} THEN 0 ELSE c[pick(p[1])] + p[2]]
           it[s \in SUBSET S] ==
               IF s = {} THEN 0 ELSE LET x == CHOOSE x \in s : TRUE IN x.count + it[s \ {x}]
<1>1. SumOf(S) = it[S]
    BY Zenon DEF SumOf, FoldSet, MapThenFoldSet
<1>2. \A s \in SUBSET S : s # {} => pick(s) \in s
    OBVIOUS
<1> HIDE DEF pick
<1> HIDE DEF it
<1>3. c \in [S -> Nat] /\ \A x \in S : c[x] = x.count
    BY FS_CardinalityType
<1>4. R \in [SUBSET S -> SUBSET S] /\ \A s \in SUBSET S : R[s] = s \ {pick(s)}
    OBVIOUS
<1>5. G \in [P -> Nat]
  <2> HIDE DEF c
  <2>1. ASSUME NEW p \in P, p[1] # {} PROVE c[pick(p[1])] + p[2] \in Nat
    <3>1. c[pick(p[1])] \in Nat /\ p[2] \in Nat
        BY <1>2, <1>3, <2>1
    <3> QED BY <3>1
  <2> QED BY <2>1
<1>6. \A s \in SUBSET S, m \in Nat : s # {} => G[<<s, m>>] = c[pick(s)] + m
  <2> HIDE DEF c
  <2> QED OBVIOUS
<1> HIDE DEF c, R, P, G
<1>7. PICK h \in [SUBSET S -> Nat] :
              \A s \in SUBSET S : h[s] = IF s = {} THEN 0 ELSE G[<<s, h[R[s]]>>]
  <2>1. \A s \in SUBSET S : s # {} => \E x \in s : R[s] = s \ {x}
      BY <1>2, <1>4
  <2>2. 0 \in Nat
      OBVIOUS
  <2>3. P = (SUBSET S) \X Nat
      BY DEF P
  <2>4. IsFiniteSet(S)
      OBVIOUS
  <2>5. FoldsWith(S, Nat, 0, R, G)
      BY <1>4, <1>5, <2>1, <2>2, <2>3, <2>4 DEF FoldsWith
  <2>6. \E h \in [SUBSET S -> Nat] : IsFold(h, S, 0, R, G)
      BY <2>5, FoldExists
  <2> QED BY <2>6 DEF IsFold
<1>8. \A s \in SUBSET S : s # {} => h[s] = c[pick(s)] + h[s \ {pick(s)}]
    BY <1>4, <1>6, <1>7
<1> DEFINE Body(f, s) == IF s = {} THEN 0
                         ELSE LET x == CHOOSE x \in s : TRUE IN x.count + f[s \ {x}]
<1>9. \E f : f = [s \in SUBSET S |-> Body(f, s)]
  <2>1. ASSUME NEW s \in SUBSET S PROVE h[s] = Body(h, s)
    <3>1. CASE s = {}
        BY <1>7, <3>1
    <3>2. CASE s # {}
      <4>1. h[s] = pick(s).count + h[s \ {pick(s)}]
          BY <1>2, <1>3, <1>8, <3>2
      <4> QED BY <3>2, <4>1 DEF pick
    <3> QED BY <3>1, <3>2
  <2> HIDE DEF Body
  <2>2. h = [s \in SUBSET S |-> h[s]]
      BY <1>7
  <2>3. h = [s \in SUBSET S |-> Body(h, s)]
      BY <2>1, <2>2
  <2> QED BY <2>3
<1>10. it = [s \in SUBSET S |-> Body(it, s)]
    BY <1>9, Zenon DEF it
<1> HIDE DEF it
<1>11. it[{}] = 0
    BY <1>10
<1>12. \A s \in SUBSET S : s # {} => \E x \in s : it[s] = c[x] + it[s \ {x}]
  <2> SUFFICES ASSUME NEW s \in SUBSET S, s # {} PROVE \E x \in s : it[s] = c[x] + it[s \ {x}]
      OBVIOUS
  <2>1. it[s] = LET x == CHOOSE x \in s : TRUE IN x.count + it[s \ {x}]
      BY <1>10
  <2>2. it[s] = pick(s).count + it[s \ {pick(s)}]
      BY <2>1 DEF pick
  <2> QED BY <1>2, <1>3, <2>2
<1>13. \A x \in S : IsFiniteSet(g[x]) /\ c[x] = Cardinality(g[x])
    BY <1>3
<1> DEFINE U == UNION {g[x] : x \in S}
<1>14. IsFiniteSet(U) /\ it[S] = Cardinality(U)
  <2>1. IsFiniteSet(S) /\ \A x, y \in S : x # y => g[x] \intersect g[y] = {}
      OBVIOUS
  <2>2. SumsSizes(S, it, c, g)
      BY <1>11, <1>12, <1>13, <2>1 DEF SumsSizes
  <2> QED BY <2>2, SumOfSizes
<1> QED BY <1>1, <1>14

LEMMA NothingSumsToZero == SumOf({}) = 0
<1> DEFINE S == {}
           g == [x \in S |-> {}]
<1>1. IsFiniteSet(S) /\ \A x \in S : FALSE
    BY FS_EmptySet
<1>2. UNION {g[x] : x \in S} = {}
    OBVIOUS
<1> HIDE DEF g, S
<1>3. SumOf(S) = Cardinality({})
    BY <1>1, <1>2, SumOfIsSize
<1> QED BY <1>3, FS_EmptySet DEF S

\* Which phase inserts which relations.
LEMMA RowKinds ==
    ASSUME NEW db, NEW ctx, NEW nodes, NEW n \in 1..10, NEW r \in Rows(Phases[n], db, ctx, nodes)
    PROVE  /\ r.key.src # r.key.dst
           /\ r.key.kind \in {"implements", "generalizes"} <=> n = 1
           /\ r.key.kind = "uses" <=> n = 7
<1>1. \A x \in InheritanceRows(db, ctx) : x.key.kind \in {"implements", "generalizes"}
  <2> SUFFICES ASSUME NEW e \in Edges(db, {"inherits"}, EntityKinds, EntityKinds)
               PROVE  [Plain(Collapse(ctx, e.src), e.dst,
                             IF IsInterface(ctx, e.dst) THEN "implements" ELSE "generalizes", e)
                         EXCEPT !.access = e.access].key.kind \in {"implements", "generalizes"}
      BY DEF InheritanceRows
  <2> DEFINE k == IF IsInterface(ctx, e.dst) THEN "implements" ELSE "generalizes"
             s == Collapse(ctx, e.src)
             a == e.access
  <2>1. k \in {"implements", "generalizes"}
      OBVIOUS
  <2> HIDE DEF k, s, a
  <2>2. [Plain(s, e.dst, k, e) EXCEPT !.access = a].key.kind = k
      BY DEF Plain, Key
  <2> QED BY <2>1, <2>2 DEF k, s, a
<1>2. \A k \in {"specializes", "instantiates"} : \A x \in TemplateRows(db, ctx, k) : x.key.kind = k
    BY DEF TemplateRows, Plain, Key
<1>3. \A s, d, f, e : FieldRow(db, s, d, f, e).key.kind \in {"composes", "aggregates", "associates"}
  <2> TAKE s, d, f, e
  <2>1. PICK k : /\ FieldRow(db, s, d, f, e).key = Key(s, d, k, f, None)
                 /\ k \in {"composes", "aggregates", "associates"}
      BY FieldKey
  <2> QED BY <2>1 DEF Key
<1>4. \A x \in FieldRows(db, ctx) : x.key.kind \in {"composes", "aggregates", "associates"}
    BY <1>3, Zenon DEF FieldRows
<1>5. \A x \in InstanceRows(db) : x.key.kind \in {"composes", "aggregates", "associates"}
  <2> SUFFICES ASSUME NEW x \in InstanceRows(db)
               PROVE  x.key.kind \in {"composes", "aggregates", "associates"}
      OBVIOUS
  <2>1. \E s, d, f, e : x = FieldRow(db, s, d, f, e)
      BY DEF InstanceRows
  <2> QED BY <1>3, <2>1
<1>6. \A x \in CreateRows(db, ctx) : x.key.kind \in {"creates", "destroys"}
  <2> DEFINE sites == {e \in db.edge : /\ e.kind \in Forms \union {"destroy"}
                                       /\ OwnerOf(db, e.src) # None /\ Target(db, e.dst) # None}
             row(e, k) == Plain(Collapse(ctx, OwnerOf(db, e.src)), Collapse(ctx, Target(db, e.dst)), k, e)
             byValue == {e \in Edges(db, {"method_of"}, {"method", "constructor"}, EntityKinds) :
                            EntityOfType(db, db.type[e.src]) # None}
             made1(e) == [row(e, "creates") EXCEPT !.key.form = e.kind, !.partial = (e.kind = "factory")]
             made2(e) == [Plain(Collapse(ctx, e.dst), Collapse(ctx, EntityOfType(db, db.type[e.src])), "creates", e)
                            EXCEPT !.key.form = "return", !.partial = TRUE]
  <2>1. CreateRows(db, ctx) = {IF e.kind = "destroy" THEN row(e, "destroys") ELSE made1(e) : e \in sites}
                                 \union {made2(e) : e \in byValue}
      BY Zenon DEF CreateRows
  <2>2. \A e : row(e, "destroys").key.kind = "destroys"
      BY DEF Plain, Key
  <2>3. \A e : made1(e).key.kind = "creates"
    <3> SUFFICES ASSUME NEW e PROVE made1(e).key.kind = "creates"
        OBVIOUS
    <3> DEFINE p == e.kind = "factory"
               v == e.kind
               s == Collapse(ctx, OwnerOf(db, e.src))
               d == Collapse(ctx, Target(db, e.dst))
    <3> HIDE DEF p, v, s, d
    <3>1. [Plain(s, d, "creates", e) EXCEPT !.key.form = v, !.partial = p].key.kind = "creates"
        BY DEF Plain, Key
    <3> QED BY <3>1, Zenon DEF p, v, s, d
  <2>4. \A e : made2(e).key.kind = "creates"
      BY DEF Plain, Key
  <2> HIDE DEF row, made1, made2, sites, byValue
  <2> QED BY <2>1, <2>2, <2>3, <2>4
<1>7. \A x \in UseRows(db, ctx) : x.key.kind = "uses"
  <2> SUFFICES ASSUME NEW x \in UseRows(db, ctx) PROVE x.key.kind = "uses"
      OBVIOUS
  <2>1. PICK e \in db.edge :
               x = [Plain(Collapse(ctx, OwnerOf(db, e.src)), Collapse(ctx, OwnerOf(db, e.dst)), "uses", e)
                         EXCEPT !.key.via = e.dst, !.partial = (e.dst \in db.pure)]
      BY DEF UseRows, Edges
  <2> DEFINE p == e.dst \in db.pure
             s == Collapse(ctx, OwnerOf(db, e.src))
             d == Collapse(ctx, OwnerOf(db, e.dst))
  <2>2. x = [Plain(s, d, "uses", e) EXCEPT !.key.via = e.dst, !.partial = p]
      BY <2>1
  <2> HIDE DEF p, s, d
  <2> QED BY <2>2 DEF Plain, Key
<1>8. \A x \in FriendRows(db, ctx) : x.key.kind = "befriends"
    BY DEF FriendRows, Plain, Key
<1>9. \A x \in DeclareRows(db, nodes) : x.key.kind = "declares"
    BY DEF DeclareRows, Plain, Key
<1>10. /\ Phases[1] = "inheritance" /\ Phases[2] = "specializes" /\ Phases[3] = "instantiates"
       /\ Phases[4] = "field_relations" /\ Phases[5] = "instance_composition"
       /\ Phases[6] = "creates_destroys" /\ Phases[7] = "uses" /\ Phases[8] = "befriends"
       /\ Phases[9] = "entity_nodes" /\ Phases[10] = "declares"
    BY DEF Phases
<1>11. /\ Rows(Phases[1], db, ctx, nodes) = Proper(InheritanceRows(db, ctx))
       /\ Rows(Phases[2], db, ctx, nodes) = Proper(TemplateRows(db, ctx, "specializes"))
       /\ Rows(Phases[3], db, ctx, nodes) = Proper(TemplateRows(db, ctx, "instantiates"))
       /\ Rows(Phases[4], db, ctx, nodes) = Proper(FieldRows(db, ctx))
       /\ Rows(Phases[5], db, ctx, nodes) = Proper(InstanceRows(db))
       /\ Rows(Phases[6], db, ctx, nodes) = Proper(CreateRows(db, ctx))
       /\ Rows(Phases[7], db, ctx, nodes) = Proper(UseRows(db, ctx))
       /\ Rows(Phases[8], db, ctx, nodes) = Proper(FriendRows(db, ctx))
       /\ Rows(Phases[9], db, ctx, nodes) = Proper({})
       /\ Rows(Phases[10], db, ctx, nodes) = Proper(DeclareRows(db, nodes))
    BY <1>10 DEF Rows
<1>12. \A R : \A x \in Proper(R) : x \in R /\ x.key.src # x.key.dst
    BY DEF Proper
<1>13. n \in {1, 2, 3, 4, 5, 6, 7, 8, 9, 10}
    OBVIOUS
<1>14. r.key.src # r.key.dst
    BY <1>11, <1>12, <1>13
<1>15. CASE n = 1
    BY <1>1, <1>11, <1>12, <1>15
<1>16. CASE n = 7
    BY <1>7, <1>11, <1>12, <1>16
<1>17. CASE n \in {2, 3, 4, 5, 6, 8, 9, 10}
  <2>1. r.key.kind \in {"specializes", "instantiates", "composes", "aggregates", "associates",
                        "creates", "destroys", "befriends", "declares"}
      BY <1>2, <1>4, <1>5, <1>6, <1>8, <1>9, <1>11, <1>12, <1>17
  <2> QED BY <1>14, <1>17, <2>1
<1> QED BY <1>13, <1>14, <1>15, <1>16, <1>17

-----------------------------------------------------------------------------
(* The tables are those of one pass.                                         *)

Bases == {"implements", "generalizes"}
OfKind(E, K) == {e \in E : e.key.kind \in K}

\* The relations E are the rows R, grouped by their keys.
Grouped(E, R) ==
    /\ {e.key : e \in E} = {r.key : r \in R}
    /\ \A e \in E :
          /\ \E r \in R : r.key = e.key /\ r.access = e.access
          /\ e.count = IF e.key.kind \in Once THEN 1 ELSE Cardinality({r \in R : r.key = e.key})
    /\ \A e, f \in E : e.key = f.key => e = f

\* What the relations of a pass over db are when its first n - 1 phases are done.
ExactUpTo(E, db, n) ==
    /\ n = 1 => E = {}
    /\ n > 1 => Grouped(OfKind(E, Bases), Proper(InheritanceRows(db, RollupState(db))))
    /\ n <= 7 => OfKind(E, {"uses"}) = {}
    /\ n > 7 => Grouped(OfKind(E, {"uses"}), Proper(UseRows(db, RollupState(db))))
    /\ \A e \in E : e.key.src # e.key.dst

OnePassInv ==
    /\ RollupInv /\ Ordinary(base)
    /\ Locked /\ pass.seen = base => ExactUpTo(pass.draft.edges, base, pass.n)
    /\ made # None => Sound(made) /\ Ordinary(made) /\ ExactUpTo(entity.edges, made, 11)

LEMMA WithoutIsOrdinary ==
    ASSUME NEW db, Sound(db), Ordinary(db), NEW F \in SUBSET Ids
    PROVE  Ordinary(Without(db, F))
<1> DEFINE w == Without(db, F)
<1>1. /\ w.edge = {e \in db.edge : e.src \notin F /\ e.dst \notin F}
      /\ \A s \in Ids : w.kind[s] = IF s \in F THEN None ELSE db.kind[s]
  <2> DEFINE kind == [s \in Ids |-> IF s \in F THEN None ELSE db.kind[s]]
             arg == [s \in Ids |-> IF db.arg[s] \in F THEN None ELSE db.arg[s]]
             edge == {e \in db.edge : e.src \notin F /\ e.dst \notin F}
  <2>1. db \in Databases
      BY DEF Sound
  <2>2. w = [db EXCEPT !.kind = kind, !.arg = arg, !.edge = edge]
      BY <2>1 DEF Without, Databases
  <2> HIDE DEF w, kind, arg, edge
  <2>3. w.kind = kind /\ w.edge = edge
      BY <2>1, <2>2 DEF Databases
  <2> QED BY <2>3 DEF kind, edge
<1> HIDE DEF w
<1>2. w.edge \subseteq db.edge
    BY <1>1
<1>3. IsFiniteSet(w.edge)
    BY <1>2, FS_Subset DEF Ordinary
<1>4. \E rank \in [Ids -> 0..Cardinality(Ids)] :
          \A e \in w.edge : e.kind \in {"specializes", "instantiates"} => rank[e.dst] < rank[e.src]
    BY <1>2 DEF Ordinary
<1>5. Edges(w, {"method_of"}, All, EntityKinds) \subseteq Edges(db, {"method_of"}, All, EntityKinds)
  <2> SUFFICES ASSUME NEW e \in w.edge
               PROVE  w.kind[e.src] = db.kind[e.src] /\ w.kind[e.dst] = db.kind[e.dst]
      BY <1>2 DEF Edges
  <2> QED BY <1>1, EdgeTypes
<1>6. Ordinary(w)
    BY <1>3, <1>4, <1>5 DEF Ordinary
<1> QED BY <1>6 DEF w

\* A phase whose relations are its own leaves its rows, grouped.
LEMMA UpsertGroups ==
    ASSUME NEW E, NEW R, NEW K, IsFiniteSet(R), OfKind(E, K) = {}, \A r \in R : r.key.kind \in K,
           NEW final, \A r \in R : final[r.key] \in R /\ final[r.key].key = r.key
    PROVE  Grouped(OfKind(Upserted(E, R, final), K), R)
<1> DEFINE keys == {r.key : r \in R}
           before(k) == {e \in E : e.key = k}
           group(k) == {r \in R : r.key = k}
           size(k) == Cardinality(group(k)) + SumOf(before(k))
           new(k) == [key |-> k, mult |-> final[k].mult, access |-> final[k].access,
                      partial |-> \E r \in group(k) \union before(k) : r.partial,
                      count |-> IF k.kind \in Once THEN 1 ELSE size(k)]
           U == OfKind(Upserted(E, R, final), K)
<1>1. Upserted(E, R, final) = {e \in E : e.key \notin keys} \union {new(k) : k \in keys}
    BY Zenon DEF Upserted
<1>2. \A k \in keys : k.kind \in K /\ before(k) = {} /\ final[k] \in R /\ final[k].key = k
    BY DEF OfKind
<1>3. \A k \in keys : /\ new(k).key = k /\ new(k).access = final[k].access
                      /\ new(k).count = IF k.kind \in Once THEN 1 ELSE size(k)
  <2> TAKE k \in keys
  <2> DEFINE m == final[k].mult
             a == final[k].access
             p == \E r \in group(k) \union before(k) : r.partial
             c == IF k.kind \in Once THEN 1 ELSE size(k)
  <2>1. new(k) = [key |-> k, mult |-> m, access |-> a, partial |-> p, count |-> c]
      OBVIOUS
  <2> HIDE DEF m, a, p, c, new
  <2> QED BY <2>1 DEF a, c
<1>4. \A k \in keys : k.kind \notin Once => size(k) = Cardinality({r \in R : r.key = k})
  <2> TAKE k \in keys
  <2> DEFINE c == Cardinality(group(k))
  <2>1. c \in Nat
    <3>1. group(k) \subseteq R
        OBVIOUS
    <3> QED BY <3>1, FS_Subset, FS_CardinalityType
  <2>2. size(k) = c + 0
      BY <1>2, NothingSumsToZero
  <2> HIDE DEF c
  <2>3. size(k) = c
      BY <2>1, <2>2
  <2> QED BY <2>3 DEF c
<1> HIDE DEF new, keys, size
<1>5. U = {new(k) : k \in keys}
    BY <1>1, <1>2, <1>3 DEF OfKind
<1> HIDE DEF U
<1>6. {e.key : e \in U} = keys
    BY <1>3, <1>5
<1>7. \A e \in U : e.key \in keys /\ e = new(e.key)
    BY <1>3, <1>5
<1>8. ASSUME NEW e \in U
      PROVE  /\ \E r \in R : r.key = e.key /\ r.access = e.access
             /\ e.count = IF e.key.kind \in Once THEN 1 ELSE Cardinality({r \in R : r.key = e.key})
    BY <1>2, <1>3, <1>4, <1>7
<1> QED BY <1>6, <1>7, <1>8 DEF Grouped, U, keys

\* What an upsert leaves is a row that there was, or has the key of a new one.
LEMMA UpsertedKeys ==
    ASSUME NEW E, NEW R, NEW final
    PROVE  /\ \A e \in Upserted(E, R, final) : e \in E \/ \E r \in R : e.key = r.key
           /\ \A e \in E : (\A r \in R : e.key # r.key) => e \in Upserted(E, R, final)
<1> DEFINE keys == {r.key : r \in R}
           before(k) == {e \in E : e.key = k}
           group(k) == {r \in R : r.key = k}
           size(k) == Cardinality(group(k)) + SumOf(before(k))
           new(k) == [key |-> k, mult |-> final[k].mult, access |-> final[k].access,
                      partial |-> \E r \in group(k) \union before(k) : r.partial,
                      count |-> IF k.kind \in Once THEN 1 ELSE size(k)]
<1>1. Upserted(E, R, final) = {e \in E : e.key \notin keys} \union {new(k) : k \in keys}
    BY Zenon DEF Upserted
<1>2. \A k : new(k).key = k
    OBVIOUS
<1> HIDE DEF new
<1> QED BY <1>1, <1>2

LEMMA UpsertSpares ==
    ASSUME NEW E, NEW R, NEW K, NEW final, \A r \in R : r.key.kind \notin K
    PROVE  OfKind(Upserted(E, R, final), K) = OfKind(E, K)
BY UpsertedKeys DEF OfKind

\* The rows are as many as the edges they come from, at the most.
LEMMA RowsAreFinite ==
    ASSUME NEW db, Ordinary(db), NEW ctx
    PROVE  IsFiniteSet(InheritanceRows(db, ctx)) /\ IsFiniteSet(UseRows(db, ctx))
<1> DEFINE inheritance(e) == [Plain(Collapse(ctx, e.src), e.dst,
                                   IF IsInterface(ctx, e.dst) THEN "implements" ELSE "generalizes", e)
                                EXCEPT !.access = e.access]
           use(e) == [Plain(Collapse(ctx, OwnerOf(db, e.src)), Collapse(ctx, OwnerOf(db, e.dst)), "uses", e)
                        EXCEPT !.key.via = e.dst, !.partial = (e.dst \in db.pure)]
           f == [e \in db.edge |-> inheritance(e)]
           g == [e \in db.edge |-> use(e)]
<1>1. IsFiniteSet(db.edge)
    BY DEF Ordinary
<1>2. \A e \in db.edge : f[e] = inheritance(e) /\ g[e] = use(e)
    OBVIOUS
<1>3. InheritanceRows(db, ctx) = {inheritance(e) : e \in Edges(db, {"inherits"}, EntityKinds, EntityKinds)}
    BY Zenon DEF InheritanceRows
<1>4. UseRows(db, ctx) = {use(e) : e \in {x \in Edges(db, {"calls", "uses"}, Callers, Callers) :
                                             OwnerOf(db, x.src) # None /\ OwnerOf(db, x.dst) # None}}
    BY Zenon DEF UseRows
<1> HIDE DEF inheritance, use, f, g
<1>5. InheritanceRows(db, ctx) \subseteq {f[e] : e \in db.edge}
    BY <1>2, <1>3 DEF Edges
<1>6. UseRows(db, ctx) \subseteq {g[e] : e \in db.edge}
    BY <1>2, <1>4 DEF Edges
<1>7. IsFiniteSet({f[e] : e \in db.edge}) /\ IsFiniteSet({g[e] : e \in db.edge})
    BY <1>1, MapOfFinite
<1> QED BY <1>5, <1>6, <1>7, FS_Subset

\* One phase more.
LEMMA PhaseIsExact ==
    ASSUME NEW db, Ordinary(db), NEW E, NEW n \in 1..10, NEW nodes, NEW final, NEW R,
           R = Rows(Phases[n], db, RollupState(db), nodes),
           \A r \in R : final[r.key] \in R /\ final[r.key].key = r.key,
           ExactUpTo(E, db, n)
    PROVE  ExactUpTo(Upserted(E, R, final), db, n + 1)
<1> DEFINE U == Upserted(E, R, final)
           I == Proper(InheritanceRows(db, RollupState(db)))
           W == Proper(UseRows(db, RollupState(db)))
<1>1. \A r \in R : /\ r.key.src # r.key.dst
                   /\ r.key.kind \in Bases <=> n = 1
                   /\ r.key.kind \in {"uses"} <=> n = 7
    BY RowKinds DEF Bases
<1>2. n = 1 => R = I
    BY DEF Rows, Phases
<1>3. n = 7 => R = W
  <2>1. Phases[7] = "uses"
      BY DEF Phases
  <2> QED BY <2>1 DEF Rows
<1>4. IsFiniteSet(I) /\ IsFiniteSet(W)
  <2>1. \A S : Proper(S) \subseteq S
      BY DEF Proper
  <2> QED BY <2>1, RowsAreFinite, FS_Subset
<1> HIDE DEF I, W
<1>5. n = 1 => Grouped(OfKind(U, Bases), I)
  <2> SUFFICES ASSUME n = 1 PROVE Grouped(OfKind(U, Bases), I)
      OBVIOUS
  <2>1. OfKind(E, Bases) = {}
      BY DEF ExactUpTo, OfKind
  <2>2. IsFiniteSet(R) /\ \A r \in R : r.key.kind \in Bases
      BY <1>1, <1>2, <1>4
  <2>3. Grouped(OfKind(U, Bases), R)
      BY <2>1, <2>2, UpsertGroups
  <2> QED BY <1>2, <2>3
<1>6. n # 1 => OfKind(U, Bases) = OfKind(E, Bases)
    BY <1>1, UpsertSpares
<1>7. n = 7 => Grouped(OfKind(U, {"uses"}), W)
  <2> SUFFICES ASSUME n = 7 PROVE Grouped(OfKind(U, {"uses"}), W)
      OBVIOUS
  <2>1. OfKind(E, {"uses"}) = {}
      BY DEF ExactUpTo
  <2>2. IsFiniteSet(R) /\ \A r \in R : r.key.kind \in {"uses"}
      BY <1>1, <1>3, <1>4
  <2>3. Grouped(OfKind(U, {"uses"}), R)
      BY <2>1, <2>2, UpsertGroups
  <2> QED BY <1>3, <2>3
<1>8. n # 7 => OfKind(U, {"uses"}) = OfKind(E, {"uses"})
    BY <1>1, UpsertSpares
<1>9. \A e \in U : e.key.src # e.key.dst
  <2> SUFFICES ASSUME NEW e \in U PROVE e.key.src # e.key.dst
      OBVIOUS
  <2>1. e \in E \/ \E r \in R : e.key = r.key
      BY UpsertedKeys
  <2> QED BY <1>1, <2>1 DEF ExactUpTo
<1> HIDE DEF U
<1>10. /\ n > 1 => Grouped(OfKind(E, Bases), I)
       /\ n <= 7 => OfKind(E, {"uses"}) = {}
       /\ n > 7 => Grouped(OfKind(E, {"uses"}), W)
    BY DEF ExactUpTo, I, W
<1>11. Grouped(OfKind(U, Bases), I)
    BY <1>5, <1>6, <1>10
<1>12. n + 1 <= 7 => OfKind(U, {"uses"}) = {}
    BY <1>8, <1>10
<1>13. n + 1 > 7 => Grouped(OfKind(U, {"uses"}), W)
    BY <1>7, <1>8, <1>10
<1>14. n + 1 # 1
    OBVIOUS
<1> QED BY <1>9, <1>11, <1>12, <1>13, <1>14 DEF ExactUpTo, I, W, U

LEMMA OnePassStarts ==
    ASSUME \A db \in Layer0 : Ordinary(db), RollupInit
    PROVE  OnePassInv
BY RollupStarts DEF RollupInit, OnePassInv, Idle, Locked

LEMMA OnePassStays ==
    ASSUME \A db \in Layer0 : Ordinary(db), OnePassInv, [RollupNext]_rollupVars
    PROVE  OnePassInv'
<1>1. RollupInv' /\ RollupInv
    BY RollupStays DEF OnePassInv
<1> DEFINE Draft == Locked /\ pass.seen = base => ExactUpTo(pass.draft.edges, base, pass.n)
           Tables == made # None => Sound(made) /\ Ordinary(made) /\ ExactUpTo(entity.edges, made, 11)
<1>2. Ordinary(base) /\ Draft /\ Tables /\ Sound(base) /\ PassOK
    BY DEF OnePassInv, RollupInv
<1>3. CASE Precompute \/ Fail
  <2>1. UNCHANGED <<base, entity, made>> /\ pass'.pc # "phase"
    <3> DEFINE c == RollupState(base)
    <3>1. \/ pass' = Idle
          \/ pass' = [Idle EXCEPT !.pc = "begin", !.ctx = c, !.seen = base]
        BY <1>3 DEF Precompute, Fail
    <3> HIDE DEF c
    <3>2. CASE pass' = Idle
        BY <1>3, <3>2 DEF Precompute, Fail, Idle
    <3>3. CASE pass' = [Idle EXCEPT !.pc = "begin", !.ctx = c, !.seen = base]
      <4>1. pass' = [pc |-> "begin", n |-> 0, ctx |-> c, draft |-> NoDraft, seen |-> base]
          BY <3>3 DEF Idle
      <4> QED BY <1>3, <4>1 DEF Precompute, Fail
    <3> QED BY <3>1, <3>2, <3>3
  <2> QED BY <1>1, <1>2, <2>1 DEF OnePassInv, Locked
<1>4. CASE Begin
  <2>1. UNCHANGED <<base, entity, made>> /\ pass'.n = 1 /\ pass'.draft.edges = {}
    <3>1. /\ pass = [pc |-> "begin", n |-> pass.n, ctx |-> pass.ctx, draft |-> pass.draft, seen |-> pass.seen]
          /\ pass.draft = [edges |-> {}, nodes |-> pass.draft.nodes]
        BY <1>2, <1>4 DEF PassOK, Begin
    <3> DEFINE draft == [pass.draft EXCEPT !.nodes = entity.nodes]
    <3>2. UNCHANGED <<base, entity, made>>
          /\ pass' = [pass EXCEPT !.pc = "phase", !.n = 1, !.draft = draft]
        BY <1>4, <3>1 DEF Begin
    <3>3. draft.edges = {}
        BY <3>1
    <3> HIDE DEF draft
    <3> QED BY <3>1, <3>2, <3>3
  <2>2. ExactUpTo(pass'.draft.edges, base', pass'.n)
      BY <2>1 DEF ExactUpTo, OfKind
  <2> QED BY <1>1, <1>2, <2>1, <2>2 DEF OnePassInv
<1>5. CASE Phase
  <2> DEFINE R == Rows(Phases[pass.n], base, pass.ctx, pass.draft.nodes)
             keys == {r.key : r \in R}
  <2>1. PICK final \in [keys -> R] :
              /\ \A k \in keys : final[k].key = k
              /\ pass' = IF \E k \in keys : {k.src, k.dst} \ Present(base) # {} THEN Idle
                         ELSE [pass EXCEPT
                                 !.n = @ + 1,
                                 !.draft.edges = Upserted(@, R, final),
                                 !.draft.nodes = IF Phases[pass.n] = "entity_nodes"
                                                 THEN Nodes(base, pass.ctx) ELSE @]
      BY <1>5, Zenon DEF Phase
  <2>2. UNCHANGED <<base, entity, made>> /\ Locked /\ pass.n \in 1..10
    <3>1. Len(Phases) = 10
        BY DEF Phases
    <3>2. UNCHANGED <<base, entity, made>> /\ Locked /\ pass.n <= Len(Phases)
        BY <1>5 DEF Phase, Locked
    <3>3. pass.n \in 1..11
        BY <1>2, <3>2 DEF PassOK
    <3> QED BY <3>1, <3>2, <3>3
  <2>3. CASE pass' = Idle
      BY <1>1, <1>2, <2>2, <2>3 DEF OnePassInv, Locked, Idle
  <2>4. CASE pass' # Idle
    <3> DEFINE edges == Upserted(pass.draft.edges, R, final)
               nodes == IF Phases[pass.n] = "entity_nodes" THEN Nodes(base, pass.ctx) ELSE pass.draft.nodes
    <3>1. pass' = [pass EXCEPT !.n = pass.n + 1, !.draft.edges = edges, !.draft.nodes = nodes]
        BY <2>1, <2>4
    <3>2. pass'.n = pass.n + 1 /\ pass'.draft.edges = edges /\ pass'.seen = pass.seen
      <4>1. /\ pass = [pc |-> pass.pc, n |-> pass.n, ctx |-> pass.ctx, draft |-> pass.draft, seen |-> pass.seen]
            /\ pass.draft = [edges |-> pass.draft.edges, nodes |-> pass.draft.nodes]
          BY <1>2 DEF PassOK
      <4> HIDE DEF edges, nodes
      <4> QED BY <3>1, <4>1
    <3>3. ASSUME pass.seen = base PROVE ExactUpTo(edges, base, pass.n + 1)
      <4>1. pass.ctx = RollupState(base) /\ ExactUpTo(pass.draft.edges, base, pass.n)
          BY <1>2, <2>2, <3>3 DEF PassOK, Locked
      <4>2. \A r \in R : final[r.key] \in R /\ final[r.key].key = r.key
          BY <2>1
      <4>3. R = Rows(Phases[pass.n], base, RollupState(base), pass.draft.nodes)
          BY <4>1
      <4> HIDE DEF R
      <4> QED BY <1>2, <2>2, <4>1, <4>2, <4>3, PhaseIsExact
    <3> HIDE DEF edges
    <3> QED BY <1>1, <1>2, <2>2, <3>2, <3>3 DEF OnePassInv
  <2> QED BY <2>3, <2>4
<1>6. CASE Commit
  <2>1. /\ Locked /\ base' = base /\ entity' = pass.draft /\ pass' = Idle
        /\ made' = IF pass.seen = base THEN base ELSE None
        /\ pass.n = 11
    <3>1. Len(Phases) = 10
        BY DEF Phases
    <3>2. Locked => pass.n \in 1..11
        BY <1>2 DEF PassOK
    <3> QED BY <1>6, <3>1, <3>2 DEF Commit, Locked
  <2>2. made' # None => pass.seen = base /\ made' = base
      BY <2>1
  <2>3. made' # None => Sound(made') /\ Ordinary(made') /\ ExactUpTo(entity'.edges, made', 11)
      BY <1>2, <2>1, <2>2
  <2> QED BY <1>1, <1>2, <2>1, <2>3 DEF OnePassInv, Locked, Idle
<1>7. CASE Reindex
  <2>1. UNCHANGED <<entity, pass, made>> /\ base' \in Layer0 /\ ~Locked
      BY <1>7 DEF Reindex
  <2> QED BY <1>1, <1>2, <2>1 DEF OnePassInv, Locked
<1>8. CASE \E F \in Deletions : Delete(F)
  <2>1. PICK F \in Deletions : Delete(F)
      BY <1>8
  <2>2. ~Locked /\ UNCHANGED pass /\ F \subseteq Ids
      BY <2>1 DEF Delete, Present
  <2>3. CASE Clash(F)
    <3>1. UNCHANGED <<base, entity, made>>
        BY <2>1, <2>3 DEF Delete
    <3> QED BY <1>1, <1>2, <2>2, <3>1 DEF OnePassInv, Locked
  <2>4. CASE ~Clash(F)
    <3>1. base' = Without(base, F) /\ made' = None
        BY <2>1, <2>4 DEF Delete
    <3>2. Ordinary(base')
        BY <1>2, <2>2, <3>1, WithoutIsOrdinary
    <3> QED BY <1>1, <2>2, <3>1, <3>2 DEF OnePassInv, Locked
  <2> QED BY <2>3, <2>4
<1>9. CASE UNCHANGED rollupVars
    BY <1>1, <1>2, <1>9 DEF OnePassInv, rollupVars, Locked
<1> QED BY <1>3, <1>4, <1>5, <1>6, <1>7, <1>8, <1>9 DEF RollupNext, PassStep

\* A method has one owner: the one OwnerOf finds.
LEMMA OwnerIsOne ==
    ASSUME NEW db, Sound(db), Ordinary(db), NEW m
    PROVE  /\ OwnerOf(db, m) # None =>
                 \E c \in Edges(db, {"method_of"}, All, EntityKinds) : c.src = m /\ c.dst = OwnerOf(db, m)
           /\ \A c \in Edges(db, {"method_of"}, All, EntityKinds) :
                 c.src = m => c.dst = OwnerOf(db, m) /\ OwnerOf(db, m) # None
<1> DEFINE M == Edges(db, {"method_of"}, All, EntityKinds)
           o == {e.dst : e \in {x \in M : x.src = m}}
<1>1. OwnerOf(db, m) = IF o = {} THEN None ELSE CHOOSE x \in o : TRUE
    BY DEF OwnerOf
<1>2. \A c \in M : c.dst \in Ids
    BY EdgeTypes DEF Edges
<1>3. \A x, y \in M : x.src = y.src => x.dst = y.dst
    BY DEF Ordinary
<1> HIDE DEF M
<1>4. o # {} => OwnerOf(db, m) \in o
    BY <1>1
<1>5. \A c \in M : c.src = m => c.dst \in o
    OBVIOUS
<1>6. \A x, y \in o : x = y
    BY <1>3
<1>7. o = {} => OwnerOf(db, m) = None
    BY <1>1
<1>8. \A x \in o : x \in Ids /\ \E c \in M : c.src = m /\ c.dst = x
    BY <1>2
<1> HIDE DEF o
<1>9. None \notin Ids
    BY IdsAreNumbers
<1> QED BY <1>4, <1>5, <1>6, <1>7, <1>8, <1>9 DEF M

UseSites(db) ==
    {e \in Edges(db, {"calls", "uses"}, Callers, Callers) :
        OwnerOf(db, e.src) # None /\ OwnerOf(db, e.dst) # None}

\* Who uses whom, at one call edge.
UserOf(db, e) == Primary(db, OwnerOf(db, e.src))
UsedBy(db, e) == Primary(db, OwnerOf(db, e.dst))

LEMMA UsesByOwners ==
    ASSUME NEW db, Sound(db), Ordinary(db)
    PROVE  UsesMeant(db) = {<<UserOf(db, e), UsedBy(db, e), e>> : e \in UseSites(db)}
<1> DEFINE M == Edges(db, {"method_of"}, All, EntityKinds)
           C == Edges(db, {"calls", "uses"}, Callers, Callers)
           P(x) == Primary(db, x)
           meant == {<<P(c[1].dst), P(c[2].dst), c[3]>> :
                        c \in {x \in M \X M \X C : x[3].src = x[1].src /\ x[3].dst = x[2].src}}
           owned == {<<UserOf(db, e), UsedBy(db, e), e>> : e \in UseSites(db)}
<1>1. UsesMeant(db) = meant
    BY Zenon DEF UsesMeant
<1>2. \A m : OwnerOf(db, m) # None => \E c \in M : c.src = m /\ c.dst = OwnerOf(db, m)
    BY OwnerIsOne
<1>3. \A m : \A c \in M : c.src = m => c.dst = OwnerOf(db, m) /\ OwnerOf(db, m) # None
    BY OwnerIsOne
<1>4. \A e : e \in UseSites(db) <=> e \in C /\ OwnerOf(db, e.src) # None /\ OwnerOf(db, e.dst) # None
    BY DEF UseSites
<1>5. \A e : UserOf(db, e) = P(OwnerOf(db, e.src)) /\ UsedBy(db, e) = P(OwnerOf(db, e.dst))
    BY DEF UserOf, UsedBy
<1> HIDE DEF M, C, P
<1>6. ASSUME NEW u \in meant PROVE u \in owned
  <2>1. PICK a \in M, b \in M, e \in C :
               e.src = a.src /\ e.dst = b.src /\ u = <<P(a.dst), P(b.dst), e>>
      OBVIOUS
  <2>2. a.dst = OwnerOf(db, e.src) /\ b.dst = OwnerOf(db, e.dst) /\ e \in UseSites(db)
      BY <1>3, <1>4, <2>1
  <2> QED BY <1>5, <2>1, <2>2
<1>7. ASSUME NEW u \in owned PROVE u \in meant
  <2>1. PICK e \in UseSites(db) : u = <<UserOf(db, e), UsedBy(db, e), e>>
      OBVIOUS
  <2>2. PICK a \in M : a.src = e.src /\ a.dst = OwnerOf(db, e.src)
      BY <1>2, <1>4
  <2>3. PICK b \in M : b.src = e.dst /\ b.dst = OwnerOf(db, e.dst)
      BY <1>2, <1>4
  <2> DEFINE c == <<a, b, e>>
  <2>4. c \in M \X M \X C /\ c[1] = a /\ c[2] = b /\ c[3] = e
      BY <1>4
  <2>5. u = <<P(c[1].dst), P(c[2].dst), c[3]>>
      BY <1>5, <2>1, <2>2, <2>3, <2>4
  <2> HIDE DEF c
  <2> QED BY <2>2, <2>3, <2>4, <2>5
<1> QED BY <1>1, <1>6, <1>7

\* The row of a call edge, and the row of an inheritance.
LEMMA UseRow ==
    ASSUME NEW db, Sound(db), Ordinary(db)
    PROVE  /\ \A r \in UseRows(db, RollupState(db)) :
                 /\ r.of \in UseSites(db)
                 /\ r.key.src = UserOf(db, r.of) /\ r.key.dst = UsedBy(db, r.of)
                 /\ r.key.kind = "uses"
           /\ \A e \in UseSites(db) : \E r \in UseRows(db, RollupState(db)) : r.of = e
           /\ \A r, q \in UseRows(db, RollupState(db)) : r.of = q.of => r = q
<1> DEFINE ctx == RollupState(db)
           use(e) == [Plain(Collapse(ctx, OwnerOf(db, e.src)), Collapse(ctx, OwnerOf(db, e.dst)), "uses", e)
                        EXCEPT !.key.via = e.dst, !.partial = (e.dst \in db.pure)]
<1>1. UseRows(db, ctx) = {use(e) : e \in UseSites(db)}
    BY Zenon DEF UseRows, UseSites
<1>2. ASSUME NEW e \in UseSites(db)
      PROVE  /\ use(e).of = e /\ use(e).key.kind = "uses"
             /\ use(e).key.src = UserOf(db, e) /\ use(e).key.dst = UsedBy(db, e)
  <2> DEFINE s == Collapse(ctx, OwnerOf(db, e.src))
             d == Collapse(ctx, OwnerOf(db, e.dst))
             p == e.dst \in db.pure
             v == e.dst
  <2>1. OwnerOf(db, e.src) \in Ids /\ OwnerOf(db, e.dst) \in Ids
      BY OwnersAreNodes DEF UseSites
  <2>2. s = UserOf(db, e) /\ d = UsedBy(db, e)
      BY <2>1, CollapseIsPrimary DEF UserOf, UsedBy
  <2>3. use(e) = [Plain(s, d, "uses", e) EXCEPT !.key.via = v, !.partial = p]
      OBVIOUS
  <2> HIDE DEF s, d, p, v, use
  <2>4. use(e).of = e /\ use(e).key.src = s /\ use(e).key.dst = d /\ use(e).key.kind = "uses"
      BY <2>3 DEF Plain, Key
  <2> QED BY <2>2, <2>4
<1> HIDE DEF use
<1> QED BY <1>1, <1>2

HowMeant(db, e) == IF Interface(db, e.dst) THEN "implements" ELSE "generalizes"

LEMMA InheritanceRow ==
    ASSUME NEW db, Sound(db), Ordinary(db)
    PROVE  LET I == Edges(db, {"inherits"}, EntityKinds, EntityKinds)
               row(r, e) == /\ r.key.src = Primary(db, e.src) /\ r.key.dst = e.dst
                            /\ r.key.kind = HowMeant(db, e) /\ r.access = e.access
           IN  /\ \A r \in InheritanceRows(db, RollupState(db)) : \E e \in I : row(r, e)
               /\ \A e \in I : \E r \in InheritanceRows(db, RollupState(db)) : row(r, e)
<1> DEFINE ctx == RollupState(db)
           I == Edges(db, {"inherits"}, EntityKinds, EntityKinds)
           row(r, e) == /\ r.key.src = Primary(db, e.src) /\ r.key.dst = e.dst
                        /\ r.key.kind = HowMeant(db, e) /\ r.access = e.access
           made1(e) == [Plain(Collapse(ctx, e.src), e.dst,
                              IF IsInterface(ctx, e.dst) THEN "implements" ELSE "generalizes", e)
                          EXCEPT !.access = e.access]
<1>1. InheritanceRows(db, ctx) = {made1(e) : e \in I}
    BY Zenon DEF InheritanceRows
<1>2. ASSUME NEW e \in I PROVE row(made1(e), e)
  <2> DEFINE s == Collapse(ctx, e.src)
             k == IF IsInterface(ctx, e.dst) THEN "implements" ELSE "generalizes"
             a == e.access
  <2>1. e.src \in Ids /\ e.dst \in Ids /\ db.kind[e.dst] \in NodeKinds
      BY EdgeTypes, EntitiesAreNodes DEF Edges
  <2>2. s = Primary(db, e.src)
      BY <2>1, CollapseIsPrimary
  <2>3. k = HowMeant(db, e)
      BY <2>1, InterfaceByTables DEF HowMeant
  <2>4. made1(e) = [Plain(s, e.dst, k, e) EXCEPT !.access = a]
      OBVIOUS
  <2> HIDE DEF s, k, a, made1
  <2>5. /\ made1(e).key.src = s /\ made1(e).key.dst = e.dst
        /\ made1(e).key.kind = k /\ made1(e).access = a
      BY <2>4 DEF Plain, Key
  <2> QED BY <2>2, <2>3, <2>5 DEF a
<1> HIDE DEF made1, row
<1>3. /\ \A r \in InheritanceRows(db, ctx) : \E e \in I : row(r, e)
      /\ \A e \in I : \E r \in InheritanceRows(db, ctx) : row(r, e)
    BY <1>1, <1>2
<1> QED BY <1>3 DEF row

\* Between any two ends, the uses of E count the call edges.
UsesBetween(E, x, y) == {e \in E : e.key.src = x /\ e.key.dst = y}
MeantBetween(db, x, y) == {u \in UsesMeant(db) : u[1] # u[2] /\ u[1] = x /\ u[2] = y}
UsesCounted(db, E) == \A x, y : SumOf(UsesBetween(E, x, y)) = Cardinality(MeantBetween(db, x, y))

LEMMA UsesAreCounted ==
    ASSUME NEW db, Sound(db), Ordinary(db), NEW E,
           Grouped(E, Proper(UseRows(db, RollupState(db))))
    PROVE  UsesCounted(db, E)
<1> SUFFICES ASSUME NEW x, NEW y
             PROVE  SumOf({e \in E : e.key.src = x /\ e.key.dst = y})
                      = Cardinality({u \in UsesMeant(db) : u[1] # u[2] /\ u[1] = x /\ u[2] = y})
    BY DEF UsesCounted, UsesBetween, MeantBetween
<1> DEFINE W == Proper(UseRows(db, RollupState(db)))
           S == {e \in E : e.key.src = x /\ e.key.dst = y}
           g == [e \in S |-> {r \in W : r.key = e.key}]
           T == {r \in W : r.key.src = x /\ r.key.dst = y}
           D == {u \in UsesMeant(db) : u[1] # u[2] /\ u[1] = x /\ u[2] = y}
<1>1. IsFiniteSet(W) /\ W \subseteq UseRows(db, RollupState(db)) /\ \A r \in W : r.key.src # r.key.dst
  <2>1. W \subseteq UseRows(db, RollupState(db)) /\ \A r \in W : r.key.src # r.key.dst
      BY DEF Proper
  <2> QED BY <2>1, RowsAreFinite, FS_Subset
<1>2. /\ \A r \in W : /\ r.of \in UseSites(db)
                      /\ r.key.src = UserOf(db, r.of) /\ r.key.dst = UsedBy(db, r.of)
                      /\ r.key.kind = "uses"
      /\ \A e \in UseSites(db) : UserOf(db, e) # UsedBy(db, e) => \E r \in W : r.of = e
      /\ \A r, q \in W : r.of = q.of => r = q
  <2>1. \A r \in UseRows(db, RollupState(db)) : r.key.src # r.key.dst => r \in W
      BY DEF Proper
  <2> HIDE DEF W
  <2> QED BY <1>1, <2>1, UseRow
<1>3. /\ {e.key : e \in E} = {r.key : r \in W}
      /\ \A e \in E : e.count = IF e.key.kind \in Once THEN 1 ELSE Cardinality({r \in W : r.key = e.key})
      /\ \A e, f \in E : e.key = f.key => e = f
    BY DEF Grouped
<1> HIDE DEF W
<1>4. \A e \in E : e.count = Cardinality({r \in W : r.key = e.key})
  <2> TAKE e \in E
  <2>1. e.key.kind = "uses"
    <3>1. e.key \in {r.key : r \in W}
        BY <1>3
    <3> QED BY <1>2, <3>1
  <2> QED BY <1>3, <2>1 DEF Once
<1>5. IsFiniteSet(S)
  <2> DEFINE K == {r.key : r \in W}
             f == [e \in S |-> e.key]
  <2>1. IsFiniteSet(K)
    <3> DEFINE h == [r \in W |-> r.key]
    <3>1. K = {h[r] : r \in W}
        OBVIOUS
    <3> HIDE DEF h, K
    <3> QED BY <1>1, <3>1, MapOfFinite
  <2>2. f \in Injection(S, K)
      BY <1>3 DEF Injection, IsInjective
  <2> QED BY <2>1, <2>2, FS_Injection
<1>6. \A e \in S : IsFiniteSet(g[e]) /\ e.count = Cardinality(g[e])
  <2> TAKE e \in S
  <2>1. g[e] = {r \in W : r.key = e.key}
      OBVIOUS
  <2> HIDE DEF g
  <2> QED BY <1>1, <1>4, <2>1, FS_Subset
<1>7. \A d, e \in S : d # e => g[d] \intersect g[e] = {}
    BY <1>3
<1>8. UNION {g[e] : e \in S} = T
  <2>1. ASSUME NEW r \in T PROVE \E e \in S : r \in g[e]
    <3>1. PICK e \in E : e.key = r.key
        BY <1>3
    <3> QED BY <3>1
  <2> QED BY <2>1
<1> HIDE DEF g
<1>9. SumOf(S) = Cardinality(T) /\ IsFiniteSet(T)
  <2> HIDE DEF S, T
  <2> QED BY <1>5, <1>6, <1>7, <1>8, SumOfIsSize
<1>10. Cardinality(T) = Cardinality(D)
  <2> DEFINE m(r) == <<x, y, r.of>>
             f == [r \in T |-> m(r)]
  <2>1. UsesMeant(db) = {<<UserOf(db, e), UsedBy(db, e), e>> : e \in UseSites(db)}
      BY UsesByOwners
  <2>2. ASSUME NEW r \in T PROVE m(r) \in D
    <3>1. /\ r.of \in UseSites(db) /\ x = UserOf(db, r.of) /\ y = UsedBy(db, r.of) /\ x # y
        BY <1>1, <1>2
    <3>2. m(r) = <<UserOf(db, r.of), UsedBy(db, r.of), r.of>>
        BY <3>1
    <3>3. m(r) \in UsesMeant(db) /\ m(r)[1] = x /\ m(r)[2] = y
        BY <2>1, <3>1, <3>2
    <3> QED BY <3>1, <3>3
  <2>3. ASSUME NEW u \in D PROVE \E r \in T : u = m(r)
    <3>1. PICK e \in UseSites(db) : u = <<UserOf(db, e), UsedBy(db, e), e>>
        BY <2>1
    <3>2. UserOf(db, e) = x /\ UsedBy(db, e) = y /\ x # y
        BY <3>1
    <3>3. PICK r \in W : r.of = e
        BY <1>2, <3>2
    <3>4. r \in T
        BY <1>2, <3>2, <3>3
    <3> QED BY <3>1, <3>2, <3>3, <3>4
  <2>4. \A r, q \in T : m(r) = m(q) => r = q
      BY <1>2
  <2> HIDE DEF m, D, T
  <2>5. f \in Bijection(T, D)
      BY <2>2, <2>3, <2>4 DEF Bijection, Injection, Surjection, IsInjective
  <2> QED BY <1>9, <2>5, FS_Bijection DEF ExistsBijection
<1> QED BY <1>9, <1>10

\* What entity_node says of a symbol.
LEMMA NodesAreMeant ==
    ASSUME NEW db, Sound(db), NEW s \in Ids
    PROVE  LET t == Nodes(db, RollupState(db))[s]
           IN  /\ t # None <=> db.kind[s] \in NodeKinds \union {"namespace"}
               /\ db.kind[s] \in {"class", "struct", "class_template"} =>
                     (t[1] = "interface" <=> Interface(db, s))
<1> DEFINE ctx == RollupState(db)
           t == Nodes(db, ctx)[s]
<1>1. t = IF db.kind[s] \in NodeKinds \union {"namespace"} THEN EntityKind(ctx, s, db.kind[s]) ELSE None
    BY DEF Nodes
<1>2. CASE db.kind[s] \in NodeKinds \union {"namespace"}
  <2>1. s \in Present(db) /\ EndLike(s)
    <3>1. db.kind[s] # None
        BY <1>2, NoneIsNoKind
    <3> QED BY <1>2, <3>1, KindIsFixed DEF Present
  <2>2. /\ t # None
        /\ db.kind[s] \notin {"enum", "union", "namespace"} => (t[1] = "interface" <=> IsInterface(ctx, s))
    <3> HIDE DEF ctx
    <3> QED BY <2>1, NodeRow
  <2>3. db.kind[s] \in {"class", "struct", "class_template"} =>
            db.kind[s] \in NodeKinds /\ db.kind[s] \notin {"enum", "union", "namespace"}
      BY DEF NodeKinds, EntityKinds
  <2> QED BY <1>2, <2>2, <2>3, InterfaceByTables
<1>3. CASE db.kind[s] \notin NodeKinds \union {"namespace"}
    BY <1>1, <1>3 DEF NodeKinds, EntityKinds
<1> QED BY <1>2, <1>3

LEMMA BasesAreMeant ==
    ASSUME NEW db, Sound(db), Ordinary(db), NEW E,
           Grouped(E, Proper(InheritanceRows(db, RollupState(db))))
    PROVE  LET meant == {i \in InheritanceMeant(db) : i[1] # i[3]}
               ends(e) == <<e.key.src, e.key.kind, e.key.dst>>
           IN  /\ {ends(e) : e \in E} = {<<i[1], i[2], i[3]>> : i \in meant}
               /\ \A e \in E : e.count = 1 /\ \E i \in meant : i = ends(e) \o <<e.access>>
<1> DEFINE R == InheritanceRows(db, RollupState(db))
           W == Proper(R)
           I == Edges(db, {"inherits"}, EntityKinds, EntityKinds)
           row(r, e) == /\ r.key.src = Primary(db, e.src) /\ r.key.dst = e.dst
                        /\ r.key.kind = HowMeant(db, e) /\ r.access = e.access
           tuple(e) == <<Primary(db, e.src), HowMeant(db, e), e.dst, e.access>>
           meant == {i \in InheritanceMeant(db) : i[1] # i[3]}
           ends(e) == <<e.key.src, e.key.kind, e.key.dst>>
<1>1. /\ \A r \in R : \E e \in I : row(r, e)
      /\ \A e \in I : \E r \in R : row(r, e)
    BY InheritanceRow
<1>2. InheritanceMeant(db) = {tuple(e) : e \in I}
    BY Zenon DEF InheritanceMeant, HowMeant
<1>3. \A r : r \in W <=> r \in R /\ r.key.src # r.key.dst
    BY DEF Proper
<1>4. /\ {e.key : e \in E} = {r.key : r \in W}
      /\ \A e \in E : /\ \E r \in W : r.key = e.key /\ r.access = e.access
                      /\ e.count = IF e.key.kind \in Once THEN 1 ELSE Cardinality({r \in W : r.key = e.key})
    BY DEF Grouped
<1> HIDE DEF R, W, I
<1>5. \A e : HowMeant(db, e) \in Once
    BY DEF HowMeant, Once
<1>6. ASSUME NEW e \in E
      PROVE  e.count = 1 /\ \E i \in meant : i = <<e.key.src, e.key.kind, e.key.dst, e.access>>
  <2>1. PICK r \in W : r.key = e.key /\ r.access = e.access
      BY <1>4
  <2>2. PICK x \in I : row(r, x)
      BY <1>1, <1>3
  <2>3. tuple(x) = <<e.key.src, e.key.kind, e.key.dst, e.access>>
      BY <2>1, <2>2
  <2>4. tuple(x) \in meant
      BY <1>2, <1>3, <2>1, <2>2
  <2>5. e.key.kind \in Once
      BY <1>5, <2>1, <2>2
  <2> HIDE DEF tuple, meant, row
  <2> QED BY <1>4, <2>3, <2>4, <2>5
<1>7. ASSUME NEW i \in meant PROVE \E e \in E : ends(e) = <<i[1], i[2], i[3]>>
  <2>1. PICK x \in I : i = tuple(x)
      BY <1>2
  <2>2. PICK r \in R : row(r, x)
      BY <1>1
  <2>3. r \in W
      BY <1>3, <2>1, <2>2
  <2>4. PICK e \in E : e.key = r.key
      BY <1>4, <2>3
  <2> QED BY <2>1, <2>2, <2>4
<1>8. \A e \in E : ends(e) \o <<e.access>> = <<e.key.src, e.key.kind, e.key.dst, e.access>>
  <2> TAKE e \in E
  <2> DEFINE S == {e.key.src, e.key.kind, e.key.dst, e.access}
             t == <<e.access>>
             q == <<e.key.src, e.key.kind, e.key.dst, e.access>>
  <2>1. /\ ends(e) \in Seq(S) /\ t \in Seq(S) /\ q \in Seq(S)
        /\ Len(ends(e)) = 3 /\ Len(t) = 1 /\ Len(q) = 4 /\ t[1] = q[4]
        /\ \A i \in 1..3 : ends(e)[i] = q[i]
      OBVIOUS
  <2> HIDE DEF ends, t, q, S
  <2> DEFINE s == ends(e)
  <2> HIDE DEF s
  <2>2. /\ s \o t \in Seq(S) /\ Len(s \o t) = Len(s) + Len(t)
        /\ \A i \in 1..(Len(s) + Len(t)) : (s \o t)[i] = IF i <= Len(s) THEN s[i] ELSE t[i - Len(s)]
      BY <2>1, ConcatProperties DEF s
  <2>3. Len(s) = 3 /\ Len(t) = 1 /\ (\A i \in 1..3 : s[i] = q[i]) /\ t[1] = q[4]
      BY <2>1 DEF s
  <2>4. \A i \in 1..4 : (s \o t)[i] = q[i]
    <3> TAKE i \in 1..4
    <3>1. CASE i = 4
        BY <2>2, <2>3, <3>1
    <3>2. CASE i # 4
        BY <2>2, <2>3, <3>2
    <3> QED BY <3>1, <3>2
  <2>5. Len(s \o t) = 4 /\ Len(q) = 4 /\ s \o t \in Seq(S) /\ q \in Seq(S)
      BY <2>1, <2>2, <2>3
  <2>6. s \o t = q
      BY <2>4, <2>5, SeqEqual
  <2> QED BY <2>6 DEF s, t, q
<1>9. \A e \in E : \E i \in meant : ends(e) = <<i[1], i[2], i[3]>>
    BY <1>6
<1> HIDE DEF meant, ends
<1>10. {ends(e) : e \in E} = {<<i[1], i[2], i[3]>> : i \in meant}
    BY <1>7, <1>9
<1>11. \A e \in E : e.count = 1 /\ \E i \in meant : i = ends(e) \o <<e.access>>
    BY <1>6, <1>8
<1> QED BY <1>10, <1>11 DEF meant, ends

\* The pairs that the uses join.
LEMMA UsesAreMeant ==
    ASSUME NEW db, Sound(db), Ordinary(db), NEW E,
           Grouped(E, Proper(UseRows(db, RollupState(db))))
    PROVE  {<<e.key.src, e.key.dst>> : e \in E}
              = {<<u[1], u[2]>> : u \in {x \in UsesMeant(db) : x[1] # x[2]}}
<1> DEFINE R == UseRows(db, RollupState(db))
           W == Proper(R)
           meant == {x \in UsesMeant(db) : x[1] # x[2]}
           tuple(e) == <<UserOf(db, e), UsedBy(db, e), e>>
<1>1. /\ \A r \in R : /\ r.of \in UseSites(db)
                      /\ r.key.src = UserOf(db, r.of) /\ r.key.dst = UsedBy(db, r.of)
      /\ \A e \in UseSites(db) : \E r \in R : r.of = e
    BY UseRow
<1>2. UsesMeant(db) = {tuple(e) : e \in UseSites(db)}
    BY UsesByOwners
<1>3. \A r : r \in W <=> r \in R /\ r.key.src # r.key.dst
    BY DEF Proper
<1>4. {e.key : e \in E} = {r.key : r \in W}
    BY DEF Grouped
<1> HIDE DEF R, W
<1>5. ASSUME NEW e \in E PROVE \E u \in meant : <<e.key.src, e.key.dst>> = <<u[1], u[2]>>
  <2>1. PICK r \in W : r.key = e.key
      BY <1>4
  <2>2. tuple(r.of) \in meant
      BY <1>1, <1>2, <1>3
  <2>3. tuple(r.of)[1] = e.key.src /\ tuple(r.of)[2] = e.key.dst
      BY <1>1, <1>3, <2>1
  <2> HIDE DEF tuple, meant
  <2> QED BY <2>2, <2>3
<1>6. ASSUME NEW u \in meant PROVE \E e \in E : <<e.key.src, e.key.dst>> = <<u[1], u[2]>>
  <2>1. PICK x \in UseSites(db) : u = tuple(x)
      BY <1>2
  <2>2. PICK r \in R : r.of = x
      BY <1>1
  <2>3. r \in W
      BY <1>1, <1>3, <2>1, <2>2
  <2>4. PICK e \in E : e.key = r.key
      BY <1>4, <2>3
  <2> QED BY <1>1, <2>1, <2>2, <2>4
<1> HIDE DEF meant
<1> QED BY <1>5, <1>6 DEF meant

LEMMA OnePassTables == OnePassInv => TablesAreOnePass
<1> SUFFICES ASSUME OnePassInv, made # None PROVE TablesAreOnePass
    BY DEF TablesAreOnePass
<1>1. /\ Sound(made) /\ Ordinary(made) /\ entity.nodes = Nodes(made, RollupState(made))
      /\ Grouped(OfKind(entity.edges, Bases), Proper(InheritanceRows(made, RollupState(made))))
      /\ Grouped(OfKind(entity.edges, {"uses"}), Proper(UseRows(made, RollupState(made))))
      /\ \A e \in entity.edges : e.key.src # e.key.dst
    BY DEF OnePassInv, ExactUpTo, RollupInv, TablesOK
<1>2. OfKinds(Bases) = OfKind(entity.edges, Bases) /\ OfKinds({"uses"}) = OfKind(entity.edges, {"uses"})
    BY DEF OfKinds, OfKind
<1>3. \A s \in Ids :
         /\ (entity.nodes[s] # None) <=> (made.kind[s] \in NodeKinds \union {"namespace"})
         /\ made.kind[s] \in {"class", "struct", "class_template"} =>
               (entity.nodes[s][1] = "interface") <=> Interface(made, s)
    BY <1>1, NodesAreMeant
<1>4. LET meant == {u \in UsesMeant(made) : u[1] # u[2]}
          ends(x, y) == {u \in meant : u[1] = x /\ u[2] = y}
          stored == OfKinds({"uses"})
      IN  /\ {<<e.key.src, e.key.dst>> : e \in stored} = {<<u[1], u[2]>> : u \in meant}
          /\ \A x, y \in {e.key.src : e \in stored} \union {e.key.dst : e \in stored} :
                SumOf({e \in stored : e.key.src = x /\ e.key.dst = y}) = Cardinality(ends(x, y))
  <2> DEFINE meant == {u \in UsesMeant(made) : u[1] # u[2]}
             ends(x, y) == {u \in meant : u[1] = x /\ u[2] = y}
             stored == OfKinds({"uses"})
  <2>1. Grouped(stored, Proper(UseRows(made, RollupState(made))))
      BY <1>1, <1>2
  <2>2. {<<e.key.src, e.key.dst>> : e \in stored} = {<<u[1], u[2]>> : u \in meant}
    <3> HIDE DEF stored
    <3> QED BY <1>1, <2>1, UsesAreMeant
  <2>3. UsesCounted(made, stored)
    <3> HIDE DEF stored
    <3> QED BY <1>1, <2>1, UsesAreCounted
  <2> DEFINE sum(x, y) == SumOf({e \in stored : e.key.src = x /\ e.key.dst = y})
  <2>4. ASSUME NEW x, NEW y PROVE sum(x, y) = Cardinality(ends(x, y))
    <3>1. ends(x, y) = MeantBetween(made, x, y)
        BY DEF MeantBetween
    <3>2. sum(x, y) = SumOf(UsesBetween(stored, x, y))
        BY Zenon DEF UsesBetween
    <3> QED BY <2>3, <3>1, <3>2, Zenon DEF UsesCounted
  <2> HIDE DEF stored, ends, meant, sum
  <2>5. /\ {<<e.key.src, e.key.dst>> : e \in stored} = {<<u[1], u[2]>> : u \in meant}
        /\ \A x, y \in {e.key.src : e \in stored} \union {e.key.dst : e \in stored} :
              sum(x, y) = Cardinality(ends(x, y))
      BY <2>2, <2>4
  <2> QED BY <2>5, Zenon DEF stored, ends, meant, sum
<1>5. LET meant == {i \in InheritanceMeant(made) : i[1] # i[3]}
          stored == OfKinds({"implements", "generalizes"})
          ends(e) == <<e.key.src, e.key.kind, e.key.dst>>
      IN  /\ {ends(e) : e \in stored} = {<<i[1], i[2], i[3]>> : i \in meant}
          /\ \A e \in stored : /\ e.count = 1
                                /\ \E i \in meant : i = ends(e) \o <<e.access>>
  <2> DEFINE stored == OfKinds({"implements", "generalizes"})
  <2>1. Grouped(stored, Proper(InheritanceRows(made, RollupState(made))))
      BY <1>1, <1>2 DEF Bases
  <2> HIDE DEF stored
  <2> QED BY <1>1, <2>1, BasesAreMeant, Zenon DEF stored
<1> QED BY <1>1, <1>3, <1>4, <1>5, Zenon DEF TablesAreOnePass

\* For every layer 0 whose templates have an end and whose methods have one owner: from the
\* commit of a pass that read one layer 0, the entity tables are those of one pass over it --
\* through whatever is re-indexed and the passes that fail, until a deletion takes rows out.
\* Each use is counted once per call edge (materialize_entity_edges).
THEOREM TablesOfOnePass ==
    ASSUME \A db \in Layer0 : Ordinary(db)
    PROVE  RollupSpec => []TablesAreOnePass
<1>1. RollupInit => OnePassInv
    BY OnePassStarts
<1>2. OnePassInv /\ [RollupNext]_rollupVars => OnePassInv'
    BY OnePassStays
<1> QED BY <1>1, <1>2, OnePassTables, PTL DEF RollupSpec

-----------------------------------------------------------------------------
(* implemented_by: the rows of two kinds, one statement each.                 *)

\* What a graph remembers of an entity is its row, as long as the rows stay.
Remembers(N, g) == \A x \in Ids : g.types[x] # None /\ N[x] # None => g.types[x] = N[x]

\* What inherits from s, and which of S is answered.
Implementors(E, s) == (UNION {EndsIn(E, s, k, "in") : k \in Bases}) \ {s}
Told(N, g, S) == \A x \in S : Abstractness(N[x]) \in g.ask.keep => x \in g.answer

\* Of the seed s, a kind is read or still to be read.
Searching(E, N, g, s) ==
    /\ s \in g.seen /\ Told(N, g, g.seen \ {s})
    /\ \A k \in Bases : \/ EndsIn(E, s, k, "in") \subseteq g.seen
                        \/ \E i \in DOMAIN g.walk : /\ g.walk[i].node = s /\ g.walk[i].kind = k
                                                    /\ g.walk[i].dir = "in"

\* A question that implemented_by asks.
ForImplementors(q) == q.dir = "in" /\ q.seeds \in Seq(Ids)

\* The seeds that are not left are answered, but for the one whose walk is on.
Sought(E, N, g) ==
    /\ ForImplementors(g.ask) /\ g.left \in Seq(Ids)
    /\ g.status \in {"next", "walk", "done"}
    /\ g.status = "done" => g.left = << >>
    /\ \A a \in Range(g.ask.seeds) \ Range(g.left) :
          \/ Told(N, g, Implementors(E, a))
          \/ g.status = "walk" /\ Searching(E, N, g, a)
    /\ g.status = "walk" =>
          /\ g.walk \in Seq([node : Ids, depth : Nat, kind : Bases, dir : {"in"}])
          /\ \E s \in Ids : Searching(E, N, g, s) /\ \A i \in DOMAIN g.walk : g.walk[i].node = s

ImplementorsInv ==
    /\ OnePassInv /\ Shape(eg)
    /\ eg.status # "closed" /\ eg.still =>
          /\ Remembers(entity.nodes, eg)
          /\ eg.ask.job = "implemented_by" => Sought(entity.edges, entity.nodes, eg)

\* Reading the type of a node that has a row.
LEMMA WrappedRemembers ==
    ASSUME Remembers(entity.nodes, eg), NEW S
    PROVE  \A x \in Ids : entity.nodes[x] # None =>
              /\ Wrapped(S)[x] # None => Wrapped(S)[x] = entity.nodes[x]
              /\ x \in S => Wrapped(S)[x] = entity.nodes[x]
BY DEF Remembers, Wrapped, TypeRead

LEMMA RemembersStays ==
    ASSUME RollupInv, Shape(eg), Remembers(entity.nodes, eg), GraphStep
    PROVE  Remembers(entity.nodes, eg')
<1>1. eg'.types = eg.types \/ \E S : eg'.types = Wrapped(S)
  <2>1. CASE NextSeed
      BY <2>1, NextSeedFields
  <2>2. CASE Statement
      BY <2>2, StatementFields
  <2>3. CASE EndOfWalk
      BY <2>3, EndOfWalkFields
  <2> QED BY <2>1, <2>2, <2>3 DEF GraphStep
<1>2. CASE eg'.types = eg.types
    BY <1>2 DEF Remembers
<1>3. ASSUME NEW S, eg'.types = Wrapped(S) PROVE Remembers(entity.nodes, eg')
    BY <1>3, WrappedRemembers DEF Remembers
<1> QED BY <1>1, <1>2, <1>3

\* The question is asked: no seed is answered, and none is claimed to be.
LEMMA SoughtStarts ==
    ASSUME NEW q, Ask(q), ForImplementors(q)
    PROVE  /\ Sought(entity'.edges, entity'.nodes, eg')
           /\ Remembers(entity'.nodes, eg')
<1>1. /\ eg'.status = "next" /\ eg'.ask = q /\ eg'.left = q.seeds
      /\ eg'.types = [s \in Ids |-> None]
    BY AskFields
<1> QED BY <1>1 DEF Sought, Remembers, ForImplementors

LEMMA NextSeedSeeks ==
    ASSUME RollupInv, Shape(eg), NextSeed, eg.ask.job = "implemented_by",
           Sought(entity.edges, entity.nodes, eg)
    PROVE  Sought(entity.edges, entity.nodes, eg')
<1> DEFINE E == entity.edges
           N == entity.nodes
           h == Head(eg.left)
<1>1. /\ eg.status = "next" /\ ForImplementors(eg.ask) /\ eg.left \in Seq(Ids)
      /\ eg'.ask = eg.ask /\ eg'.answer = eg.answer
      /\ \A a \in Range(eg.ask.seeds) \ Range(eg.left) : Told(N, eg, Implementors(E, a))
    BY NextSeedFields DEF Sought
<1>2. \A S : Told(N, eg, S) => Told(N, eg', S)
    BY <1>1 DEF Told
<1>3. CASE eg.left = << >>
  <2>1. eg'.status = "done" /\ eg'.left = << >>
      BY <1>3, NextSeedFields
  <2> QED BY <1>1, <1>2, <1>3, <2>1 DEF Sought
<1>4. CASE eg.left # << >>
  <2>1. /\ h \in Ids /\ Tail(eg.left) \in Seq(Ids) /\ Range(eg.left) \subseteq {h} \union Range(Tail(eg.left))
        /\ eg'.left = Tail(eg.left)
    <3>1. eg'.left = Tail(eg.left)
        BY <1>4, NextSeedFields
    <3> DEFINE l == eg.left
    <3>2. l \in Seq(Ids) /\ l # << >>
        BY <1>1, <1>4
    <3> HIDE DEF l
    <3>3. Head(l) \in Ids /\ Tail(l) \in Seq(Ids)
        BY <3>2
    <3>4. ASSUME NEW i \in DOMAIN l PROVE l[i] = Head(l) \/ l[i] \in Range(Tail(l))
      <4>1. CASE i = 1
          BY <3>2, <4>1
      <4>2. CASE i # 1
        <5>1. i - 1 \in DOMAIN Tail(l) /\ Tail(l)[i - 1] = l[i]
            BY <3>2, <4>2
        <5> QED BY <5>1 DEF Range
      <4> QED BY <4>1, <4>2
    <3>5. Range(l) \subseteq {Head(l)} \union Range(Tail(l))
        BY <3>4 DEF Range
    <3> QED BY <3>1, <3>3, <3>5 DEF l
  <2>2. CASE h \notin Present(base)
    <3>1. eg'.status = "next"
        BY <1>4, <2>2, NextSeedFields
    <3>2. \A k : EndsIn(E, h, k, "in") = {}
        BY <2>2, EndsOfTables
    <3>3. Told(N, eg', Implementors(E, h))
        BY <3>2 DEF Told, Implementors
    <3> HIDE DEF E, N, h
    <3>4. Sought(E, N, eg')
        BY <1>1, <1>2, <2>1, <3>1, <3>3 DEF Sought
    <3> QED BY <3>4 DEF E, N
  <2>3. CASE h \in Present(base)
    <3> DEFINE w == Statements(h, 0)
               T == [node : Ids, depth : Nat, kind : Bases, dir : {"in"}]
    <3>1. eg'.status = "walk" /\ eg'.seen = {h} /\ eg'.walk = w
        BY <1>4, <2>3, NextSeedFields
    <3>2. /\ w = <<[node |-> h, depth |-> 0, kind |-> "generalizes", dir |-> "in"],
                   [node |-> h, depth |-> 0, kind |-> "implements", dir |-> "in"]>>
      <4>1. eg.ask.job # "relation" /\ eg.ask.dir = "in"
          BY <1>1 DEF ForImplementors
      <4> QED BY <4>1 DEF Statements
    <3> HIDE DEF w, h, E, N
    <3>3. /\ w \in Seq(T) /\ \A i \in DOMAIN w : w[i].node = h /\ w[i].dir = "in"
          /\ \A k \in Bases : \E i \in DOMAIN w : w[i].kind = k
        BY <2>1, <3>2 DEF Bases
    <3>4. Searching(E, N, eg', h)
        BY <3>1, <3>3 DEF Searching, Told
    <3>5. Sought(E, N, eg')
        BY <1>1, <1>2, <2>1, <3>1, <3>3, <3>4 DEF Sought
    <3> QED BY <3>5 DEF E, N
  <2> QED BY <2>2, <2>3
<1> QED BY <1>3, <1>4

\* The walk of a seed: what its statements have not read yet is in the queue.
LEMMA StatementSeeks ==
    ASSUME RollupInv, Shape(eg), Statement, eg.ask.job = "implemented_by",
           Remembers(entity.nodes, eg), Sought(entity.edges, entity.nodes, eg)
    PROVE  Sought(entity.edges, entity.nodes, eg')
<1> DEFINE E == entity.edges
           N == entity.nodes
           s == Head(eg.walk)
           new == Fresh(s)
           types == Wrapped(new \union {s.node})
           T == [node : Ids, depth : Nat, kind : Bases, dir : {"in"}]
           w == eg.walk
           v == Tail(eg.walk)
<1>1. /\ eg.status = "walk" /\ w # << >> /\ w \in Seq(T)
      /\ ForImplementors(eg.ask) /\ eg.left \in Seq(Ids)
      /\ \A a \in Range(eg.ask.seeds) \ Range(eg.left) :
            Told(N, eg, Implementors(E, a)) \/ Searching(E, N, eg, a)
      /\ \E x \in Ids : Searching(E, N, eg, x) /\ \A i \in DOMAIN w : w[i].node = x
    BY DEF Sought, Statement
<1>2. /\ eg'.types = types /\ eg'.seen = eg.seen \union new
      /\ eg'.answer = eg.answer \union Kept(new, types) /\ eg'.walk = v
      /\ eg'.status = eg.status /\ eg'.ask = eg.ask /\ eg'.left = eg.left
  <2>1. v \o << >> = v
    <3>1. v \in Seq(T)
        BY <1>1
    <3> HIDE DEF v
    <3> QED BY <3>1, ConcatEmptySeq
  <2>2. ~Deeper(s.depth + 1)
      BY DEF Deeper
  <2> QED BY <2>1, <2>2, StatementFields
<1>3. s \in T /\ s = w[1] /\ v \in Seq(T) /\ \A i \in DOMAIN w : w[i] = s \/ \E j \in DOMAIN v : v[j] = w[i]
  <2> HIDE DEF w, T
  <2>1. w \in Seq(T) /\ w # << >>
      BY <1>1
  <2>2. Head(w) \in T /\ Head(w) = w[1] /\ Tail(w) \in Seq(T)
      BY <2>1
  <2>3. ASSUME NEW i \in DOMAIN w, i # 1 PROVE i - 1 \in DOMAIN Tail(w) /\ Tail(w)[i - 1] = w[i]
      BY <2>1, <2>3
  <2> QED BY <2>2, <2>3 DEF w
<1>4. /\ new = EndsIn(E, s.node, s.kind, "in") \ eg.seen
      /\ \A x \in new : x \in Ids /\ N[x] # None /\ types[x] = N[x]
  <2>1. s.dir = "in"
      BY <1>3
  <2>2. new = EndsIn(E, s.node, s.kind, "in") \ eg.seen
      BY <2>1, EndsOfTables DEF Fresh
  <2>3. \A x \in new : x \in Ids /\ N[x] # None
      BY <2>2, EndsOfTables, EndsAreIds
  <2> DEFINE S == new \union {s.node}
  <2>4. \A x \in Ids : N[x] # None => (x \in S => Wrapped(S)[x] = N[x])
      BY WrappedRemembers
  <2> QED BY <2>2, <2>3, <2>4
<1> HIDE DEF E, N, s, new, types, w, v, T
<1>5. Told(N, eg', new)
    BY <1>2, <1>4 DEF Told, Kept
<1>6. \A S : Told(N, eg, S) => Told(N, eg', S)
    BY <1>2 DEF Told
<1>7. ASSUME NEW a, Searching(E, N, eg, a) PROVE Searching(E, N, eg', a)
  <2>1. a \in eg'.seen /\ Told(N, eg', eg'.seen \ {a})
      BY <1>2, <1>5, <1>6, <1>7 DEF Searching, Told
  <2>2. ASSUME NEW k \in Bases
        PROVE  \/ EndsIn(E, a, k, "in") \subseteq eg'.seen
               \/ \E j \in DOMAIN v : v[j].node = a /\ v[j].kind = k /\ v[j].dir = "in"
    <3>1. CASE EndsIn(E, a, k, "in") \subseteq eg.seen
        BY <1>2, <3>1
    <3>2. CASE \E i \in DOMAIN w : w[i].node = a /\ w[i].kind = k /\ w[i].dir = "in"
      <4>1. PICK i \in DOMAIN w : w[i].node = a /\ w[i].kind = k /\ w[i].dir = "in"
          BY <3>2
      <4>2. CASE w[i] = s
          BY <1>2, <1>4, <4>1, <4>2
      <4>3. CASE \E j \in DOMAIN v : v[j] = w[i]
          BY <4>1, <4>3
      <4> QED BY <1>3, <4>2, <4>3
    <3> QED BY <1>7, <3>1, <3>2 DEF Searching, w
  <2> QED BY <1>2, <2>1, <2>2 DEF Searching
<1>8. \E x \in Ids : Searching(E, N, eg', x) /\ \A i \in DOMAIN v : v[i].node = x
  <2>1. PICK x \in Ids : Searching(E, N, eg, x) /\ \A i \in DOMAIN w : w[i].node = x
      BY <1>1
  <2>2. \A i \in DOMAIN v : v[i].node = x
    <3>1. ASSUME NEW i \in DOMAIN v PROVE i + 1 \in DOMAIN w /\ v[i] = w[i + 1]
      <4>1. w \in Seq(T) /\ w # << >> /\ v = Tail(w)
          BY <1>1 DEF v, w
      <4> QED BY <3>1, <4>1
    <3> QED BY <2>1, <3>1
  <2> QED BY <1>7, <2>1, <2>2
<1>9. Sought(E, N, eg')
    BY <1>1, <1>2, <1>3, <1>6, <1>7, <1>8 DEF Sought, T
<1> QED BY <1>9 DEF E, N

LEMMA EndOfWalkSeeks ==
    ASSUME Shape(eg), EndOfWalk, eg.ask.job = "implemented_by",
           Sought(entity.edges, entity.nodes, eg)
    PROVE  Sought(entity.edges, entity.nodes, eg')
<1> DEFINE E == entity.edges
           N == entity.nodes
<1>1. /\ eg.status = "walk" /\ eg.walk = << >> /\ eg'.status = "next"
      /\ eg'.ask = eg.ask /\ eg'.left = eg.left /\ eg'.answer = eg.answer
    BY EndOfWalkFields
<1> HIDE DEF E, N
<1>2. ASSUME NEW a, Searching(E, N, eg, a) PROVE Told(N, eg, Implementors(E, a))
  <2>1. \A k \in Bases : EndsIn(E, a, k, "in") \subseteq eg.seen
      BY <1>1, <1>2 DEF Searching
  <2>2. Implementors(E, a) \subseteq eg.seen \ {a}
      BY <2>1 DEF Implementors
  <2> QED BY <1>2, <2>2 DEF Searching, Told
<1>3. \A S : Told(N, eg, S) => Told(N, eg', S)
    BY <1>1 DEF Told
<1>4. Sought(E, N, eg) => Sought(E, N, eg')
    BY <1>1, <1>2, <1>3 DEF Sought
<1> QED BY <1>4 DEF E, N

LEMMA ImplementorsStay ==
    ASSUME \A db \in Layer0 : Ordinary(db), NEW questions,
           \A q \in questions : q.job = "implemented_by" => ForImplementors(q),
           ImplementorsInv, [GraphNext(questions)]_graphVars
    PROVE  ImplementorsInv'
<1>1. OnePassInv'
  <2>1. [RollupNext]_rollupVars
      BY DEF GraphNext, GraphStep, Ask, NextSeed, Statement, EndOfWalk, graphVars
  <2> QED BY <2>1, OnePassStays DEF ImplementorsInv
<1>2. RollupInv /\ Shape(eg)
      /\ (eg.status # "closed" /\ eg.still =>
             /\ Remembers(entity.nodes, eg)
             /\ eg.ask.job = "implemented_by" => Sought(entity.edges, entity.nodes, eg))
    BY DEF ImplementorsInv, OnePassInv
<1>3. Shape(eg)'
    BY <1>2, ShapeStays
<1> SUFFICES ASSUME eg'.status # "closed", eg'.still
             PROVE  /\ Remembers(entity'.nodes, eg')
                    /\ eg'.ask.job = "implemented_by" => Sought(entity'.edges, entity'.nodes, eg')
    BY <1>1, <1>3 DEF ImplementorsInv
<1>4. CASE eg' = Closed
    BY <1>4 DEF Closed
<1>5. CASE \E q \in questions : Ask(q)
  <2>1. PICK q \in questions : Ask(q)
      BY <1>5
  <2>2. eg'.ask = q /\ eg'.types = [x \in Ids |-> None]
      BY <2>1, AskFields
  <2> QED BY <2>1, <2>2, SoughtStarts DEF Remembers
<1>6. CASE GraphStep
  <2>1. entity' = entity
      BY <1>6 DEF GraphStep, NextSeed, Statement, EndOfWalk, rollupVars
  <2>2. eg'.still = eg.still /\ eg'.ask = eg.ask /\ eg.status # "closed"
      BY <1>2, <1>6, NextSeedFields, StatementFields, EndOfWalkFields DEF GraphStep, Statement
  <2>3. Remembers(entity.nodes, eg')
      BY <1>2, <1>6, <2>2, RemembersStays
  <2>4. eg'.ask.job = "implemented_by" => Sought(entity.edges, entity.nodes, eg')
      BY <1>2, <1>6, <2>2, NextSeedSeeks, StatementSeeks, EndOfWalkSeeks DEF GraphStep
  <2> QED BY <2>1, <2>3, <2>4
<1>7. CASE eg.status \notin {"closed", "done"} /\ RollupNext /\ Watch
  <2>1. /\ eg'.status = eg.status /\ eg'.ask = eg.ask /\ eg'.left = eg.left /\ eg'.walk = eg.walk
        /\ eg'.seen = eg.seen /\ eg'.answer = eg.answer /\ eg'.types = eg.types
        /\ eg.still /\ entity' = entity
      BY <1>2, <1>7, WatchFields
  <2>2. eg.status # "closed"
      BY <1>7
  <2>3. Remembers(entity.nodes, eg')
      BY <1>2, <2>1, <2>2 DEF Remembers
  <2> DEFINE E == entity.edges
             N == entity.nodes
  <2> HIDE DEF E, N
  <2>4. \A a : Searching(E, N, eg, a) => Searching(E, N, eg', a)
      BY <2>1 DEF Searching, Told
  <2>5. \A S : Told(N, eg, S) => Told(N, eg', S)
      BY <2>1 DEF Told
  <2>6. Sought(E, N, eg) => Sought(E, N, eg')
      BY <2>1, <2>4, <2>5 DEF Sought
  <2> QED BY <1>2, <2>1, <2>2, <2>3, <2>6 DEF E, N
<1>8. CASE UNCHANGED graphVars
  <2>1. UNCHANGED <<entity, eg>>
      BY <1>8 DEF graphVars, rollupVars
  <2> QED BY <1>2, <2>1
<1> QED BY <1>4, <1>5, <1>6, <1>7, <1>8 DEF GraphNext

LEMMA ImplementorsAgree == ImplementorsInv => NoImplementorMissed
<1> SUFFICES ASSUME ImplementorsInv, eg.status = "done", eg.still, made = base,
                    eg.ask.job = "implemented_by",
                    NEW s \in Range(eg.ask.seeds), NEW i \in InheritanceMeant(base),
                    i[3] = s, i[1] # s, Abstractness(Derived(base, i[1])) \in eg.ask.keep
             PROVE  i[1] \in eg.answer
    BY DEF NoImplementorMissed
<1> DEFINE E == entity.edges
           N == entity.nodes
<1>1. /\ RollupInv /\ TablesAreOnePass /\ made # None /\ Sound(base)
      /\ N = Nodes(base, RollupState(base)) /\ Sought(E, N, eg)
  <2>1. OnePassInv /\ RollupInv /\ Sound(base)
      BY DEF ImplementorsInv, OnePassInv, RollupInv
  <2>2. made # None
      BY <2>1, Layer0IsSound DEF Sound
  <2> QED BY <2>1, <2>2, OnePassTables DEF ImplementorsInv, RollupInv, TablesOK
<1>2. PICK e \in E : e.key.src = i[1] /\ e.key.kind \in Bases /\ e.key.dst = s
  <2> DEFINE meant == {x \in InheritanceMeant(made) : x[1] # x[3]}
             stored == OfKinds({"implements", "generalizes"})
             ends(e) == <<e.key.src, e.key.kind, e.key.dst>>
  <2>1. {ends(e) : e \in stored} = {<<x[1], x[2], x[3]>> : x \in meant}
      BY <1>1 DEF TablesAreOnePass
  <2>2. i \in meant
      OBVIOUS
  <2> HIDE DEF meant, stored
  <2>3. PICK e \in stored : ends(e) = <<i[1], i[2], i[3]>>
      BY <2>1, <2>2
  <2>4. e \in E /\ e.key.kind \in Bases
      BY DEF stored, OfKinds, Bases
  <2> QED BY <2>3, <2>4
<1>3. i[1] \in Implementors(E, s)
  <2>1. i[1] \in EndsIn(E, s, e.key.kind, "in")
      BY <1>2 DEF EndsIn
  <2> QED BY <1>2, <2>1 DEF Implementors
<1>4. Told(N, eg, Implementors(E, s))
    BY <1>1 DEF Sought, Range
<1>5. Abstractness(N[i[1]]) = Abstractness(Derived(base, i[1]))
  <2> DEFINE x == i[1]
             k == base.kind[x]
  <2>1. N[x] # None /\ x \in Ids
      BY <1>1, <1>2 DEF RollupInv, TablesOK, Stored, Present
  <2>2. k \in NodeKinds \union {"namespace"}
      BY <1>1, <2>1, NodesAreMeant
  <2>3. N[x] = EntityKind(RollupState(base), x, k)
      BY <1>1, <2>1, <2>2 DEF Nodes
  <2>4. CASE k \in NodeKinds
      BY <1>1, <2>1, <2>3, <2>4, DerivedIsMaterialized
  <2>5. CASE k = "namespace"
    <3>1. Derived(base, x) = <<"other", "plain">>
        BY <2>5 DEF Derived
    <3>2. N[x] = <<"namespace", "plain">>
        BY <2>3, <2>5 DEF EntityKind
    <3> QED BY <3>1, <3>2 DEF Abstractness
  <2> QED BY <2>2, <2>4, <2>5
<1> QED BY <1>3, <1>4, <1>5 DEF Told

\* For ordinary layer 0s and questions as implemented_by asks them: if no commit came
\* between its statements, it answers every class that inherits, through an interface or not,
\* whatever other walks, seeds and re-indexes there were (EntityGraph.implemented_by).
THEOREM ImplementorsFound ==
    ASSUME \A db \in Layer0 : Ordinary(db), NEW questions,
           \A q \in questions : q.job = "implemented_by" => ForImplementors(q)
    PROVE  GraphSpec(questions) => []NoImplementorMissed
<1>1. GraphInit => ImplementorsInv
  <2> SUFFICES ASSUME GraphInit PROVE ImplementorsInv
      OBVIOUS
  <2>1. OnePassInv
      BY OnePassStarts DEF GraphInit
  <2>2. Shape(eg) /\ eg.status = "closed"
      BY DEF GraphInit, Closed, Shape
  <2> QED BY <2>1, <2>2 DEF ImplementorsInv
<1>2. ImplementorsInv /\ [GraphNext(questions)]_graphVars => ImplementorsInv'
    BY ImplementorsStay
<1> QED BY <1>1, <1>2, ImplementorsAgree, PTL DEF GraphSpec
=============================================================================
