----------------------------- MODULE UpkeepProofs -----------------------------
(***************************************************************************)
(* Proofs about what happens around an index: a repository and its active      *)
(* clone are parted by add_clone's move and by nothing else that is registered,  *)
(* switched, removed or interrupted (RepoClones), no state of the shared PCH makes a parse fail (PchCache), what *)
(* is stored of a compile command is read as the build's compiler reads it       *)
(* (CompileDb), and an opened database is upgraded completely (Migration).       *)
(***************************************************************************)
EXTENDS RepoClones, PchCache, Migration, DataInduction

\* NextId takes the highest number of a table.
LEMMA MaxIsHighest ==
    ASSUME NEW S, S \subseteq Nat, S # {}, NEW b \in Nat, \A x \in S : x <= b
    PROVE  Max(S) \in S /\ \A x \in S : x <= Max(S)
<1> DEFINE U == {n \in Nat : \A x \in S : x <= n}
<1>1. PICK m \in U : \A n \in U : m <= n
  <2>1. U \subseteq Nat /\ U # {}
      OBVIOUS
  <2> HIDE DEF U
  <2> QED BY <2>1, LeastNumber
<1>2. m \in S
  <2> SUFFICES ASSUME m \notin S PROVE FALSE
      OBVIOUS
  <2>1. PICK x \in S : TRUE
      OBVIOUS
  <2>2. m - 1 \in Nat /\ \A y \in S : y <= m - 1
    <3>1. \A y \in S : y <= m /\ y # m /\ y \in Nat
        BY <1>1
    <3> QED BY <2>1, <3>1, m \in Nat
  <2> QED BY <1>1, <2>2
<1>3. \A x \in S : m >= x
    BY <1>1
<1>4. Max(S) \in S /\ \A x \in S : Max(S) >= x
    BY <1>2, <1>3 DEF Max
<1> QED BY <1>4

-----------------------------------------------------------------------------
(* Rows. *)

\* The rows of a table have numbers of their own.
Keyed(rows) ==
    /\ \E b \in Nat : \A r \in rows : r.id \in 1..b
    /\ \A r, q \in rows : r.id = q.id => r = q

\* NextId: a row that is inserted gets a number that no row has.
LEMMA NextIdIsNew ==
    ASSUME NEW rows, Keyed(rows)
    PROVE  NextId(rows) \in Nat \ {0} /\ \A r \in rows : r.id < NextId(rows) /\ r.id \in Nat
<1>1. PICK b \in Nat : \A r \in rows : r.id \in 1..b
    BY DEF Keyed
<1>2. CASE rows = {}
    BY <1>2 DEF NextId
<1>3. CASE rows # {}
  <2> DEFINE ids == {r.id : r \in rows}
  <2>1. ids \subseteq Nat /\ ids # {} /\ \A x \in ids : x <= b
      BY <1>1, <1>3
  <2>2. Max(ids) \in ids /\ \A x \in ids : x <= Max(ids)
    <3> HIDE DEF ids
    <3> QED BY <2>1, MaxIsHighest
  <2>3. NextId(rows) = 1 + Max(ids)
      BY <1>3 DEF NextId
  <2>4. \A r \in rows : r.id \in ids
      OBVIOUS
  <2> HIDE DEF ids
  <2>5. Max(ids) \in Nat /\ \A r \in rows : r.id \in Nat /\ r.id <= Max(ids)
      BY <2>1, <2>2, <2>4
  <2> QED BY <2>3, <2>5
<1> QED BY <1>2, <1>3

\* e differs from d in its components, files and labels only.
Same(d, e) ==
    /\ e = [repos |-> d.repos, clones |-> d.clones, comps |-> e.comps, files |-> e.files,
            labels |-> e.labels]
    /\ IsFiniteSet(e.comps)

LEMMA Replaces ==
    ASSUME NEW rows, IsFiniteSet(rows), NEW row
    PROVE  IsFiniteSet(Replaced(rows, row))
<1>1. IsFiniteSet({r \in rows : r.id # row.id})
    BY FS_Subset
<1> QED BY <1>1, FS_AddElement DEF Replaced

\* What the writers of components and files have in common.
LEMMA ComponentRowsOnly ==
    ASSUME NEW d, Same(d, d), NEW X, IsFiniteSet(X), NEW Y, NEW e,
           \/ e = [d EXCEPT !.comps = X]
           \/ e = [d EXCEPT !.comps = X, !.files = Y]
    PROVE  Same(d, e)
<1>1. PICK rs, ks, cs, fs, ls :
        d = [repos |-> rs, clones |-> ks, comps |-> cs, files |-> fs, labels |-> ls]
    BY DEF Same
<1>2. CASE e = [d EXCEPT !.comps = X]
  <2>1. e = [repos |-> rs, clones |-> ks, comps |-> X, files |-> fs, labels |-> ls]
      BY <1>1, <1>2
  <2> QED BY <1>1, <2>1 DEF Same
<1>3. CASE e = [d EXCEPT !.comps = X, !.files = Y]
  <2>1. e = [repos |-> rs, clones |-> ks, comps |-> X, files |-> Y, labels |-> ls]
      BY <1>1, <1>3
  <2> QED BY <1>1, <2>1 DEF Same
<1> QED BY <1>2, <1>3

LEMMA ComponentOperations ==
    ASSUME NEW d, Same(d, d)
    PROVE  /\ \A n, p, v : Same(d, AddComponent(d, n, p, v).db)
           /\ \A i, n, v : Same(d, UpdateComponentMeta(d, i, n, v))
           /\ \A i, r : Same(d, SetComponentRepository(d, i, r))
           /\ \A i, r : Same(d, RelativizeComponent(d, i, r))
           /\ \A i : Same(d, DeleteComponent(d, i))
           /\ \A n, v : Same(d, SetComponentVersion(d, n, v))
           /\ \A n, v : Same(d, SetEffectiveVersion(d, n, v))
<1>0. IsFiniteSet(d.comps)
    BY DEF Same
<1>a. ASSUME NEW f, NEW e, e = [d EXCEPT !.comps = {f[c] : c \in d.comps}] PROVE Same(d, e)
  <2> DEFINE X == {f[c] : c \in d.comps}
  <2>1. IsFiniteSet(X) /\ e = [d EXCEPT !.comps = X]
      BY <1>0, <1>a, MapOfFinite
  <2> HIDE DEF X
  <2> QED BY <2>1, ComponentRowsOnly
<1>1. ASSUME NEW n, NEW p, NEW v PROVE Same(d, AddComponent(d, n, p, v).db)
  <2>1. PICK row : AddComponent(d, n, p, v).db = [d EXCEPT !.comps = Replaced(d.comps, row)]
      BY DEF AddComponent
  <2> DEFINE X == Replaced(d.comps, row)
             e == AddComponent(d, n, p, v).db
  <2>2. IsFiniteSet(X) /\ e = [d EXCEPT !.comps = X]
      BY <1>0, <2>1, Replaces
  <2> HIDE DEF X, e
  <2>3. Same(d, e)
      BY <2>2, ComponentRowsOnly
  <2> QED BY <2>3 DEF e
<1>2. ASSUME NEW i, NEW n, NEW v PROVE Same(d, UpdateComponentMeta(d, i, n, v))
  <2> DEFINE f == [c \in d.comps |->
                     IF c.id = i THEN [c EXCEPT !.name = n, !.ver = IF v = None THEN @ ELSE v] ELSE c]
             e == UpdateComponentMeta(d, i, n, v)
  <2>1. e = [d EXCEPT !.comps = {f[c] : c \in d.comps}]
      BY DEF UpdateComponentMeta
  <2> HIDE DEF f, e
  <2>2. Same(d, e)
      BY <1>a, <2>1
  <2> QED BY <2>2 DEF e
<1>3. ASSUME NEW i, NEW r PROVE Same(d, SetComponentRepository(d, i, r))
  <2> DEFINE f == [c \in d.comps |-> IF c.id = i THEN [c EXCEPT !.repo = r] ELSE c]
             e == SetComponentRepository(d, i, r)
  <2>1. e = [d EXCEPT !.comps = {f[c] : c \in d.comps}]
      BY DEF SetComponentRepository
  <2> HIDE DEF f, e
  <2>2. Same(d, e)
      BY <1>a, <2>1
  <2> QED BY <2>2 DEF e
<1>4. ASSUME NEW i, NEW r PROVE Same(d, RelativizeComponent(d, i, r))
  <2> DEFINE f == [c \in d.comps |->
                     IF c.id = i /\ ~c.path.rel /\ SplitBaseVersion(c.path.segs).ver = None
                        /\ IsPrefix(r, c.path.segs)
                     THEN [c EXCEPT !.path =
                             [rel |-> TRUE, segs |-> SubSeq(@.segs, Len(r) + 1, Len(@.segs))]]
                     ELSE c]
             e == RelativizeComponent(d, i, r)
  <2>1. e = [d EXCEPT !.comps = {f[c] : c \in d.comps}]
      BY DEF RelativizeComponent
  <2> HIDE DEF f, e
  <2>2. Same(d, e)
      BY <1>a, <2>1
  <2> QED BY <2>2 DEF e
<1>5. ASSUME NEW i PROVE Same(d, DeleteComponent(d, i))
  <2> DEFINE X == {c \in d.comps : c.id # i}
             Y == {f \in d.files : f.comp # i}
             e == DeleteComponent(d, i)
  <2>1. IsFiniteSet(X)
      BY <1>0, FS_Subset
  <2>2. e = [d EXCEPT !.comps = X, !.files = Y]
      BY DEF DeleteComponent
  <2> HIDE DEF X, Y, e
  <2>3. Same(d, e)
      BY <2>1, <2>2, ComponentRowsOnly
  <2> QED BY <2>3 DEF e
<1>6. ASSUME NEW n, NEW v PROVE Same(d, SetComponentVersion(d, n, v))
  <2> DEFINE f == [c \in d.comps |-> IF c.name = n THEN [c EXCEPT !.ver = v] ELSE c]
             e == SetComponentVersion(d, n, v)
  <2>1. e = [d EXCEPT !.comps = {f[c] : c \in d.comps}]
      BY DEF SetComponentVersion
  <2> HIDE DEF f, e
  <2>2. Same(d, e)
      BY <1>a, <2>1
  <2> QED BY <2>2 DEF e
<1>7. ASSUME NEW n, NEW v PROVE Same(d, SetEffectiveVersion(d, n, v))
  <2> DEFINE rows == {c \in d.comps : c.name = n}
             f == [c \in d.comps |->
                     IF c \notin rows THEN c
                     ELSE IF SplitBaseVersion(c.path.segs).ver = None THEN [c EXCEPT !.ver = v]
                     ELSE [c EXCEPT !.ver = None, !.path.segs = Append(Front(@), v)]]
             e == SetEffectiveVersion(d, n, v)
  <2>1. e = d \/ e = [d EXCEPT !.comps = {f[c] : c \in d.comps}]
      BY DEF SetEffectiveVersion
  <2> HIDE DEF f, e, rows
  <2>2. Same(d, e)
      BY <1>a, <2>1
  <2> QED BY <2>2 DEF e
<1> QED BY <1>1, <1>2, <1>3, <1>4, <1>5, <1>6, <1>7

LEMMA SameIsTransitive ==
    ASSUME NEW d, NEW e, NEW g, Same(d, e), Same(e, g)
    PROVE  Same(d, g)
BY DEF Same

LEMMA SameOfSame == ASSUME NEW d, NEW e, Same(d, e) PROVE Same(e, e)
BY DEF Same

-----------------------------------------------------------------------------
(* Folds: that the recursion has a solution, and what every solution keeps.    *)

LEMMA OneLess ==
    ASSUME NEW S, IsFiniteSet(S), NEW s \in SUBSET S
    PROVE  /\ Cardinality(s) \in Nat
           /\ s # {} => Cardinality(s) # 0
           /\ \A x \in s : s \ {x} \in SUBSET S /\ Cardinality(s \ {x}) = Cardinality(s) - 1
<1>1. IsFiniteSet(s)
    BY FS_Subset
<1>2. Cardinality(s) \in Nat /\ (s # {} => Cardinality(s) # 0)
    BY <1>1, FS_CardinalityType, FS_EmptySet
<1>3. ASSUME NEW x \in s PROVE Cardinality(s \ {x}) = Cardinality(s) - 1
    BY <1>1, FS_RemoveElement
<1> QED BY <1>2, <1>3

\* BumpVersions writes component rows only.
LEMMA BumpKeeps ==
    ASSUME NEW d, Same(d, d), NEW incs, NEW pairs, NEW disk_
    PROVE  Same(d, BumpVersions(d, incs, pairs, disk_))
<1> DEFINE matches == {MatchAlias(p, pairs) : p \in incs} \ {None}
           Seen(n) == {m.ver : m \in {x \in matches : x.name = n}} \ {None}
           index == AliasIndex(d)
           Best(n) == CHOOSE v \in Seen(n) : \A w \in Seen(n) : VersionKey(w) <= VersionKey(v)
           bumped == {n \in DOMAIN index :
                        /\ Seen(n) # {}
                        /\ index[n].max = None \/ VersionKey(Best(n)) > VersionKey(index[n].max)
                        /\ Append(index[n].base, Best(n)) \in disk_}
           it[s \in SUBSET bumped] ==
               IF s = {} THEN d
               ELSE LET x == CHOOSE x \in s : TRUE IN SetEffectiveVersion(it[s \ {x}], x, Best(x))
           Body(h, s) ==
               IF s = {} THEN d
               ELSE LET x == CHOOSE x \in s : TRUE IN SetEffectiveVersion(h[s \ {x}], x, Best(x))
<1>1. BumpVersions(d, incs, pairs, disk_) = it[bumped]
    BY Zenon DEF BumpVersions, FoldSet, MapThenFoldSet
<1>2. IsFiniteSet(bumped)
  <2>1. IsFiniteSet({c.name : c \in d.comps})
    <3> DEFINE f == [c \in d.comps |-> c.name]
    <3>1. {c.name : c \in d.comps} = {f[c] : c \in d.comps}
        OBVIOUS
    <3>2. IsFiniteSet({f[c] : c \in d.comps})
      <4> HIDE DEF f
      <4> QED BY MapOfFinite DEF Same
    <3> QED BY <3>1, <3>2
  <2>2. DOMAIN index \subseteq {c.name : c \in d.comps}
      BY DEF AliasIndex
  <2>3. bumped \in SUBSET {c.name : c \in d.comps}
      BY <2>2
  <2> HIDE DEF bumped
  <2> QED BY <2>1, <2>3, FS_Subset
<1> HIDE DEF bumped, Best
<1>3. \E h : h = [s \in SUBSET bumped |-> Body(h, s)]
  <2> DEFINE Good(h, n) == \A s \in SUBSET bumped : Cardinality(s) <= n => h[s] = Body(h, s)
             T == {n \in Nat : \E h : h = [s \in SUBSET bumped |-> h[s]] /\ Good(h, n)}
  <2>1. 0 \in T
    <3> DEFINE h == [s \in SUBSET bumped |-> d]
    <3>1. ASSUME NEW s \in SUBSET bumped, Cardinality(s) <= 0 PROVE h[s] = Body(h, s)
      <4>1. s = {}
          BY <1>2, <3>1, OneLess
      <4> QED BY <4>1
    <3> QED BY <3>1
  <2>2. ASSUME NEW n \in T \intersect Nat PROVE n + 1 \in T
    <3>1. PICK g : g = [s \in SUBSET bumped |-> g[s]] /\ Good(g, n)
        OBVIOUS
    <3> DEFINE h == [s \in SUBSET bumped |-> Body(g, s)]
    <3>2. h = [s \in SUBSET bumped |-> h[s]] /\ \A s \in SUBSET bumped : h[s] = Body(g, s)
        OBVIOUS
    <3> HIDE DEF h, Body
    <3>3. \A s \in SUBSET bumped : Cardinality(s) <= n => h[s] = g[s]
        BY <3>1, <3>2
    <3>4. ASSUME NEW s \in SUBSET bumped, Cardinality(s) <= n + 1 PROVE h[s] = Body(h, s)
      <4>1. CASE s = {}
          BY <3>2, <4>1 DEF Body
      <4>2. CASE s # {}
        <5> DEFINE x == CHOOSE x \in s : TRUE
                   r == s \ {x}
        <5>1. x \in s
            BY <4>2
        <5>2. Body(g, s) = SetEffectiveVersion(g[r], x, Best(x))
              /\ Body(h, s) = SetEffectiveVersion(h[r], x, Best(x))
            BY <4>2 DEF Body
        <5> HIDE DEF x
        <5>3. r \in SUBSET bumped /\ Cardinality(r) <= n
            BY <1>2, <3>4, <5>1, OneLess
        <5>4. h[r] = g[r]
          <6> HIDE DEF r
          <6> QED BY <3>3, <5>3
        <5> QED BY <3>2, <5>2, <5>4
      <4> QED BY <4>1, <4>2
    <3>5. Good(h, n + 1)
        BY <3>4
    <3> HIDE DEF Good
    <3> QED BY <3>2, <3>5
  <2> HIDE DEF T
  <2>3. Cardinality(bumped) \in T
      BY <1>2, <2>1, <2>2, SetInduction, OneLess
  <2>4. PICK h : h = [s \in SUBSET bumped |-> h[s]] /\ Good(h, Cardinality(bumped))
      BY <2>3 DEF T
  <2>5. \A s \in SUBSET bumped : h[s] = Body(h, s)
      BY <1>2, <2>4, FS_Subset
  <2> QED BY <2>4, <2>5
<1>4. it = [s \in SUBSET bumped |-> Body(it, s)]
    BY <1>3, Zenon DEF it
<1> HIDE DEF it
<1>5. \A s \in SUBSET bumped : it[s] = Body(it, s)
    BY <1>4
<1> DEFINE K == {n \in Nat : \A s \in SUBSET bumped : Cardinality(s) = n => Same(d, it[s])}
<1>6. 0 \in K
  <2> SUFFICES ASSUME NEW s \in SUBSET bumped, Cardinality(s) = 0 PROVE Same(d, it[s])
      OBVIOUS
  <2>1. s = {}
      BY <1>2, OneLess
  <2> QED BY <1>5, <2>1
<1>7. ASSUME NEW n \in K \intersect Nat PROVE n + 1 \in K
  <2> SUFFICES ASSUME NEW s \in SUBSET bumped, Cardinality(s) = n + 1 PROVE Same(d, it[s])
      OBVIOUS
  <2>1. s # {}
      BY FS_EmptySet
  <2> DEFINE x == CHOOSE x \in s : TRUE
             r == s \ {x}
  <2>2. x \in s
      BY <2>1
  <2>3. it[s] = SetEffectiveVersion(it[r], x, Best(x))
      BY <1>5, <2>1
  <2> HIDE DEF x
  <2>4. r \in SUBSET bumped /\ Cardinality(r) = n
      BY <1>2, <2>2, OneLess
  <2>5. Same(d, it[r])
      BY <2>4
  <2> DEFINE e == it[r]
  <2>6. Same(d, e) /\ Same(e, e)
      BY <2>5, SameOfSame
  <2> HIDE DEF e
  <2>7. Same(e, SetEffectiveVersion(e, x, Best(x)))
      BY <2>6, ComponentOperations
  <2>8. Same(d, SetEffectiveVersion(e, x, Best(x)))
      BY <2>6, <2>7, SameIsTransitive
  <2> QED BY <2>3, <2>8 DEF e
<1> HIDE DEF K
<1>8. Cardinality(bumped) \in K
    BY <1>2, <1>6, <1>7, SetInduction, OneLess
<1> QED BY <1>1, <1>8 DEF K

LEMMA RepositoryRemovalKeeps ==
    ASSUME NEW d, Same(d, d), NEW ids, IsFiniteSet(ids)
    PROVE  Same(d, Emptied(d, ids))
<1> DEFINE it[s \in SUBSET ids] ==
               IF s = {} THEN d
               ELSE LET x == CHOOSE x \in s : TRUE IN DeleteComponent(it[s \ {x}], x)
           Body(h, s) ==
               IF s = {} THEN d
               ELSE LET x == CHOOSE x \in s : TRUE IN DeleteComponent(h[s \ {x}], x)
<1>1. Emptied(d, ids) = it[ids]
    BY Zenon DEF Emptied, FoldSet, MapThenFoldSet
<1>3. \E h : h = [s \in SUBSET ids |-> Body(h, s)]
  <2> DEFINE Good(h, n) == \A s \in SUBSET ids : Cardinality(s) <= n => h[s] = Body(h, s)
             T == {n \in Nat : \E h : h = [s \in SUBSET ids |-> h[s]] /\ Good(h, n)}
  <2>1. 0 \in T
    <3> DEFINE h == [s \in SUBSET ids |-> d]
    <3>1. ASSUME NEW s \in SUBSET ids, Cardinality(s) <= 0 PROVE h[s] = Body(h, s)
      <4>1. s = {}
          BY <3>1, OneLess
      <4> QED BY <4>1
    <3> QED BY <3>1
  <2>2. ASSUME NEW n \in T \intersect Nat PROVE n + 1 \in T
    <3>1. PICK g : g = [s \in SUBSET ids |-> g[s]] /\ Good(g, n)
        OBVIOUS
    <3> DEFINE h == [s \in SUBSET ids |-> Body(g, s)]
    <3>2. h = [s \in SUBSET ids |-> h[s]] /\ \A s \in SUBSET ids : h[s] = Body(g, s)
        OBVIOUS
    <3> HIDE DEF h, Body
    <3>3. \A s \in SUBSET ids : Cardinality(s) <= n => h[s] = g[s]
        BY <3>1, <3>2
    <3>4. ASSUME NEW s \in SUBSET ids, Cardinality(s) <= n + 1 PROVE h[s] = Body(h, s)
      <4>1. CASE s = {}
          BY <3>2, <4>1 DEF Body
      <4>2. CASE s # {}
        <5> DEFINE x == CHOOSE x \in s : TRUE
                   r == s \ {x}
        <5>1. x \in s
            BY <4>2
        <5>2. Body(g, s) = DeleteComponent(g[r], x) /\ Body(h, s) = DeleteComponent(h[r], x)
            BY <4>2 DEF Body
        <5> HIDE DEF x
        <5>3. r \in SUBSET ids /\ Cardinality(r) <= n
            BY <3>4, <5>1, OneLess
        <5>4. h[r] = g[r]
          <6> HIDE DEF r
          <6> QED BY <3>3, <5>3
        <5> QED BY <3>2, <5>2, <5>4
      <4> QED BY <4>1, <4>2
    <3>5. Good(h, n + 1)
        BY <3>4
    <3> HIDE DEF Good
    <3> QED BY <3>2, <3>5
  <2> HIDE DEF T
  <2>3. Cardinality(ids) \in T
      BY <2>1, <2>2, SetInduction, OneLess
  <2>4. PICK h : h = [s \in SUBSET ids |-> h[s]] /\ Good(h, Cardinality(ids))
      BY <2>3 DEF T
  <2>5. \A s \in SUBSET ids : h[s] = Body(h, s)
      BY <2>4, FS_Subset
  <2> QED BY <2>4, <2>5
<1>4. it = [s \in SUBSET ids |-> Body(it, s)]
    BY <1>3, Zenon DEF it
<1> HIDE DEF it
<1>5. \A s \in SUBSET ids : it[s] = Body(it, s)
    BY <1>4
<1> DEFINE K == {n \in Nat : \A s \in SUBSET ids : Cardinality(s) = n => Same(d, it[s])}
<1>6. 0 \in K
  <2> SUFFICES ASSUME NEW s \in SUBSET ids, Cardinality(s) = 0 PROVE Same(d, it[s])
      OBVIOUS
  <2>1. s = {}
      BY OneLess
  <2> QED BY <1>5, <2>1
<1>7. ASSUME NEW n \in K \intersect Nat PROVE n + 1 \in K
  <2> SUFFICES ASSUME NEW s \in SUBSET ids, Cardinality(s) = n + 1 PROVE Same(d, it[s])
      OBVIOUS
  <2>1. s # {}
      BY FS_EmptySet
  <2> DEFINE x == CHOOSE x \in s : TRUE
             r == s \ {x}
  <2>2. x \in s
      BY <2>1
  <2>3. it[s] = DeleteComponent(it[r], x)
      BY <1>5, <2>1
  <2> HIDE DEF x
  <2>4. r \in SUBSET ids /\ Cardinality(r) = n
      BY <2>2, OneLess
  <2>5. Same(d, it[r])
      BY <2>4
  <2> DEFINE e == it[r]
  <2>6. Same(d, e) /\ Same(e, e)
      BY <2>5, SameOfSame
  <2> HIDE DEF e
  <2>7. Same(e, DeleteComponent(e, x))
      BY <2>6, ComponentOperations
  <2>8. Same(d, DeleteComponent(e, x))
      BY <2>6, <2>7, SameIsTransitive
  <2> QED BY <2>3, <2>8 DEF e
<1> HIDE DEF K
<1>8. Cardinality(ids) \in K
    BY <1>6, <1>7, SetInduction, OneLess
<1> QED BY <1>1, <1>8 DEF K

\* One command of the database touches components and files only ...
LEMMA ImportCommandKeeps ==
    ASSUME NEW acc, Same(acc.db, acc.db), NEW k, NEW s
    PROVE  Same(acc.db, ImportCommand(acc, k, s).db)
<1> DEFINE split == SplitBaseVersion(k.root)
           lazy == acc.cid = None /\ ComponentForPath(acc.db, s.path) = None
           made == AddComponent(acc.db, k.repo, split.base, split.ver)
           pairs == IF lazy THEN AliasPairs(made.db) ELSE acc.pairs
           bumped == BumpVersions(made.db, {t.inc : t \in ToSet(k.srcs)}, pairs, Disk)
           d == IF lazy THEN bumped ELSE acc.db
           inc == AliasOption(Plain(s.inc), pairs)
<1>1. ImportCommand(acc, k, s).db =
          IF ComponentForPath(d, s.path) = None THEN d ELSE AddFilePath(d, s, inc)
    BY DEF ImportCommand
<1>2. Same(acc.db, made.db) /\ Same(made.db, made.db)
  <2> HIDE DEF split
  <2>1. Same(acc.db, made.db)
      BY ComponentOperations
  <2> HIDE DEF made
  <2> QED BY <2>1, SameOfSame
<1> HIDE DEF made, pairs
<1>3. Same(made.db, bumped)
    BY <1>2, BumpKeeps
<1> HIDE DEF bumped
<1>4. Same(acc.db, d) /\ Same(d, d)
  <2>1. Same(acc.db, bumped)
      BY <1>2, <1>3, SameIsTransitive
  <2>2. Same(acc.db, d)
      BY <2>1
  <2> HIDE DEF d
  <2> QED BY <2>2, SameOfSame
<1> HIDE DEF d, inc
<1>5. Same(d, AddFilePath(d, s, inc))
  <2> DEFINE e == AddFilePath(d, s, inc)
  <2>1. \E Y : e = [d EXCEPT !.files = Y]
      BY DEF AddFilePath
  <2>2. PICK Y : e = [d EXCEPT !.files = Y]
      BY <2>1
  <2> HIDE DEF e
  <2>3. PICK rs, ks, cs, fs, ls :
            d = [repos |-> rs, clones |-> ks, comps |-> cs, files |-> fs, labels |-> ls]
      BY <1>4 DEF Same
  <2>4. e = [repos |-> rs, clones |-> ks, comps |-> cs, files |-> Y, labels |-> ls]
      BY <2>2, <2>3
  <2>5. Same(d, e)
      BY <1>4, <2>3, <2>4 DEF Same
  <2> QED BY <2>5 DEF e
<1>6. Same(acc.db, AddFilePath(d, s, inc))
    BY <1>4, <1>5, SameIsTransitive
<1> QED BY <1>1, <1>4, <1>6

\* What the transaction of an import makes of d.
Imported(d, k, pairs, seq) ==
    FoldLeft(LAMBDA acc, s : ImportCommand(acc, k, s),
             [db |-> d, cid |-> None, pairs |-> pairs], seq)

\* ... and so does the whole transaction.
LEMMA ImportFilesKeeps ==
    ASSUME NEW d, Same(d, d), NEW k, NEW pairs, NEW seq, NEW len \in Nat, DOMAIN seq = 1..len
    PROVE  Same(d, Imported(d, k, pairs, seq).db)
<1> DEFINE base == [db |-> d, cid |-> None, pairs |-> pairs]
           ids == DOMAIN seq
           it[s \in SUBSET ids] ==
               IF s = {} THEN base
               ELSE LET x == Max(s) IN ImportCommand(it[s \ {x}], k, seq[x])
           Body(h, s) ==
               IF s = {} THEN base
               ELSE LET x == Max(s) IN ImportCommand(h[s \ {x}], k, seq[x])
<1>1. Imported(d, k, pairs, seq) = it[ids]
    BY Zenon DEF Imported, FoldLeft, MapThenFoldSet
<1>0. ids = 1..len
    OBVIOUS
<1> HIDE DEF base, ids
<1>2. IsFiniteSet(ids) /\ \A s \in SUBSET ids : s # {} => Max(s) \in s
  <2>1. IsFiniteSet(ids)
      BY <1>0, FS_Interval
  <2>2. ASSUME NEW s \in SUBSET ids, s # {} PROVE Max(s) \in s
    <3>1. s \subseteq Nat /\ \A x \in s : x <= len
        BY <1>0
    <3> QED BY <2>2, <3>1, MaxIsHighest
  <2> QED BY <2>1, <2>2
<1>3. \E h : h = [s \in SUBSET ids |-> Body(h, s)]
  <2> DEFINE Good(h, n) == \A s \in SUBSET ids : Cardinality(s) <= n => h[s] = Body(h, s)
             T == {n \in Nat : \E h : h = [s \in SUBSET ids |-> h[s]] /\ Good(h, n)}
  <2>1. 0 \in T
    <3> DEFINE h == [s \in SUBSET ids |-> base]
    <3>1. ASSUME NEW s \in SUBSET ids, Cardinality(s) <= 0 PROVE h[s] = Body(h, s)
      <4>1. s = {}
          BY <1>2, <3>1, OneLess
      <4> QED BY <4>1
    <3> QED BY <3>1
  <2>2. ASSUME NEW n \in T \intersect Nat PROVE n + 1 \in T
    <3>1. PICK g : g = [s \in SUBSET ids |-> g[s]] /\ Good(g, n)
        OBVIOUS
    <3> DEFINE h == [s \in SUBSET ids |-> Body(g, s)]
    <3>2. h = [s \in SUBSET ids |-> h[s]] /\ \A s \in SUBSET ids : h[s] = Body(g, s)
        OBVIOUS
    <3> HIDE DEF h, Body
    <3>3. \A s \in SUBSET ids : Cardinality(s) <= n => h[s] = g[s]
        BY <3>1, <3>2
    <3>4. ASSUME NEW s \in SUBSET ids, Cardinality(s) <= n + 1 PROVE h[s] = Body(h, s)
      <4>1. CASE s = {}
          BY <3>2, <4>1 DEF Body
      <4>2. CASE s # {}
        <5> DEFINE x == Max(s)
                   r == s \ {x}
        <5>1. x \in s
            BY <1>2, <4>2
        <5>2. Body(g, s) = ImportCommand(g[r], k, seq[x])
              /\ Body(h, s) = ImportCommand(h[r], k, seq[x])
            BY <4>2 DEF Body
        <5> HIDE DEF x
        <5>3. r \in SUBSET ids /\ Cardinality(r) <= n
            BY <1>2, <3>4, <5>1, OneLess
        <5>4. h[r] = g[r]
          <6> HIDE DEF r
          <6> QED BY <3>3, <5>3
        <5> QED BY <3>2, <5>2, <5>4
      <4> QED BY <4>1, <4>2
    <3>5. Good(h, n + 1)
        BY <3>4
    <3> HIDE DEF Good
    <3> QED BY <3>2, <3>5
  <2> HIDE DEF T
  <2>3. Cardinality(ids) \in T
      BY <1>2, <2>1, <2>2, SetInduction, OneLess
  <2>4. PICK h : h = [s \in SUBSET ids |-> h[s]] /\ Good(h, Cardinality(ids))
      BY <2>3 DEF T
  <2>5. \A s \in SUBSET ids : h[s] = Body(h, s)
      BY <1>2, <2>4, FS_Subset
  <2> QED BY <2>4, <2>5
<1>4. it = [s \in SUBSET ids |-> Body(it, s)]
    BY <1>3, Zenon DEF it
<1> HIDE DEF it
<1>5. \A s \in SUBSET ids : it[s] = Body(it, s)
    BY <1>4
<1> DEFINE K == {n \in Nat : \A s \in SUBSET ids : Cardinality(s) = n => Same(d, it[s].db)}
<1>6. 0 \in K
  <2> SUFFICES ASSUME NEW s \in SUBSET ids, Cardinality(s) = 0 PROVE Same(d, it[s].db)
      OBVIOUS
  <2>1. s = {}
      BY <1>2, OneLess
  <2>2. it[s] = base
      BY <1>5, <2>1
  <2> QED BY <2>2 DEF base
<1>7. ASSUME NEW n \in K \intersect Nat PROVE n + 1 \in K
  <2> SUFFICES ASSUME NEW s \in SUBSET ids, Cardinality(s) = n + 1 PROVE Same(d, it[s].db)
      OBVIOUS
  <2>1. s # {}
      BY <1>2, n + 1 # 0, FS_EmptySet
  <2> DEFINE x == Max(s)
             r == s \ {x}
  <2>2. x \in s
      BY <1>2, <2>1
  <2>3. it[s] = ImportCommand(it[r], k, seq[x])
      BY <1>5, <2>1
  <2> HIDE DEF x
  <2>4. r \in SUBSET ids /\ Cardinality(r) = n
      BY <1>2, <2>2, OneLess
  <2>5. Same(d, it[r].db)
      BY <2>4
  <2> DEFINE e == it[r]
  <2>6. Same(d, e.db) /\ Same(e.db, e.db)
      BY <2>5, SameOfSame
  <2> HIDE DEF e
  <2>7. Same(e.db, ImportCommand(e, k, seq[x]).db)
      BY <2>6, ImportCommandKeeps
  <2>8. Same(d, ImportCommand(e, k, seq[x]).db)
      BY <2>6, <2>7, SameIsTransitive
  <2> QED BY <2>3, <2>8 DEF e
<1> HIDE DEF K
<1>8. Cardinality(ids) \in K
    BY <1>2, <1>6, <1>7, SetInduction, OneLess
<1> QED BY <1>1, <1>8 DEF K, base

-----------------------------------------------------------------------------
(* OnlyMovesEstrange.  No foreign key keeps the pointer of a repository to its   *)
(* active clone: what keeps it is that clones have numbers of their own, that a   *)
(* number is found with its repository in the import that makes it active, and    *)
(* that the removal of a clone clears the pointers to it.                        *)

\* What the rows of a database d are.
RowsAgree(d) ==
    /\ Same(d, d)
    /\ Keyed(d.clones)
    /\ \A r \in d.repos : r = [id |-> r.id, name |-> r.name, active |-> r.active]
    /\ \A k \in d.clones : k = [id |-> k.id, repo |-> k.repo, path |-> k.path]

\* The database d has a clone of repository rid with number kid.
Has(d, rid, kid) == \E k \in d.clones : k.id = kid /\ k.repo = rid

\* The job j has found in d the clone that its next statement makes active.
JobAgrees(d, j) ==
    j # None =>
        /\ j = [cmd |-> j.cmd, k |-> j.k, repo |-> j.repo, step |-> j.step, cid |-> j.cid,
                rid |-> j.rid, kid |-> j.kid, pairs |-> j.pairs, todo |-> j.todo, seen |-> j.seen]
        /\ j.k \in Checkouts
        /\ j.step = "activate" => Has(d, j.rid, j.kid)

CloneInv == RowsAgree(db) /\ JobAgrees(db, job)

\* A step that keeps the invariant and parts no repository from its clone but by a move.
GoesWell == CloneInv' /\ OnlyByMove(db, db')

LEMMA SameRowsOnlyMove ==
    ASSUME NEW d, NEW e, e.repos = d.repos, e.clones = d.clones
    PROVE  OnlyByMove(d, e)
<1> SUFFICES ASSUME NEW r \in e.repos, Estranged(e, r) PROVE WasEstranged(d, r)
    BY DEF OnlyByMove
<1>1. Estranged(d, r)
    BY DEF Estranged
<1> QED BY <1>1 DEF WasEstranged

LEMMA SameAgrees ==
    ASSUME NEW d, NEW e, RowsAgree(d), Same(d, e)
    PROVE  RowsAgree(e) /\ e.repos = d.repos /\ e.clones = d.clones /\ OnlyByMove(d, e)
<1>1. e.repos = d.repos /\ e.clones = d.clones
    BY DEF Same
<1>2. Same(e, e)
    BY SameOfSame
<1> QED BY <1>1, <1>2, SameRowsOnlyMove DEF RowsAgree

\* add_repository: a repository that is made has no active clone.
LEMMA AddsRepository ==
    ASSUME NEW d, RowsAgree(d), NEW name
    PROVE  LET added == AddRepository(d, name) IN RowsAgree(added.db) /\ OnlyByMove(d, added.db)
<1> DEFINE same == {r \in d.repos : r.name = name}
           row == [id |-> NextId(d.repos), name |-> name, active |-> None]
           e == [d EXCEPT !.repos = @ \union {row}]
<1>1. CASE same # {}
  <2>1. AddRepository(d, name).db = d
      BY <1>1 DEF AddRepository
  <2> QED BY <2>1, SameRowsOnlyMove
<1>2. CASE same = {}
  <2>1. AddRepository(d, name).db = e
      BY <1>2 DEF AddRepository
  <2>2. PICK rs, ks, cs, fs, ls :
            d = [repos |-> rs, clones |-> ks, comps |-> cs, files |-> fs, labels |-> ls]
      BY DEF RowsAgree, Same
  <2>3. e = [repos |-> rs \union {row}, clones |-> ks, comps |-> cs, files |-> fs, labels |-> ls]
      BY <2>2
  <2>4. Same(e, e)
      BY <2>2, <2>3 DEF RowsAgree, Same
  <2>5. row = [id |-> row.id, name |-> row.name, active |-> row.active] /\ row.active = None
      OBVIOUS
  <2> HIDE DEF row, e
  <2>6. RowsAgree(e)
      BY <2>2, <2>3, <2>4, <2>5 DEF RowsAgree
  <2>7. ASSUME NEW r \in e.repos, Estranged(e, r) PROVE WasEstranged(d, r)
    <3>1. r \in rs
        BY <2>3, <2>5, <2>7 DEF Estranged
    <3>2. Estranged(d, r)
        BY <2>2, <2>3, <2>7 DEF Estranged
    <3> QED BY <2>2, <3>1, <3>2 DEF WasEstranged
  <2>8. OnlyByMove(d, e)
      BY <2>7 DEF OnlyByMove
  <2> QED BY <2>1, <2>6, <2>8
<1> QED BY <1>1, <1>2

\* add_clone: a path that is registered already moves, number and all.
LEMMA AddsClone ==
    ASSUME NEW d, RowsAgree(d), NEW rid, NEW path
    PROVE  LET added == AddClone(d, rid, path)
           IN  /\ RowsAgree(added.db) /\ Has(added.db, rid, added.id)
               /\ OnlyByMove(d, added.db)
<1> DEFINE same == {x \in d.clones : x.path = path}
           row == IF same = {} THEN [id |-> NextId(d.clones), repo |-> rid, path |-> path]
                               ELSE [(CHOOSE x \in same : TRUE) EXCEPT !.repo = rid]
           e == [d EXCEPT !.clones = Replaced(@, row)]
<1>1. AddClone(d, rid, path) = [db |-> e, id |-> row.id]
    BY DEF AddClone
<1>2. PICK rs, ks, cs, fs, ls :
          d = [repos |-> rs, clones |-> ks, comps |-> cs, files |-> fs, labels |-> ls]
    BY DEF RowsAgree, Same
<1>3. e = [repos |-> rs, clones |-> Replaced(ks, row), comps |-> cs, files |-> fs, labels |-> ls]
    BY <1>2
<1>4. Same(e, e)
    BY <1>2, <1>3 DEF RowsAgree, Same
<1>5. /\ row = [id |-> row.id, repo |-> rid, path |-> row.path] /\ row.repo = rid
      /\ \A k \in ks : k.id = row.id => k.path = row.path
      /\ Keyed(Replaced(ks, row))
  <2>1. CASE same # {}
    <3> DEFINE x == CHOOSE x \in same : TRUE
    <3>1. x \in same /\ row = [x EXCEPT !.repo = rid]
        BY <2>1
    <3> HIDE DEF x, row
    <3>2. x \in ks
        BY <1>2, <3>1
    <3>3. x = [id |-> x.id, repo |-> x.repo, path |-> x.path]
        BY <1>2, <3>2 DEF RowsAgree
    <3>4. row = [id |-> x.id, repo |-> rid, path |-> x.path]
        BY <3>1, <3>3
    <3>5. row.id = x.id /\ row.path = x.path /\ row.repo = rid
        BY <3>4
    <3>6. \A k \in ks : k.id = row.id => k = x
        BY <1>2, <3>2, <3>5 DEF RowsAgree, Keyed
    <3>7. Keyed(Replaced(ks, row))
      <4>1. PICK b \in Nat : \A k \in ks : k.id \in 1..b
          BY <1>2 DEF RowsAgree, Keyed
      <4>2. \A k \in Replaced(ks, row) : k.id \in 1..b
          BY <3>2, <3>5, <4>1 DEF Replaced
      <4> QED BY <1>2, <4>1, <4>2 DEF RowsAgree, Keyed, Replaced
    <3> QED BY <3>4, <3>5, <3>6, <3>7
  <2>2. CASE same = {}
    <3>1. row = [id |-> NextId(ks), repo |-> rid, path |-> path]
        BY <1>2, <2>2
    <3> HIDE DEF row
    <3>2. row.id = NextId(ks) /\ row.repo = rid /\ row.path = path
        BY <3>1
    <3>3. NextId(ks) \in Nat \ {0} /\ \A x \in ks : x.id < NextId(ks) /\ x.id \in Nat
        BY <1>2, NextIdIsNew DEF RowsAgree
    <3>4. \A x \in ks : x.id # row.id
        BY <3>2, <3>3
    <3>5. Replaced(ks, row) = ks \union {row}
        BY <3>4 DEF Replaced
    <3>6. Keyed(ks \union {row})
      <4>1. \A x \in ks : x.id \in 1..row.id
        <5>1. PICK b \in Nat : \A x \in ks : x.id \in 1..b
            BY <1>2 DEF RowsAgree, Keyed
        <5> QED BY <3>2, <3>3, <5>1
      <4>2. row.id \in 1..row.id /\ row.id \in Nat
          BY <3>2, <3>3
      <4> QED BY <1>2, <3>4, <4>1, <4>2 DEF RowsAgree, Keyed
    <3> QED BY <3>1, <3>2, <3>4, <3>5, <3>6
  <2> QED BY <2>1, <2>2
<1> HIDE DEF row, e
<1>6. RowsAgree(e)
  <2>1. \A k \in Replaced(ks, row) : k = [id |-> k.id, repo |-> k.repo, path |-> k.path]
      BY <1>2, <1>5 DEF Replaced, RowsAgree
  <2> QED BY <1>2, <1>3, <1>4, <1>5, <2>1 DEF RowsAgree
<1>7. row \in e.clones
    BY <1>3 DEF Replaced
<1>8. Has(e, rid, row.id)
    BY <1>5, <1>7 DEF Has
<1>9. ASSUME NEW r \in e.repos, Estranged(e, r), ~WasEstranged(d, r) PROVE MovedAway(d, e, r)
  <2>1. ~Estranged(d, r)
      BY <1>2, <1>3, <1>9 DEF WasEstranged
  <2>2. PICK k \in ks : k.id = r.active /\ k.repo = r.id
      BY <1>2, <1>9, <2>1 DEF Estranged
  <2>3. k.id = row.id
      BY <1>3, <1>9, <2>2 DEF Estranged, Replaced
  <2>4. row.repo # r.id
      BY <1>7, <1>9, <2>2, <2>3 DEF Estranged
  <2> QED BY <1>2, <1>5, <1>7, <2>2, <2>3, <2>4 DEF MovedAway
<1>10. OnlyByMove(d, e)
    BY <1>9 DEF OnlyByMove
<1> QED BY <1>1, <1>6, <1>8, <1>10

\* set_active_clone, of a clone of the repository.
LEMMA SetsActive ==
    ASSUME NEW d, RowsAgree(d), NEW rid, NEW kid, Has(d, rid, kid), NEW c, OnlyByMove(c, d)
    PROVE  RowsAgree(SetActiveClone(d, rid, kid)) /\ OnlyByMove(c, SetActiveClone(d, rid, kid))
<1> DEFINE row(r) == IF r.id = rid THEN [r EXCEPT !.active = kid] ELSE r
           e == SetActiveClone(d, rid, kid)
<1>1. PICK rs, ks, cs, fs, ls :
          d = [repos |-> rs, clones |-> ks, comps |-> cs, files |-> fs, labels |-> ls]
    BY DEF RowsAgree, Same
<1>2. e = [repos |-> {row(r) : r \in rs}, clones |-> ks, comps |-> cs, files |-> fs, labels |-> ls]
  <2> DEFINE X == {row(r) : r \in d.repos}
  <2>1. e = [d EXCEPT !.repos = X]
      BY DEF SetActiveClone
  <2>2. X = {row(r) : r \in rs}
      BY <1>1
  <2> HIDE DEF X, row, e
  <2> QED BY <1>1, <2>1, <2>2
<1>3. \A r \in rs :
          /\ row(r) = [id |-> row(r).id, name |-> row(r).name, active |-> row(r).active]
          /\ r.id = rid => row(r).id = rid /\ row(r).active = kid
          /\ r.id # rid => row(r) = r
  <2> TAKE r \in rs
  <2>1. r = [id |-> r.id, name |-> r.name, active |-> r.active]
      BY <1>1 DEF RowsAgree
  <2>2. CASE r.id = rid
    <3>1. row(r) = [id |-> r.id, name |-> r.name, active |-> kid]
        BY <2>1, <2>2
    <3> HIDE DEF row
    <3> QED BY <2>2, <3>1
  <2>3. CASE r.id # rid
      BY <2>1, <2>3
  <2> QED BY <2>2, <2>3
<1> HIDE DEF row, e
<1>4. Same(e, e)
    BY <1>1, <1>2 DEF RowsAgree, Same
<1>5. RowsAgree(e)
    BY <1>1, <1>2, <1>3, <1>4 DEF RowsAgree
<1>6. e.clones = d.clones
    BY <1>1, <1>2
<1>7. ASSUME NEW q \in e.repos, Estranged(e, q) PROVE WasEstranged(c, q) \/ MovedAway(c, e, q)
  <2>1. PICK r \in rs : q = row(r)
      BY <1>2
  <2>2. r.id # rid
      BY <1>3, <1>6, <1>7, <2>1 DEF Estranged, Has
  <2>3. q = r /\ q \in d.repos
      BY <1>1, <1>3, <2>1, <2>2
  <2>4. Estranged(d, q)
      BY <1>6, <1>7 DEF Estranged
  <2>5. WasEstranged(c, q) \/ MovedAway(c, d, q)
      BY <2>3, <2>4 DEF OnlyByMove
  <2> QED BY <1>6, <2>5 DEF MovedAway
<1>8. OnlyByMove(c, e)
    BY <1>7 DEF OnlyByMove
<1> QED BY <1>5, <1>8 DEF e

\* delete_clone clears the pointers to it.
LEMMA DeletesClone ==
    ASSUME NEW d, RowsAgree(d), NEW kid
    PROVE  RowsAgree(DeleteClone(d, kid)) /\ OnlyByMove(d, DeleteClone(d, kid))
<1> DEFINE row(r) == IF r.active = kid THEN [r EXCEPT !.active = None] ELSE r
           left == {k \in d.clones : k.id # kid}
           e == DeleteClone(d, kid)
<1>1. PICK rs, ks, cs, fs, ls :
          d = [repos |-> rs, clones |-> ks, comps |-> cs, files |-> fs, labels |-> ls]
    BY DEF RowsAgree, Same
<1>2. e = [repos |-> {row(r) : r \in rs}, clones |-> left, comps |-> cs, files |-> fs, labels |-> ls]
  <2> DEFINE X == {row(r) : r \in d.repos}
  <2>1. e = [d EXCEPT !.repos = X, !.clones = left]
      BY DEF DeleteClone
  <2>2. X = {row(r) : r \in rs}
      BY <1>1
  <2> HIDE DEF X, row, e, left
  <2> QED BY <1>1, <2>1, <2>2
<1>3. \A r \in rs :
          /\ row(r) = [id |-> row(r).id, name |-> row(r).name, active |-> row(r).active]
          /\ r.active = kid => row(r).active = None
          /\ r.active # kid => row(r) = r
  <2> TAKE r \in rs
  <2>1. r = [id |-> r.id, name |-> r.name, active |-> r.active]
      BY <1>1 DEF RowsAgree
  <2>2. CASE r.active = kid
    <3>1. row(r) = [id |-> r.id, name |-> r.name, active |-> None]
        BY <2>1, <2>2
    <3> HIDE DEF row
    <3> QED BY <2>2, <3>1
  <2>3. CASE r.active # kid
      BY <2>1, <2>3
  <2> QED BY <2>2, <2>3
<1>4. left = {k \in ks : k.id # kid}
    BY <1>1
<1> HIDE DEF row, e, left
<1>5. Same(e, e)
    BY <1>1, <1>2 DEF RowsAgree, Same
<1>6. Keyed(left)
    BY <1>1, <1>4 DEF RowsAgree, Keyed
<1>7. RowsAgree(e)
    BY <1>1, <1>2, <1>3, <1>4, <1>5, <1>6 DEF RowsAgree
<1>8. ASSUME NEW q \in e.repos, Estranged(e, q) PROVE WasEstranged(d, q)
  <2>1. PICK r \in rs : q = row(r)
      BY <1>2
  <2>2. r.active # kid /\ q = r
      BY <1>3, <1>8, <2>1 DEF Estranged
  <2>3. \A k \in ks : k.id = q.active => k \in e.clones
      BY <1>2, <1>4, <2>2
  <2>4. Estranged(d, q)
      BY <1>1, <1>8, <2>3 DEF Estranged
  <2> QED BY <1>1, <2>2, <2>4 DEF WasEstranged
<1>9. OnlyByMove(d, e)
    BY <1>8 DEF OnlyByMove
<1> QED BY <1>7, <1>9 DEF e

\* delete_repository: the clones that go are those of the repository that goes.
LEMMA DeletesRepository ==
    ASSUME NEW d, RowsAgree(d), NEW rid, NEW c, c.repos = d.repos, c.clones = d.clones
    PROVE  RowsAgree(DeleteRepository(d, rid)) /\ OnlyByMove(c, DeleteRepository(d, rid))
<1> DEFINE e == DeleteRepository(d, rid)
           kept == {r \in d.repos : r.id # rid}
           left == {k \in d.clones : k.repo # rid}
           f == [x \in d.comps |-> IF x.repo = rid THEN [x EXCEPT !.repo = None] ELSE x]
           comps == {f[x] : x \in d.comps}
<1>1. PICK rs, ks, cs, fs, ls :
          d = [repos |-> rs, clones |-> ks, comps |-> cs, files |-> fs, labels |-> ls]
    BY DEF RowsAgree, Same
<1>2. e = [d EXCEPT !.repos = kept, !.clones = left, !.comps = comps]
    BY DEF DeleteRepository
<1>3. IsFiniteSet(comps)
  <2> HIDE DEF f
  <2> QED BY MapOfFinite DEF RowsAgree, Same
<1>4. kept = {r \in rs : r.id # rid} /\ left = {k \in ks : k.repo # rid}
    BY <1>1
<1> HIDE DEF e, kept, left, comps
<1>5. e = [repos |-> kept, clones |-> left, comps |-> comps, files |-> fs, labels |-> ls]
    BY <1>1, <1>2
<1>6. Same(e, e)
    BY <1>3, <1>5 DEF Same
<1>7. Keyed(left)
    BY <1>1, <1>4 DEF RowsAgree, Keyed
<1>8. RowsAgree(e)
    BY <1>1, <1>4, <1>5, <1>6, <1>7 DEF RowsAgree
<1>9. ASSUME NEW r \in e.repos, Estranged(e, r) PROVE WasEstranged(c, r)
  <2>1. r \in rs /\ r.id # rid
      BY <1>4, <1>5
  <2>2. \A k \in ks : k.repo = r.id => k \in e.clones
      BY <1>4, <1>5, <2>1
  <2>3. Estranged(c, r)
      BY <1>1, <1>9, <2>2 DEF Estranged
  <2> QED BY <1>1, <2>1, <2>3 DEF WasEstranged
<1>10. OnlyByMove(c, e)
    BY <1>9 DEF OnlyByMove
<1> QED BY <1>8, <1>10 DEF e

LEMMA LabelsOrFilesOnly ==
    ASSUME NEW d, Same(d, d), NEW X, NEW e, e = [d EXCEPT !.labels = X] \/ e = [d EXCEPT !.files = X]
    PROVE  Same(d, e)
<1>1. PICK rs, ks, cs, fs, ls :
        d = [repos |-> rs, clones |-> ks, comps |-> cs, files |-> fs, labels |-> ls]
    BY DEF Same
<1>2. CASE e = [d EXCEPT !.labels = X]
  <2>1. e = [repos |-> rs, clones |-> ks, comps |-> cs, files |-> fs, labels |-> X]
      BY <1>1, <1>2
  <2> QED BY <1>1, <2>1 DEF Same
<1>3. CASE e = [d EXCEPT !.files = X]
  <2>1. e = [repos |-> rs, clones |-> ks, comps |-> cs, files |-> X, labels |-> ls]
      BY <1>1, <1>3
  <2> QED BY <1>1, <2>1 DEF Same
<1> QED BY <1>2, <1>3

\* A commit that leaves a database and a job that agree goes well, so does one that fails.
LEMMA CommitKeeps ==
    ASSUME CloneInv, NEW d, NEW j, Commits(d, j), RowsAgree(d), JobAgrees(d, j), OnlyByMove(db, d)
    PROVE  GoesWell
<1>1. (db' = db /\ job' = None) \/ (db' = d /\ job' = j)
    BY DEF Commits
<1>2. CASE db' = db /\ job' = None
  <2>1. OnlyByMove(db, db)
      BY SameRowsOnlyMove
  <2> QED BY <1>2, <2>1 DEF CloneInv, JobAgrees, GoesWell
<1>3. CASE db' = d /\ job' = j
    BY <1>3 DEF CloneInv, GoesWell
<1> QED BY <1>1, <1>2, <1>3

\* So does a command, after each of its commits.
LEMMA CommandKeeps ==
    ASSUME CloneInv, NEW commits, Command(commits),
           \A d \in commits : RowsAgree(d) /\ OnlyByMove(db, d)
    PROVE  GoesWell
<1>1. db' \in commits /\ job' = job /\ job = None
    BY DEF Command, Starts
<1>2. RowsAgree(db') /\ OnlyByMove(db, db')
    BY <1>1
<1> QED BY <1>1, <1>2 DEF CloneInv, JobAgrees, GoesWell

\* A job that goes on with another step, of those that use no rows it has found.
LEMMA JobGoesOn ==
    ASSUME NEW d, NEW e, NEW j, JobAgrees(d, j), j # None, NEW next_, NEW step,
           step # "activate",
           next_ = [j EXCEPT !.step = step]
    PROVE  JobAgrees(e, next_)
<1>1. PICK a1, a2, a3, a4, a5, a6, a7, a8, a9, a10 :
         j = [cmd |-> a1, k |-> a2, step |-> a3, cid |-> a4, rid |-> a5,
                kid |-> a6, pairs |-> a7, todo |-> a8, seen |-> a9, repo |-> a10]
    BY DEF JobAgrees
<1>2. next_ = [cmd |-> a1, k |-> a2, step |-> step, cid |-> a4, rid |-> a5,
                kid |-> a6, pairs |-> a7, todo |-> a8, seen |-> a9, repo |-> a10]
    BY <1>1
<1>3. a2 \in Checkouts
    BY <1>1 DEF JobAgrees
<1> QED BY <1>2, <1>3 DEF JobAgrees

LEMMA NewJobAgrees ==
    ASSUME NEW d, NEW cmd, NEW k \in Checkouts, NEW name, NEW step, NEW cid, NEW pairs,
           step # "activate"
    PROVE  JobAgrees(d, NewJob(cmd, k, name, step, cid, pairs))
BY DEF JobAgrees, NewJob

LEMMA ImportStarts ==
    ASSUME CloneInv, NEW k \in Checkouts, NEW name, NEW force \in BOOLEAN,
           StartImport(k, name, force)
    PROVE  GoesWell
<1> DEFINE pairs == AliasPairs(db)
           step == IF force THEN "force" ELSE "files"
<1>1. db' = BumpVersions(db, {s.inc : s \in ToSet(k.srcs)}, pairs, Disk)
      /\ job' = NewJob("import", k, name, step, None, pairs)
    BY DEF StartImport
<1>2. step # "activate"
    OBVIOUS
<1> HIDE DEF pairs, step
<1>3. Same(db, db')
    BY <1>1, BumpKeeps DEF CloneInv, RowsAgree
<1>4. JobAgrees(db', job')
    BY <1>1, <1>2, NewJobAgrees
<1> QED BY <1>3, <1>4, SameAgrees DEF CloneInv, GoesWell

LEMMA AddSourceStarts ==
    ASSUME CloneInv, NEW k \in Checkouts, NEW name, StartAddSource(k, name)
    PROVE  GoesWell
<1> DEFINE split == SplitBaseVersion(k.root)
           c == GetComponent(db, split.base)
           made == AddComponent(db, k.repo, split.base, split.ver)
           cid == IF c = None THEN made.id ELSE c.id
<1>1. db' = (IF c = None THEN made.db ELSE UpdateComponentMeta(db, c.id, k.repo, split.ver))
      /\ job' = NewJob("add", k, name, "repository", cid, {})
    BY DEF StartAddSource
<1> HIDE DEF split, c, cid
<1>2. Same(db, db')
  <2>1. Same(db, made.db) /\ Same(db, UpdateComponentMeta(db, c.id, k.repo, split.ver))
      BY ComponentOperations DEF CloneInv, RowsAgree
  <2> HIDE DEF made
  <2> QED BY <1>1, <2>1
<1>3. JobAgrees(db', job')
    BY <1>1, NewJobAgrees
<1> QED BY <1>2, <1>3, SameAgrees DEF CloneInv, GoesWell

LEMMA ForceDeletes ==
    ASSUME CloneInv, ForceDelete
    PROVE  GoesWell
<1> DEFINE c == GetComponent(db, job.k.root)
<1>1. db' = (IF c = None THEN db ELSE DeleteComponent(db, c.id))
      /\ job # None /\ job' = [job EXCEPT !.step = "files"]
    BY DEF ForceDelete
<1> HIDE DEF c
<1>2. Same(db, db')
    BY <1>1, ComponentOperations DEF CloneInv, RowsAgree
<1>3. JobAgrees(db', job')
  <2>1. JobAgrees(db, job) /\ "files" # "activate"
      BY DEF CloneInv
  <2> QED BY ONLY <1>1, <2>1, JobGoesOn
<1> QED BY <1>2, <1>3, SameAgrees DEF CloneInv, GoesWell

LEMMA FilesImported ==
    ASSUME CloneInv, ImportFiles
    PROVE  GoesWell
<1> DEFINE imported == Imported(db, job.k, job.pairs, job.k.srcs)
           j == [job EXCEPT !.step = "repository"]
<1>1. job # None /\ Commits(imported.db, j)
    BY Zenon DEF ImportFiles, Imported, FoldLeft, MapThenFoldSet
<1>2. Same(db, imported.db)
  <2>1. job.k \in Checkouts
      BY <1>1 DEF CloneInv, JobAgrees
  <2>2. DOMAIN job.k.srcs = 1..Len(job.k.srcs) /\ Len(job.k.srcs) \in Nat
      BY <2>1, CheckoutsHavePaths
  <2>3. Same(db, db)
      BY DEF CloneInv, RowsAgree
  <2> QED BY ONLY <2>2, <2>3, ImportFilesKeeps
<1> HIDE DEF imported
<1>3. RowsAgree(imported.db) /\ OnlyByMove(db, imported.db)
    BY <1>2, SameAgrees DEF CloneInv
<1>4. JobAgrees(imported.db, j)
    BY <1>1, JobGoesOn DEF CloneInv
<1> HIDE DEF j
<1> QED BY <1>1, <1>3, <1>4, CommitKeeps

LEMMA JobFields ==
    ASSUME NEW a1, NEW a2, NEW a3, NEW a4, NEW a5, NEW a6, NEW a7, NEW a8, NEW a9, NEW a10, NEW j,
           j = [cmd |-> a1, k |-> a2, step |-> a3, cid |-> a4, rid |-> a5,
                kid |-> a6, pairs |-> a7, todo |-> a8, seen |-> a9, repo |-> a10],
           NEW x, NEW y, NEW z, NEW jx
    PROVE  /\ jx = [j EXCEPT !.step = x, !.rid = y] =>
                jx = [cmd |-> a1, k |-> a2, step |-> x, cid |-> a4, rid |-> y,
                      kid |-> a6, pairs |-> a7, todo |-> a8, seen |-> a9, repo |-> a10]
           /\ jx = [j EXCEPT !.step = x, !.kid = y] =>
                jx = [cmd |-> a1, k |-> a2, step |-> x, cid |-> a4, rid |-> a5,
                      kid |-> y, pairs |-> a7, todo |-> a8, seen |-> a9, repo |-> a10]
           /\ jx = [j EXCEPT !.todo = x] =>
                jx = [cmd |-> a1, k |-> a2, step |-> a3, cid |-> a4, rid |-> a5,
                      kid |-> a6, pairs |-> a7, todo |-> x, seen |-> a9, repo |-> a10]
           /\ jx = [j EXCEPT !.seen = x, !.cid = y, !.step = z] =>
                jx = [cmd |-> a1, k |-> a2, step |-> z, cid |-> y, rid |-> a5,
                      kid |-> a6, pairs |-> a7, todo |-> a8, seen |-> x, repo |-> a10]
<1>1. ASSUME jx = [j EXCEPT !.step = x, !.rid = y]
      PROVE  jx = [cmd |-> a1, k |-> a2, step |-> x, cid |-> a4, rid |-> y,
                   kid |-> a6, pairs |-> a7, todo |-> a8, seen |-> a9, repo |-> a10]
    BY <1>1
<1>2. ASSUME jx = [j EXCEPT !.step = x, !.kid = y]
      PROVE  jx = [cmd |-> a1, k |-> a2, step |-> x, cid |-> a4, rid |-> a5,
                   kid |-> y, pairs |-> a7, todo |-> a8, seen |-> a9, repo |-> a10]
    BY <1>2
<1>3. ASSUME jx = [j EXCEPT !.todo = x]
      PROVE  jx = [cmd |-> a1, k |-> a2, step |-> a3, cid |-> a4, rid |-> a5,
                   kid |-> a6, pairs |-> a7, todo |-> x, seen |-> a9, repo |-> a10]
    BY <1>3
<1>4. ASSUME jx = [j EXCEPT !.seen = x, !.cid = y, !.step = z]
      PROVE  jx = [cmd |-> a1, k |-> a2, step |-> z, cid |-> y, rid |-> a5,
                   kid |-> a6, pairs |-> a7, todo |-> a8, seen |-> x, repo |-> a10]
    BY <1>4
<1> QED BY <1>1, <1>2, <1>3, <1>4

LEMMA RepositoryRegistered ==
    ASSUME CloneInv, RegisterRepository
    PROVE  GoesWell
<1> DEFINE added == AddRepository(db, job.repo)
           j == [job EXCEPT !.step = "clone", !.rid = added.id]
<1>1. job # None /\ Commits(added.db, j)
    BY DEF RegisterRepository
<1>2. RowsAgree(added.db) /\ OnlyByMove(db, added.db)
    BY AddsRepository DEF CloneInv
<1> HIDE DEF added
<1>3. JobAgrees(added.db, j)
  <2>1. PICK a1, a2, a3, a4, a5, a6, a7, a8, a9, a10 :
           job = [cmd |-> a1, k |-> a2, step |-> a3, cid |-> a4, rid |-> a5,
                  kid |-> a6, pairs |-> a7, todo |-> a8, seen |-> a9, repo |-> a10]
      BY <1>1 DEF CloneInv, JobAgrees
  <2> DEFINE id == added.id
  <2>2. j = [job EXCEPT !.step = "clone", !.rid = id]
      OBVIOUS
  <2>3. a2 \in Checkouts
      BY <1>1, <2>1 DEF CloneInv, JobAgrees
  <2> HIDE DEF j, id
  <2>4. j = [cmd |-> a1, k |-> a2, step |-> "clone", cid |-> a4, rid |-> id,
             kid |-> a6, pairs |-> a7, todo |-> a8, seen |-> a9, repo |-> a10]
      BY ONLY <2>1, <2>2, JobFields
  <2> QED BY <2>3, <2>4 DEF JobAgrees
<1> HIDE DEF j
<1> QED BY <1>1, <1>2, <1>3, CommitKeeps

LEMMA CloneRegistered ==
    ASSUME CloneInv, RegisterClone
    PROVE  GoesWell
<1> DEFINE added == AddClone(db, job.rid, job.k.root)
           j == [job EXCEPT !.step = "activate", !.kid = added.id]
<1>1. job # None /\ Commits(added.db, j)
    BY DEF RegisterClone
<1>2. RowsAgree(added.db) /\ OnlyByMove(db, added.db) /\ Has(added.db, job.rid, added.id)
    BY AddsClone DEF CloneInv
<1> HIDE DEF added
<1>3. JobAgrees(added.db, j)
  <2>1. PICK a1, a2, a3, a4, a5, a6, a7, a8, a9, a10 :
           job = [cmd |-> a1, k |-> a2, step |-> a3, cid |-> a4, rid |-> a5,
                  kid |-> a6, pairs |-> a7, todo |-> a8, seen |-> a9, repo |-> a10]
      BY <1>1 DEF CloneInv, JobAgrees
  <2> DEFINE id == added.id
  <2>2. j = [job EXCEPT !.step = "activate", !.kid = id]
      OBVIOUS
  <2>3. a2 \in Checkouts /\ Has(added.db, a5, id)
      BY <1>1, <1>2, <2>1 DEF CloneInv, JobAgrees
  <2> HIDE DEF j, id
  <2>4. j = [cmd |-> a1, k |-> a2, step |-> "activate", cid |-> a4, rid |-> a5,
             kid |-> id, pairs |-> a7, todo |-> a8, seen |-> a9, repo |-> a10]
      BY ONLY <2>1, <2>2, JobFields
  <2> QED BY <2>3, <2>4 DEF JobAgrees
<1> HIDE DEF j
<1> QED BY <1>1, <1>2, <1>3, CommitKeeps

LEMMA Activates ==
    ASSUME CloneInv, Activate
    PROVE  GoesWell
<1> DEFINE d == IF \E r \in With(db.repos, job.rid) : r.active = None
                THEN SetActiveClone(db, job.rid, job.kid) ELSE db
           j == [job EXCEPT !.step = "group"]
<1>1. job # None /\ job.step = "activate" /\ Commits(d, j)
    BY DEF Activate
<1>2. RowsAgree(d) /\ OnlyByMove(db, d)
  <2>1. OnlyByMove(db, db)
      BY SameRowsOnlyMove
  <2>2. RowsAgree(db) /\ Has(db, job.rid, job.kid)
      BY <1>1 DEF CloneInv, JobAgrees
  <2>3. /\ RowsAgree(SetActiveClone(db, job.rid, job.kid))
        /\ OnlyByMove(db, SetActiveClone(db, job.rid, job.kid))
    <3> HIDE DEF d
    <3> QED BY <2>1, <2>2, SetsActive
  <2>4. d = db \/ d = SetActiveClone(db, job.rid, job.kid)
      OBVIOUS
  <2> HIDE DEF d
  <2> QED BY <2>1, <2>2, <2>3, <2>4
<1> HIDE DEF d
<1>3. JobAgrees(d, j)
  <2>1. JobAgrees(db, job) /\ "group" # "activate" /\ j = [job EXCEPT !.step = "group"]
      BY DEF CloneInv
  <2> HIDE DEF j
  <2> QED BY ONLY <1>1, <2>1, JobGoesOn
<1> HIDE DEF j
<1> QED BY <1>1, <1>2, <1>3, CommitKeeps

LEMMA Groups ==
    ASSUME CloneInv, Group
    PROVE  GoesWell
<1> DEFINE c == ComponentForPath(db, Head(job.todo).path)
           rest == [job EXCEPT !.todo = Tail(@)]
           onward == [rest EXCEPT !.seen = @ \union {c.id}, !.cid = c.id, !.step = "relative"]
           adds == [job EXCEPT !.step = "relative"]
           grouped == IF c.repo = None THEN SetComponentRepository(db, c.id, job.rid) ELSE db
           moved == SetComponentRepository(db, job.cid, job.rid)
<1>1. job # None /\ job.step = "group"
      /\ \/ Completes /\ db' = db
         \/ Commits(db, rest)
         \/ Commits(grouped, onward)
         \/ Commits(moved, adds)
    BY DEF Group
<1>2. PICK a1, a2, a3, a4, a5, a6, a7, a8, a9, a10 :
         job = [cmd |-> a1, k |-> a2, step |-> a3, cid |-> a4, rid |-> a5,
                kid |-> a6, pairs |-> a7, todo |-> a8, seen |-> a9, repo |-> a10]
    BY <1>1 DEF CloneInv, JobAgrees
<1>3. a3 = "group" /\ a2 \in Checkouts
    BY <1>1, <1>2 DEF CloneInv, JobAgrees
<1>a. \E b : rest = [cmd |-> a1, k |-> a2, step |-> a3, cid |-> a4, rid |-> a5,
                    kid |-> a6, pairs |-> a7, todo |-> b, seen |-> a9, repo |-> a10]
  <2> DEFINE b == Tail(job.todo)
  <2>1. rest = [job EXCEPT !.todo = b]
      OBVIOUS
  <2> HIDE DEF rest, b
  <2>2. rest = [cmd |-> a1, k |-> a2, step |-> a3, cid |-> a4, rid |-> a5,
                kid |-> a6, pairs |-> a7, todo |-> b, seen |-> a9, repo |-> a10]
      BY ONLY <1>2, <2>1, JobFields
  <2> QED BY <2>2
<1>b. PICK b : rest = [cmd |-> a1, k |-> a2, step |-> a3, cid |-> a4, rid |-> a5,
                       kid |-> a6, pairs |-> a7, todo |-> b, seen |-> a9, repo |-> a10]
    BY <1>a
<1>4. /\ RowsAgree(db) /\ RowsAgree(moved) /\ RowsAgree(grouped)
      /\ OnlyByMove(db, db) /\ OnlyByMove(db, moved) /\ OnlyByMove(db, grouped)
  <2>1. Same(db, moved) /\ Same(db, SetComponentRepository(db, c.id, job.rid)) /\ Same(db, db)
    <3> HIDE DEF c
    <3> QED BY ComponentOperations DEF CloneInv, RowsAgree
  <2> HIDE DEF moved, c
  <2>2. Same(db, grouped)
      BY <2>1
  <2> HIDE DEF grouped
  <2> QED BY <2>1, <2>2, SameAgrees DEF CloneInv
<1> HIDE DEF c, grouped, moved
<1>5. CASE Completes /\ db' = db
    BY <1>5, <1>4 DEF CloneInv, Completes, JobAgrees, GoesWell
<1>6. CASE Commits(db, rest)
  <2> HIDE DEF rest
  <2>1. JobAgrees(db, rest)
      BY <1>3, <1>b DEF JobAgrees
  <2> QED BY <1>4, <1>6, <2>1, CommitKeeps
<1>7. CASE Commits(grouped, onward)
  <2> DEFINE cid == c.id
             seen == rest.seen \union {cid}
  <2>2. onward = [rest EXCEPT !.seen = seen, !.cid = cid, !.step = "relative"]
      OBVIOUS
  <2> HIDE DEF rest, onward, seen, cid
  <2>3. onward = [cmd |-> a1, k |-> a2, step |-> "relative", cid |-> cid, rid |-> a5,
                kid |-> a6, pairs |-> a7, todo |-> b, seen |-> seen, repo |-> a10]
      BY ONLY <1>b, <2>2, JobFields
  <2>4. JobAgrees(grouped, onward)
      BY <1>3, <2>3 DEF JobAgrees
  <2> QED BY <1>4, <1>7, <2>4, CommitKeeps
<1>8. CASE Commits(moved, adds)
  <2>1. adds = [cmd |-> a1, k |-> a2, step |-> "relative", cid |-> a4, rid |-> a5,
                kid |-> a6, pairs |-> a7, todo |-> a8, seen |-> a9, repo |-> a10]
      BY <1>2
  <2> HIDE DEF adds
  <2>2. JobAgrees(moved, adds)
      BY <1>3, <2>1 DEF JobAgrees
  <2> QED BY <1>4, <1>8, <2>2, CommitKeeps
<1> HIDE DEF rest, onward, adds
<1> QED BY <1>1, <1>5, <1>6, <1>7, <1>8

LEMMA Relativizes ==
    ASSUME CloneInv, Relativize
    PROVE  GoesWell
<1> DEFINE d == RelativizeComponent(db, job.cid, job.k.root)
           j == [job EXCEPT !.step = "group"]
<1>1. job # None /\ ((db' = d /\ Completes) \/ Commits(d, j))
    BY DEF Relativize
<1>2. RowsAgree(d) /\ OnlyByMove(db, d)
  <2>1. Same(db, d)
      BY ComponentOperations DEF CloneInv, RowsAgree
  <2> HIDE DEF d
  <2> QED BY <2>1, SameAgrees DEF CloneInv
<1> HIDE DEF d
<1>3. JobAgrees(d, j)
  <2>1. JobAgrees(db, job) /\ "group" # "activate" /\ j = [job EXCEPT !.step = "group"]
      BY DEF CloneInv
  <2> HIDE DEF j
  <2> QED BY ONLY <1>1, <2>1, JobGoesOn
<1> HIDE DEF j
<1>4. CASE db' = d /\ Completes
    BY <1>2, <1>4 DEF CloneInv, Completes, JobAgrees, GoesWell
<1>5. CASE Commits(d, j)
    BY <1>2, <1>3, <1>5, CommitKeeps
<1> QED BY <1>1, <1>4, <1>5

\* The commands that write components, files and labels only.
LEMMA OtherCommands ==
    ASSUME CloneInv,
           \/ \E r \in db.repos, part \in Parts : AddPart(r, part)
           \/ \E c \in db.comps, v \in ToSet(Versions) : SetVersion(c, v)
           \/ \E l \in LabelMoves : AddLabel(l)
           \/ \E n \in DOMAIN db.labels : RemoveLabel(n)
           \/ Realias
    PROVE  GoesWell
<1>1. ASSUME NEW commits, \A d \in commits : Same(db, d), Command(commits) PROVE GoesWell
  <2>1. \A d \in commits : RowsAgree(d) /\ OnlyByMove(db, d)
      BY <1>1, SameAgrees DEF CloneInv
  <2> QED BY <1>1, <2>1, CommandKeeps
<1>2. Same(db, db)
    BY DEF CloneInv, RowsAgree
<1>3. ASSUME NEW r, NEW part, AddPart(r, part) PROVE GoesWell
  <2> DEFINE root == ActiveRoot(db, r.id)
             path == root \o <<part>>
             made == AddComponent(db, part, path, None)
             first == made.db
             grouped == SetComponentRepository(first, made.id, r.id)
             d == RelativizeComponent(grouped, made.id, root)
             commits == {first, grouped, d}
  <2>1. Command(commits)
      BY <1>3 DEF AddPart
  <2>2. Same(db, first)
    <3> HIDE DEF path
    <3> QED BY <1>2, ComponentOperations
  <2> HIDE DEF made, root, first
  <2>3. Same(first, first)
      BY <2>2, SameOfSame
  <2>4. Same(first, grouped)
      BY <2>3, ComponentOperations
  <2> HIDE DEF grouped
  <2>5. Same(grouped, grouped)
      BY <2>4, SameOfSame
  <2>6. Same(grouped, d)
      BY <2>5, ComponentOperations
  <2> HIDE DEF d
  <2>7. Same(db, grouped)
      BY <2>2, <2>4, SameIsTransitive
  <2>8. Same(db, d)
      BY <2>6, <2>7, SameIsTransitive
  <2>9. \A x \in commits : Same(db, x)
      BY <2>2, <2>7, <2>8
  <2> HIDE DEF commits
  <2> QED BY <1>1, <2>1, <2>9
<1>4. ASSUME NEW c, NEW v, SetVersion(c, v) PROVE GoesWell
  <2> DEFINE d == SetComponentVersion(db, c.name, v)
  <2>1. Command({d})
      BY <1>4 DEF SetVersion, PlainCommand
  <2>2. Same(db, d)
      BY <1>2, ComponentOperations
  <2> HIDE DEF d
  <2> QED BY <1>1, <2>1, <2>2
<1>5. ASSUME NEW X, Command({[db EXCEPT !.labels = X]}) PROVE GoesWell
  <2>1. PICK d : d = [db EXCEPT !.labels = X] /\ Command({d})
      BY <1>5
  <2>2. Same(db, d)
      BY <1>2, <2>1, LabelsOrFilesOnly
  <2> QED BY <1>1, <2>1, <2>2
<1>6. ASSUME NEW l, AddLabel(l) PROVE GoesWell
  <2> DEFINE X == [n \in DOMAIN db.labels \union {l.name} |->
                     IF n = l.name THEN l.path ELSE db.labels[n]]
  <2>1. Command({[db EXCEPT !.labels = X]})
      BY <1>6 DEF AddLabel, PlainCommand
  <2> HIDE DEF X
  <2> QED BY <1>5, <2>1
<1>7. ASSUME NEW n, RemoveLabel(n) PROVE GoesWell
  <2> DEFINE X == [m \in DOMAIN db.labels \ {n} |-> db.labels[m]]
  <2>1. Command({[db EXCEPT !.labels = X]})
      BY <1>7 DEF RemoveLabel, PlainCommand
  <2> HIDE DEF X
  <2> QED BY <1>5, <2>1
<1>8. ASSUME Realias PROVE GoesWell
  <2> DEFINE X(some) == {IF f \in some THEN [f EXCEPT !.inc = AliasOption(@, AliasPairs(db))]
                                       ELSE f : f \in db.files}
             commits == {[db EXCEPT !.files = X(some)] : some \in SUBSET db.files}
  <2>1. Command(commits)
      BY <1>8 DEF Realias, PlainCommand
  <2> HIDE DEF X
  <2>2. ASSUME NEW d \in commits PROVE Same(db, d)
    <3>1. PICK some : d = [db EXCEPT !.files = X(some)]
        OBVIOUS
    <3> QED BY <1>2, <3>1, LabelsOrFilesOnly
  <2> HIDE DEF commits
  <2> QED BY <1>1, <2>1, <2>2
<1> QED BY <1>3, <1>4, <1>6, <1>7, <1>8

LEMMA CloneCommands ==
    ASSUME CloneInv,
           \/ \E k \in Checkouts, r \in db.repos : AddCloneCommand(r, k)
           \/ \E r \in db.repos : \E k \in {x \in db.clones : x.repo = r.id} : Switch(r, k)
           \/ \E k \in db.clones : RemoveClone(k)
           \/ \E r \in db.repos, b \in Removals : RemoveRepository(r, b)
    PROVE  GoesWell
<1>1. ASSUME NEW k, NEW r, AddCloneCommand(r, k) PROVE GoesWell
  <2> DEFINE added == AddClone(db, r.id, k.root)
             first == added.db
             second == SetActiveClone(first, r.id, added.id)
             commits == {first, IF r.active = None THEN second ELSE first}
  <2>1. Command(commits)
      BY <1>1 DEF AddCloneCommand
  <2>2. RowsAgree(first) /\ Has(first, r.id, added.id) /\ OnlyByMove(db, first)
      BY AddsClone DEF CloneInv
  <2> HIDE DEF added, first
  <2>3. RowsAgree(second) /\ OnlyByMove(db, second)
      BY <2>2, SetsActive
  <2> HIDE DEF second
  <2>4. \A d \in commits : RowsAgree(d) /\ OnlyByMove(db, d)
      BY <2>2, <2>3
  <2> HIDE DEF commits
  <2> QED BY <2>1, <2>4, CommandKeeps
<1>2. ASSUME NEW r, NEW k \in db.clones, k.repo = r.id, Switch(r, k) PROVE GoesWell
  <2> DEFINE d == SetActiveClone(db, r.id, k.id)
  <2>1. Command({d})
      BY <1>2 DEF Switch, PlainCommand
  <2>2. Has(db, r.id, k.id) /\ OnlyByMove(db, db)
      BY <1>2, SameRowsOnlyMove DEF Has
  <2>3. RowsAgree(d) /\ OnlyByMove(db, d)
      BY <2>2, SetsActive DEF CloneInv
  <2> HIDE DEF d
  <2> QED BY <2>1, <2>3, CommandKeeps
<1>3. ASSUME NEW k, RemoveClone(k) PROVE GoesWell
  <2> DEFINE d == DeleteClone(db, k.id)
  <2>1. Command({d})
      BY <1>3 DEF RemoveClone, PlainCommand
  <2>2. RowsAgree(d) /\ OnlyByMove(db, d)
      BY DeletesClone DEF CloneInv
  <2> HIDE DEF d
  <2> QED BY <2>1, <2>2, CommandKeeps
<1>4. ASSUME NEW r, NEW b, RemoveRepository(r, b) PROVE GoesWell
  <2> DEFINE own == {x \in db.comps : x.repo = r.id}
             ids == IF b THEN {c.id : c \in own} ELSE {}
             last == DeleteRepository(Emptied(db, ids), r.id)
             commits == {Emptied(db, gone) : gone \in SUBSET ids} \union {last}
  <2>1. Command(commits)
      BY <1>4, Zenon DEF RemoveRepository
  <2>2. IsFiniteSet(ids)
    <3> DEFINE f == [c \in own |-> c.id]
    <3>1. IsFiniteSet(own)
        BY FS_Subset DEF CloneInv, RowsAgree, Same
    <3>2. {c.id : c \in own} = {f[c] : c \in own}
        OBVIOUS
    <3> HIDE DEF own, f
    <3>3. IsFiniteSet({f[c] : c \in own})
        BY <3>1, MapOfFinite
    <3> QED BY <3>2, <3>3, FS_EmptySet
  <2> HIDE DEF ids
  <2>3. Same(db, db)
      BY DEF CloneInv, RowsAgree
  <2>4. ASSUME NEW gone \in SUBSET ids PROVE Same(db, Emptied(db, gone))
      BY <2>2, <2>3, FS_Subset, RepositoryRemovalKeeps
  <2> DEFINE left == Emptied(db, ids)
  <2>5. RowsAgree(left) /\ left.repos = db.repos /\ left.clones = db.clones
      BY <2>4, SameAgrees DEF CloneInv
  <2> HIDE DEF left
  <2>6. RowsAgree(last) /\ OnlyByMove(db, last)
    <3>1. last = DeleteRepository(left, r.id)
        BY DEF left
    <3> HIDE DEF last
    <3> QED BY <2>5, <3>1, DeletesRepository
  <2>7. ASSUME NEW d \in commits PROVE RowsAgree(d) /\ OnlyByMove(db, d)
    <3>1. CASE d = last
        BY <2>6, <3>1
    <3>2. CASE d # last
      <4> HIDE DEF last
      <4>1. PICK gone \in SUBSET ids : d = Emptied(db, gone)
          BY <3>2
      <4> QED BY <2>4, <4>1, SameAgrees DEF CloneInv
    <3> QED BY <3>1, <3>2
  <2> HIDE DEF commits
  <2> QED BY <2>1, <2>7, CommandKeeps
<1> QED BY <1>1, <1>2, <1>3, <1>4

LEMMA CloneInitOK == CloneInit => CloneInv
<1> SUFFICES ASSUME CloneInit PROVE CloneInv
    OBVIOUS
<1>1. db = [repos |-> {}, clones |-> {}, comps |-> {}, files |-> {}, labels |-> [n \in {} |-> << >>]]
      /\ job = None
    BY DEF CloneInit, EmptyDatabase
<1>2. IsFiniteSet({})
    BY FS_EmptySet
<1>3. Same(db, db)
    BY <1>1, <1>2 DEF Same
<1>4. Keyed({})
    BY 0 \in Nat DEF Keyed
<1> QED BY <1>1, <1>3, <1>4 DEF CloneInv, RowsAgree, JobAgrees

LEMMA CloneStep == CloneInv /\ [CloneNext]_cloneVars => GoesWell
<1> SUFFICES ASSUME CloneInv, [CloneNext]_cloneVars PROVE GoesWell
    OBVIOUS
<1>0. OnlyByMove(db, db)
    BY SameRowsOnlyMove
<1>1. CASE UNCHANGED cloneVars
    BY <1>0, <1>1 DEF cloneVars, CloneInv, GoesWell
<1>2. CASE \E k \in Checkouts, force \in BOOLEAN : \E name \in NamesFor(k) : StartImport(k, name, force)
    BY <1>2, ImportStarts
<1>3. CASE \E k \in Checkouts : \E name \in NamesFor(k) : StartAddSource(k, name)
    BY <1>3, AddSourceStarts
<1>4. CASE ForceDelete \/ ImportFiles \/ RegisterRepository \/ RegisterClone \/ Activate
           \/ Group \/ Relativize
    BY <1>4, ForceDeletes, FilesImported, RepositoryRegistered, CloneRegistered, Activates,
       Groups, Relativizes
<1>5. CASE Die
    BY <1>0, <1>5 DEF Die, CloneInv, JobAgrees, GoesWell
<1>6. CASE \/ \E k \in Checkouts : \E r \in {x \in db.repos : x.name \in NamesFor(k)} : AddCloneCommand(r, k)
           \/ \E r \in db.repos : \E k \in {x \in db.clones : x.repo = r.id} : Switch(r, k)
           \/ \E k \in db.clones : RemoveClone(k)
           \/ \E r \in db.repos, b \in Removals : RemoveRepository(r, b)
    BY <1>6, CloneCommands
<1>7. CASE \/ \E r \in db.repos, part \in Parts : AddPart(r, part)
           \/ \E c \in {x \in db.comps : x.ver # None}, v \in ToSet(Versions) : SetVersion(c, v)
           \/ \E l \in LabelMoves : AddLabel(l)
           \/ \E n \in DOMAIN db.labels : RemoveLabel(n)
           \/ Realias
    BY <1>7, OtherCommands
<1> QED BY <1>1, <1>2, <1>3, <1>4, <1>5, <1>6, <1>7 DEF CloneNext

\* Whatever checkouts are registered for whatever names, in whatever order the commands come
\* and wherever they die between two commits, no step but add_clone's move of its row parts a
\* repository from its active clone: repo switch, delete_clone and delete_repository of
\* storage.py keep what no foreign key does.
THEOREM ClonesPartByMoveOnly == CloneSpec => OnlyMovesEstrange
<1>1. CloneInv /\ [CloneNext]_cloneVars => CloneInv'
    BY CloneStep DEF GoesWell
<1>2. CloneInv /\ [CloneNext]_cloneVars => [OnlyByMove(db, db')]_cloneVars
    BY CloneStep DEF GoesWell
<1> QED BY <1>1, <1>2, CloneInitOK, PTL DEF CloneSpec, OnlyMovesEstrange

-----------------------------------------------------------------------------
(* NeverBroken. *)

\* "error" is reached from the parse without the PCH only, and the unit is the one it was of.
PchInv ==
    /\ parses = [p \in Parsers |->
                    [pc |-> parses[p].pc, unit |-> parses[p].unit, lib |-> parses[p].lib]]
    /\ NeverBroken

LEMMA ParserGoes ==
    ASSUME PchInv, NEW p \in Parsers, NEW pc, parses' = [parses EXCEPT ![p].pc = pc],
           pc = "error" => parses[p].unit.fatal
    PROVE  PchInv'
<1> DEFINE row == [pc |-> pc, unit |-> parses[p].unit, lib |-> parses[p].lib]
<1>1. parses[p] = [pc |-> parses[p].pc, unit |-> parses[p].unit, lib |-> parses[p].lib]
    BY DEF PchInv
<1>2. [parses[p] EXCEPT !.pc = pc] = row
    BY <1>1
<1>3. DOMAIN parses = Parsers
    BY DEF PchInv
<1>4. parses' = [parses EXCEPT ![p] = row]
    BY <1>2
<1>5. row.pc = pc /\ row.unit = parses[p].unit
      /\ row = [pc |-> row.pc, unit |-> row.unit, lib |-> row.lib]
    OBVIOUS
<1> HIDE DEF row
<1>6. \A q \in Parsers :
         parses'[q] = [pc |-> parses'[q].pc, unit |-> parses'[q].unit, lib |-> parses'[q].lib]
  <2>1. \A q \in Parsers : parses'[q] = IF q = p THEN row ELSE parses[q]
      BY <1>3, <1>4
  <2>2. \A q \in Parsers :
           parses[q] = [pc |-> parses[q].pc, unit |-> parses[q].unit, lib |-> parses[q].lib]
      BY DEF PchInv
  <2> QED BY <1>5, <2>1, <2>2
<1>7. parses' = [q \in Parsers |-> parses'[q]]
    BY <1>3, <1>4
<1>8. NeverBroken'
    BY <1>3, <1>4, <1>5 DEF PchInv, NeverBroken, Is
<1> QED BY <1>6, <1>7, <1>8 DEF PchInv

LEMMA PchStep == PchInv /\ [PchNext]_pchVars => PchInv'
<1> SUFFICES ASSUME PchInv, [PchNext]_pchVars PROVE PchInv'
    OBVIOUS
<1>1. ASSUME parses' = parses PROVE PchInv'
    BY <1>1 DEF PchInv, NeverBroken, Is
<1>2. CASE UNCHANGED pchVars
    BY <1>1, <1>2 DEF pchVars
<1>3. CASE \/ \E force, corpus \in BOOLEAN, d \in DominantDrivers \union {Given} :
                 BeginBuild(force, d, corpus)
           \/ BuildFails \/ ParseUmbrella \/ SavePch \/ WriteSidecar \/ BeginClear \/ Clear
           \/ WorkDies
           \/ \E l \in Libs : Upgrade(l)
  <2>1. parses' = parses
      BY <1>3 DEF BeginBuild, Begins, BuildFails, ParseUmbrella, SavePch, WriteSidecar,
                  BeginClear, Clear, WorkDies, Upgrade
  <2> QED BY <1>1, <2>1
<1>4. ASSUME NEW p \in Parsers, NEW u \in Units, NEW noPch \in BOOLEAN, BeginParse(p, u, noPch)
      PROVE  PchInv'
  <2> DEFINE row == [pc |-> IF noPch THEN "without" ELSE "look", unit |-> u, lib |-> lib]
  <2>1. parses' = [parses EXCEPT ![p] = row]
      BY <1>4 DEF BeginParse
  <2>2. row.pc # "error" /\ row = [pc |-> row.pc, unit |-> row.unit, lib |-> row.lib]
      OBVIOUS
  <2> HIDE DEF row
  <2>3. DOMAIN parses = Parsers
      BY DEF PchInv
  <2>4. \A q \in Parsers : parses'[q] = IF q = p THEN row ELSE parses[q]
      BY <2>1, <2>3
  <2>5. \A q \in Parsers :
           parses'[q] = [pc |-> parses'[q].pc, unit |-> parses'[q].unit, lib |-> parses'[q].lib]
    <3>1. \A q \in Parsers :
             parses[q] = [pc |-> parses[q].pc, unit |-> parses[q].unit, lib |-> parses[q].lib]
        BY DEF PchInv
    <3> QED BY <2>2, <2>4, <3>1
  <2>6. parses' = [q \in Parsers |-> parses'[q]]
      BY <2>1, <2>3
  <2>7. NeverBroken'
      BY <2>2, <2>4 DEF PchInv, NeverBroken, Is
  <2> QED BY <2>5, <2>6, <2>7 DEF PchInv
<1>5. ASSUME NEW p \in Parsers, Look(p) \/ Match(p) \/ ParseWith(p) PROVE PchInv'
  <2>1. \E pc \in {"without", "match", "with", "ast"} : parses' = [parses EXCEPT ![p].pc = pc]
      BY <1>5 DEF Look, Match, ParseWith, Goes
  <2>2. PICK pc \in {"without", "match", "with", "ast"} : parses' = [parses EXCEPT ![p].pc = pc]
      BY <2>1
  <2>3. pc # "error"
      OBVIOUS
  <2> QED BY <2>2, <2>3, ParserGoes
<1>6. ASSUME NEW p \in Parsers, ParseWithout(p) PROVE PchInv'
  <2> DEFINE pc == IF parses[p].unit.fatal THEN "error" ELSE "ast"
  <2>1. parses' = [parses EXCEPT ![p].pc = pc]
      BY <1>6 DEF ParseWithout, Goes
  <2>2. pc = "error" => parses[p].unit.fatal
      OBVIOUS
  <2> HIDE DEF pc
  <2> QED BY <2>1, <2>2, ParserGoes
<1> QED BY <1>2, <1>3, <1>4, <1>5, <1>6 DEF PchNext

\* A parse fails only if it would without the shared PCH, whatever builds, clears, deaths and
\* changes of libclang happen between its steps (pch.py, consume_args; clang/util.py, parse).
THEOREM PchBreaksNothing == PchSpec => []NeverBroken
<1>1. PchInit => PchInv
    BY DEF PchInit, PchInv, NeverBroken, Is, Idle
<1>2. PchInv => NeverBroken
    BY DEF PchInv
<1> QED BY <1>1, <1>2, PchStep, PTL DEF PchSpec

-----------------------------------------------------------------------------
(* Compile commands: the n-th of a set of places. *)

\* How many of the places are not to the right of i.
Rank(S, i) == Cardinality({j \in S : j <= i})

LEMMA RankType ==
    ASSUME NEW m \in Nat, NEW S \in SUBSET (1..m)
    PROVE  /\ IsFiniteSet(S) /\ Cardinality(S) \in Nat
           /\ \A i \in S : Rank(S, i) \in 1..Cardinality(S)
           /\ \A i, j \in S : i < j => Rank(S, i) < Rank(S, j)
<1>1. IsFiniteSet(1..m)
    BY FS_Interval
<1>2. IsFiniteSet(S) /\ Cardinality(S) \in Nat
    BY <1>1, FS_Subset, FS_CardinalityType
<1>3. ASSUME NEW i \in S PROVE Rank(S, i) \in 1..Cardinality(S)
  <2> DEFINE L == {j \in S : j <= i}
  <2>1. IsFiniteSet(L) /\ Cardinality(L) \in Nat /\ Cardinality(L) <= Cardinality(S)
      BY <1>2, FS_Subset, FS_CardinalityType
  <2>2. i \in L
      OBVIOUS
  <2>3. Cardinality(L) # 0
      BY <2>1, <2>2, FS_EmptySet
  <2> QED BY <1>2, <2>1, <2>3 DEF Rank
<1>4. ASSUME NEW i \in S, NEW j \in S, i < j PROVE Rank(S, i) < Rank(S, j)
  <2> DEFINE L == {k \in S : k <= i}
             M == {k \in S : k <= j}
  <2>1. IsFiniteSet(M)
      BY <1>2, FS_Subset
  <2>2. L \in SUBSET M /\ j \in M /\ j \notin L
    <3>1. S \subseteq Nat
        OBVIOUS
    <3>2. ASSUME NEW k \in L PROVE k \in M
      <4>1. k \in Nat /\ i \in Nat /\ j \in Nat /\ k <= i /\ i < j
          BY <1>4, <3>1
      <4> QED BY <4>1
    <3>3. j \in M /\ j \notin L
      <4>1. i \in Nat /\ j \in Nat /\ i < j
          BY <1>4, <3>1
      <4> QED BY <4>1
    <3> QED BY <3>2, <3>3
  <2>3. Cardinality(L) <= Cardinality(M) /\ Cardinality(L) # Cardinality(M)
    <3> HIDE DEF L, M
    <3> QED BY <2>1, <2>2, FS_Subset
  <2>4. Cardinality(L) \in Nat /\ Cardinality(M) \in Nat
    <3>1. IsFiniteSet(L)
        BY <1>2, FS_Subset
    <3> QED BY <2>1, <3>1, FS_CardinalityType
  <2> QED BY <2>3, <2>4 DEF Rank
<1> QED BY <1>2, <1>3, <1>4

LEMMA NthPlace ==
    ASSUME NEW m \in Nat, NEW S \in SUBSET (1..m)
    PROVE  /\ Cardinality(S) \in Nat
           /\ \A n \in 1..Cardinality(S) : Nth(S, n) \in S /\ Rank(S, Nth(S, n)) = n
           /\ \A i \in S : Rank(S, i) \in 1..Cardinality(S) /\ Nth(S, Rank(S, i)) = i
           /\ \A n, k \in 1..Cardinality(S) : n < k => Nth(S, n) < Nth(S, k)
<1> DEFINE c == Cardinality(S)
           f == [i \in S |-> Rank(S, i)]
<1>0. S \subseteq Nat
    OBVIOUS
<1>1. IsFiniteSet(S) /\ c \in Nat
    BY RankType
<1>2. \A i \in S : Rank(S, i) \in 1..c
    BY RankType
<1>3. \A i, j \in S : i < j => Rank(S, i) < Rank(S, j)
    BY RankType
<1>4. ASSUME NEW i \in S, NEW j \in S, Rank(S, i) = Rank(S, j) PROVE i = j
  <2>1. i \in Nat /\ j \in Nat /\ Rank(S, i) \in Nat /\ Rank(S, j) \in Nat
      BY <1>0, <1>1, <1>2
  <2>2. ~(i < j) /\ ~(j < i)
      BY <1>3, <1>4, <2>1
  <2> QED BY <2>1, <2>2
<1>5. f \in Injection(S, 1..c)
    BY <1>2, <1>4 DEF Injection, IsInjective
<1>6. f \in Surjection(S, 1..c)
  <2>1. IsFiniteSet(1..c) /\ Cardinality(1..c) = c
      BY <1>1, FS_Interval
  <2> HIDE DEF f
  <2> QED BY <1>5, <2>1, FS_Injection
<1>7. \A n \in 1..c : \E i \in S : Rank(S, i) = n
    BY <1>6 DEF Surjection
<1>8. ASSUME NEW n \in 1..c PROVE Nth(S, n) \in S /\ Rank(S, Nth(S, n)) = n
  <2>1. \E i \in S : Rank(S, i) = n
      BY <1>7
  <2> QED BY <2>1 DEF Nth, Rank
<1>9. ASSUME NEW i \in S PROVE Nth(S, Rank(S, i)) = i
  <2>1. Rank(S, i) \in 1..c
      BY <1>2
  <2> QED BY <1>4, <1>8, <2>1
<1>10. ASSUME NEW n \in 1..c, NEW k \in 1..c, n < k PROVE Nth(S, n) < Nth(S, k)
  <2>1. Nth(S, n) \in S /\ Nth(S, k) \in S /\ Rank(S, Nth(S, n)) = n /\ Rank(S, Nth(S, k)) = k
      BY <1>8
  <2>2. n < k /\ n \in Nat /\ k \in Nat
      BY <1>1, <1>10
  <2>3. Nth(S, k) # Nth(S, n)
      BY <2>1, <2>2
  <2>4. ~(Nth(S, k) < Nth(S, n))
    <3> SUFFICES ASSUME Nth(S, k) < Nth(S, n) PROVE FALSE
        OBVIOUS
    <3>1. k < n
        BY <1>3, <2>1
    <3> QED BY <2>2, <3>1
  <2>5. Nth(S, n) \in Nat /\ Nth(S, k) \in Nat
      BY <1>0, <2>1
  <2> QED BY <2>3, <2>4, <2>5
<1> QED BY <1>1, <1>2, <1>8, <1>9, <1>10

\* A sequence that counts the places from the left is the one that Nth counts.
LEMMA NthIsUnique ==
    ASSUME NEW m \in Nat, NEW S \in SUBSET (1..m), NEW k \in Nat, NEW f \in [1..k -> S],
           \A i \in S : \E n \in 1..k : f[n] = i,
           \A n, l \in 1..k : n < l => f[n] < f[l]
    PROVE  Cardinality(S) = k /\ \A n \in 1..k : Nth(S, n) = f[n]
<1>0. S \subseteq Nat
    OBVIOUS
<1>1. ASSUME NEW n \in 1..k, NEW l \in 1..k, f[n] <= f[l] PROVE n <= l
  <2>1. f[n] \in Nat /\ f[l] \in Nat
      BY <1>0
  <2>2. ~(l < n)
      BY <1>1, <2>1
  <2> QED BY <2>2
<1>2. ASSUME NEW n \in 1..k, NEW l \in 1..k, n <= l PROVE f[n] <= f[l]
  <2>1. f[n] \in Nat /\ f[l] \in Nat
      BY <1>0
  <2>2. CASE n = l
      BY <2>1, <2>2
  <2>3. CASE n < l
      BY <2>1, <2>3
  <2> QED BY <1>2, <2>2, <2>3
<1>3. ASSUME NEW n \in 1..k, NEW l \in 1..k, f[n] = f[l] PROVE n = l
  <2>1. f[n] \in Nat
      BY <1>0
  <2>2. n <= l /\ l <= n
      BY <1>1, <1>3, <2>1
  <2> QED BY <2>2
<1>4. Cardinality(S) = k
  <2>1. f \in Bijection(1..k, S)
      BY <1>3 DEF Bijection, Injection, Surjection, IsInjective
  <2> QED BY <2>1, FS_CountingElements DEF ExistsBijection
<1>5. ASSUME NEW n \in 1..k PROVE Nth(S, n) = f[n]
  <2> DEFINE L == {j \in S : j <= f[n]}
             g == [l \in 1..n |-> f[l]]
  <2>1. g \in [1..n -> L]
    <3>1. ASSUME NEW l \in 1..n PROVE f[l] \in L
      <4>1. l \in 1..k /\ l <= n
          OBVIOUS
      <4> QED BY <1>2, <4>1
    <3> QED BY <3>1
  <2>2. ASSUME NEW i \in L PROVE \E l \in 1..n : g[l] = i
    <3>1. PICK l \in 1..k : f[l] = i
        OBVIOUS
    <3>2. l <= n
        BY <1>1, <3>1
    <3> QED BY <3>1, <3>2
  <2>3. \A l, h \in 1..n : g[l] = g[h] => l = h
      BY <1>3
  <2>4. g \in Bijection(1..n, L)
    <3> HIDE DEF g, L
    <3> QED BY <2>1, <2>2, <2>3 DEF Bijection, Injection, Surjection, IsInjective
  <2>5. Rank(S, f[n]) = n
    <3>1. Cardinality(L) = n
      <4> HIDE DEF g, L
      <4> QED BY <2>4, FS_CountingElements DEF ExistsBijection
    <3> QED BY <3>1 DEF Rank
  <2>6. Nth(S, Rank(S, f[n])) = f[n]
      BY NthPlace
  <2> QED BY <2>5, <2>6
<1> QED BY <1>4, <1>5

LEMMA AtEveryPlace ==
    ASSUME NEW V, NEW s \in Seq(V)
    PROVE  At(s, DOMAIN s) = s
<1> DEFINE m == Len(s)
           f == [n \in 1..m |-> n]
<1>1. m \in Nat /\ DOMAIN s = 1..m
    OBVIOUS
<1>2. f \in [1..m -> 1..m] /\ (\A i \in 1..m : \E n \in 1..m : f[n] = i)
      /\ \A n, l \in 1..m : n < l => f[n] < f[l]
    OBVIOUS
<1>3. Cardinality(1..m) = m /\ \A n \in 1..m : Nth(1..m, n) = f[n]
  <2>1. 1..m \in SUBSET (1..m)
      OBVIOUS
  <2> HIDE DEF m, f
  <2> QED BY <1>1, <1>2, <2>1, NthIsUnique
<1>4. At(s, 1..m) = [n \in 1..m |-> s[n]]
    BY <1>3 DEF At
<1> QED BY <1>1, <1>4

-----------------------------------------------------------------------------
(* Compile commands: options and their values. *)

\* In a command that a compiler accepts, a token is the value of an option exactly if the
\* token before is one that takes a value.
LEMMA ValuesFollow ==
    ASSUME NEW V, NEW s \in Seq(V), WellFormed(s), NEW T \in SUBSET Taking
    PROVE  ValuesOf(s, T) = {i \in 2..Len(s) : s[i - 1].t \in T}
<1> DEFINE m == Len(s)
           Obeys(f) == f = [i \in 0..m |-> i > 1 /\ s[i - 1].t \in T /\ ~f[i - 1]]
           g == [i \in 0..m |-> i > 1 /\ s[i - 1].t \in T]
<1>1. m \in Nat /\ DOMAIN s = 1..m
    OBVIOUS
<1>2. ASSUME NEW i \in 0..m, i > 1, s[i - 1].t \in T
      PROVE  ~(i - 1 > 1 /\ s[i - 1 - 1].t \in T)
  <2> SUFFICES ASSUME i - 1 > 1, s[i - 1 - 1].t \in T PROVE FALSE
      OBVIOUS
  <2>1. i - 1 - 1 \in DOMAIN s /\ s[i - 1 - 1].t \in Taking
      BY <1>1
  <2>2. s[i - 1 - 1 + 1].t = "word"
      BY <2>1 DEF WellFormed
  <2>3. i - 1 - 1 + 1 = i - 1
      BY <1>1
  <2>4. "word" \notin Taking
      BY DEF Taking
  <2> QED BY <1>2, <2>2, <2>3, <2>4
<1>3. Obeys(g)
  <2>1. ASSUME NEW i \in 0..m
        PROVE  (i > 1 /\ s[i - 1].t \in T) <=> (i > 1 /\ s[i - 1].t \in T /\ ~g[i - 1])
    <3> SUFFICES ASSUME i > 1, s[i - 1].t \in T PROVE ~g[i - 1]
        OBVIOUS
    <3>1. i - 1 \in 0..m
        BY <1>1
    <3>2. g[i - 1] = (i - 1 > 1 /\ s[i - 1 - 1].t \in T)
        BY <3>1
    <3> QED BY <1>2, <3>2
  <2>2. g = [i \in 0..m |-> i > 1 /\ s[i - 1].t \in T /\ ~g[i - 1]]
    <3> DEFINE h == [i \in 0..m |-> i > 1 /\ s[i - 1].t \in T /\ ~g[i - 1]]
    <3>1. ASSUME NEW i \in 0..m PROVE g[i] = h[i]
        BY <2>1
    <3>2. DOMAIN g = 0..m /\ DOMAIN h = 0..m
        OBVIOUS
    <3> QED BY <3>1, <3>2
  <2> QED BY <2>2
<1>4. ASSUME NEW f, Obeys(f), NEW i \in 1..m
      PROVE  f[i] <=> (i > 1 /\ s[i - 1].t \in T)
  <2>1. \A j \in 0..m : f[j] = (j > 1 /\ s[j - 1].t \in T /\ ~f[j - 1])
      BY <1>4
  <2>2. i \in 0..m /\ i - 1 \in 0..m
      BY <1>1
  <2>3. f[i] = (i > 1 /\ s[i - 1].t \in T /\ ~f[i - 1])
      BY <2>1, <2>2
  <2>4. f[i - 1] = (i - 1 > 1 /\ s[i - 1 - 1].t \in T /\ ~f[i - 1 - 1])
      BY <2>1, <2>2
  <2> QED BY <1>2, <2>2, <2>3, <2>4
<1> DEFINE chosen == CHOOSE f : Obeys(f)
<1>5. Obeys(chosen)
  <2> HIDE DEF Obeys
  <2> QED BY <1>3
<1>6. ValuesOf(s, T) = {i \in DOMAIN s : chosen[i]}
    BY DEF ValuesOf
<1>7. \A i \in 1..m : chosen[i] <=> (i > 1 /\ s[i - 1].t \in T)
  <2> HIDE DEF Obeys, chosen
  <2> QED BY <1>4, <1>5
<1> HIDE DEF chosen
<1>8. \A i : i \in {k \in DOMAIN s : chosen[k]} <=> i \in {k \in 2..m : s[k - 1].t \in T}
    BY <1>1, <1>7
<1> QED BY <1>6, <1>8

\* The tokens of raw at K, in their order, when K keeps every option with its value.
Follows(s, raw, K) ==
    /\ K \in SUBSET (1..Len(raw))
    /\ \A i \in 1..Len(raw) : raw[i].t \in Taking => (i \in K <=> i + 1 \in K)
    /\ Len(s) = Cardinality(K)
    /\ \A k \in 1..Len(s) : s[k].t = raw[Nth(K, k)].t

LEMMA FollowsKeepsValues ==
    ASSUME NEW V, NEW raw \in Seq(V), WellFormed(raw),
           NEW W, NEW s \in Seq(W), NEW K, Follows(s, raw, K)
    PROVE  /\ \A k \in 1..Len(s) : /\ Nth(K, k) \in K
                                  /\ raw[Nth(K, k)].t \in Taking =>
                                        k + 1 \in 1..Len(s) /\ Nth(K, k + 1) = Nth(K, k) + 1
           /\ \A i \in K : \E k \in 1..Len(s) : Nth(K, k) = i
           /\ \A k, l \in 1..Len(s) : k < l => Nth(K, k) < Nth(K, l)
           /\ WellFormed(s)
           /\ \A T \in SUBSET Taking : \A k \in 1..Len(s) :
                  /\ k \in ValuesOf(s, T) <=> Nth(K, k) \in ValuesOf(raw, T)
                  /\ k \in ValuesOf(s, T) => k - 1 \in 1..Len(s) /\ Nth(K, k - 1) = Nth(K, k) - 1
<1> DEFINE m == Len(raw)
           c == Len(s)
<1>0. /\ m \in Nat /\ DOMAIN raw = 1..m /\ c \in Nat /\ DOMAIN s = 1..c
      /\ K \in SUBSET (1..m) /\ K \subseteq 1..m /\ c = Cardinality(K)
      /\ \A i \in 1..m : raw[i].t \in Taking => (i \in K <=> i + 1 \in K)
      /\ \A k \in 1..c : s[k].t = raw[Nth(K, k)].t
    BY DEF Follows
<1>1. /\ \A k \in 1..c : Nth(K, k) \in K /\ Rank(K, Nth(K, k)) = k
      /\ \A i \in K : Rank(K, i) \in 1..c /\ Nth(K, Rank(K, i)) = i
      /\ \A k, l \in 1..c : k < l => Nth(K, k) < Nth(K, l)
  <2> HIDE DEF m, c
  <2> QED BY <1>0, NthPlace
<1> HIDE DEF m, c
<1>2. ASSUME NEW i \in K, i + 1 \in K
      PROVE  Rank(K, i + 1) = Rank(K, i) + 1 /\ i \in Nat
  <2> DEFINE a == Rank(K, i)
             b == Rank(K, i + 1)
  <2>1. a \in 1..c /\ b \in 1..c /\ Nth(K, a) = i /\ Nth(K, b) = i + 1
      BY <1>1, <1>2
  <2>2. i \in Nat
      BY <1>0
  <2>3. a # b /\ ~(b < a)
    <3>1. a # b
        BY <2>1, <2>2
    <3>2. b < a => Nth(K, b) < Nth(K, a)
        BY <1>1, <2>1
    <3> QED BY <2>1, <2>2, <3>1, <3>2
  <2>4. ~(a + 1 < b)
    <3> SUFFICES ASSUME a + 1 < b PROVE FALSE
        OBVIOUS
    <3>1. a + 1 \in 1..c /\ a < a + 1
        BY <1>0, <2>1
    <3>2. Nth(K, a) < Nth(K, a + 1) /\ Nth(K, a + 1) < Nth(K, b)
        BY <1>1, <2>1, <3>1
    <3>3. Nth(K, a + 1) \in Nat
      <4>1. Nth(K, a + 1) \in K
          BY <1>1, <3>1
      <4>2. K \subseteq Nat
        <5>1. 1..m \subseteq Nat
            BY <1>0
        <5> QED BY <1>0, <5>1
      <4> QED BY <4>1, <4>2
    <3> QED BY <2>1, <2>2, <3>2, <3>3
  <2> QED BY <1>0, <2>1, <2>2, <2>3, <2>4
<1>3. ASSUME NEW k \in 1..c, raw[Nth(K, k)].t \in Taking
      PROVE  k + 1 \in 1..c /\ Nth(K, k + 1) = Nth(K, k) + 1
  <2> DEFINE i == Nth(K, k)
  <2>1. i \in K /\ i \in 1..m /\ Rank(K, i) = k
      BY <1>0, <1>1
  <2>2. i + 1 \in K
      BY <1>0, <1>3, <2>1
  <2>3. Rank(K, i + 1) = k + 1
    <3> HIDE DEF i
    <3> QED BY <1>2, <2>1, <2>2
  <2> QED BY <1>1, <2>2, <2>3
<1>4. WellFormed(s)
  <2> SUFFICES ASSUME NEW k \in 1..c
               PROVE  /\ s[k].t \notin Launchers \union Environment
                      /\ s[k].t \in Taking => k < c /\ s[k + 1].t = "word"
      BY <1>0 DEF WellFormed, c
  <2> DEFINE i == Nth(K, k)
  <2>1. i \in DOMAIN raw /\ s[k].t = raw[i].t
      BY <1>0, <1>1
  <2>2. raw[i].t \notin Launchers \union Environment
      BY <2>1 DEF WellFormed
  <2>3. ASSUME s[k].t \in Taking PROVE k < c /\ s[k + 1].t = "word"
    <3>1. k + 1 \in 1..c /\ Nth(K, k + 1) = i + 1
        BY <1>3, <2>1, <2>3
    <3>2. raw[i + 1].t = "word"
        BY <2>1, <2>3 DEF WellFormed
    <3> QED BY <1>0, <3>1, <3>2
  <2> QED BY <2>1, <2>2, <2>3
<1>5. ASSUME NEW T \in SUBSET Taking, NEW k \in 1..c
      PROVE  /\ k \in ValuesOf(s, T) <=> Nth(K, k) \in ValuesOf(raw, T)
             /\ k \in ValuesOf(s, T) => k - 1 \in 1..c /\ Nth(K, k - 1) = Nth(K, k) - 1
  <2>1. ValuesOf(s, T) = {i \in 2..c : s[i - 1].t \in T}
      BY <1>4, ValuesFollow DEF c
  <2>2. ValuesOf(raw, T) = {i \in 2..m : raw[i - 1].t \in T}
      BY ValuesFollow DEF m
  <2> DEFINE i == Nth(K, k)
  <2>3. i \in K /\ i \in 1..m /\ Rank(K, i) = k
      BY <1>0, <1>1
  <2>4. ASSUME k \in ValuesOf(s, T)
        PROVE  k - 1 \in 1..c /\ Nth(K, k - 1) = i - 1 /\ i \in ValuesOf(raw, T)
    <3> DEFINE h == Nth(K, k - 1)
    <3>1. k \in 2..c /\ k - 1 \in 1..c /\ s[k - 1].t \in T
        BY <1>0, <2>1, <2>4
    <3>2. raw[h].t \in T /\ raw[h].t \in Taking /\ h \in 1..m
        BY <1>0, <1>1, <3>1
    <3>3. i = h + 1
      <4>1. k - 1 + 1 = k
          BY <3>1
      <4> QED BY <1>3, <3>1, <3>2, <4>1
    <3>4. i \in 2..m /\ i - 1 = h
        BY <1>0, <2>3, <3>2, <3>3
    <3> QED BY <2>2, <3>1, <3>2, <3>4
  <2>5. ASSUME i \in ValuesOf(raw, T) PROVE k \in ValuesOf(s, T)
    <3> DEFINE h == i - 1
    <3>1. h \in 1..m /\ raw[h].t \in T /\ raw[h].t \in Taking /\ h + 1 = i
      <4>1. i \in 2..m /\ raw[i - 1].t \in T
          BY <2>2, <2>5
      <4> HIDE DEF i
      <4>2. h \in 1..m /\ h + 1 = i
          BY <1>0, <4>1
      <4> QED BY <4>1, <4>2
    <3>2. h \in K
        BY <1>0, <2>3, <3>1
    <3>3. Rank(K, h) \in 1..c /\ Nth(K, Rank(K, h)) = h
        BY <1>1, <3>2
    <3>4. Rank(K, h) + 1 = k
      <4> HIDE DEF i, h
      <4> QED BY <1>2, <2>3, <3>1, <3>2
    <3>5. s[Rank(K, h)].t = raw[h].t
        BY <1>0, <3>3
    <3>6. k \in 2..c /\ k - 1 = Rank(K, h)
        BY <1>0, <3>3, <3>4
    <3> QED BY <2>1, <3>1, <3>5, <3>6
  <2> QED BY <2>4, <2>5
<1> QED BY <1>0, <1>1, <1>3, <1>4, <1>5 DEF c

-----------------------------------------------------------------------------
(* Compile commands: what is stored and what is read back. *)

\* The places of the arguments that strip_for_libclang keeps.
Kept(raw) ==
    {i \in Undropped(raw) :
        i \in ValuesOf(raw, DropWithArg \union IncludeSeparate) \/ raw[i].t # "source"}

LEMMA KeptPlaces ==
    ASSUME NEW V, NEW raw \in Seq(V), WellFormed(raw)
    PROVE  /\ Kept(raw) \in SUBSET (1..Len(raw))
           /\ \A i \in 1..Len(raw) : raw[i].t \in Taking => (i \in Kept(raw) <=> i + 1 \in Kept(raw))
           /\ \A i \in Kept(raw) :
                 raw[i].t \notin Drop \union DropWithArg \union DropPrefix \union {"source"}
           /\ \A i \in 1..Len(raw) : i \notin Kept(raw) =>
                 \/ raw[i].t \in Drop \union DropWithArg \union DropPrefix \union {"source"}
                 \/ i \in ValuesOf(raw, DropWithArg)
<1> DEFINE m == Len(raw)
           flags == DropWithArg \union IncludeSeparate
           values == ValuesOf(raw, flags)
           dropped == Drop \union DropWithArg \union DropPrefix
<1>0. m \in Nat /\ DOMAIN raw = 1..m
    OBVIOUS
<1>1. flags \subseteq Taking /\ DropWithArg \subseteq Taking /\ DropWithArg \subseteq flags
    BY DEF Taking, DropWithArg, IncludeSeparate
<1>2. values = {i \in 2..m : raw[i - 1].t \in flags}
    BY <1>1, ValuesFollow
<1>3. ValuesOf(raw, DropWithArg) = {i \in 2..m : raw[i - 1].t \in DropWithArg}
    BY <1>1, ValuesFollow
<1>4. ASSUME NEW i \in values PROVE raw[i].t = "word" /\ i \in 2..m
  <2> HIDE DEF flags, values
  <2>1. i \in 2..m /\ raw[i - 1].t \in Taking
      BY <1>1, <1>2
  <2>2. i - 1 \in DOMAIN raw /\ i - 1 + 1 = i
      BY <1>0, <2>1
  <2>3. raw[i - 1 + 1].t = "word"
      BY <2>1, <2>2 DEF WellFormed
  <2> QED BY <2>1, <2>2, <2>3
<1>5. Kept(raw) = {i \in DOMAIN raw :
                      IF i \in values THEN raw[i - 1].t \notin DropWithArg
                      ELSE raw[i].t \notin dropped /\ raw[i].t # "source"}
  <2> HIDE DEF values
  <2>1. Undropped(raw) = {i \in DOMAIN raw :
                            IF i \in values THEN raw[i - 1].t \notin DropWithArg
                            ELSE raw[i].t \notin dropped}
      BY DEF Undropped, values
  <2>2. Kept(raw) = {i \in Undropped(raw) : i \in values \/ raw[i].t # "source"}
      BY DEF Kept, values
  <2> HIDE DEF dropped
  <2> QED BY <2>1, <2>2
<1> HIDE DEF values, flags
<1>6. "word" \notin dropped /\ "word" # "source" /\ "word" \notin Taking
    BY DEF Drop, DropWithArg, DropPrefix, Taking
<1>7. ASSUME NEW i \in 1..m, raw[i].t \in Taking
      PROVE  i \in Kept(raw) <=> i + 1 \in Kept(raw)
  <2>1. i < m /\ raw[i + 1].t = "word" /\ i + 1 \in 1..m /\ i + 1 - 1 = i
    <3>1. i < m /\ raw[i + 1].t = "word"
        BY <1>0, <1>7 DEF WellFormed
    <3> QED BY <1>0, <3>1
  <2>2. i \notin values
      BY <1>4, <1>6, <1>7
  <2>3. i + 1 \in values <=> raw[i].t \in flags
      BY <1>2, <2>1
  <2>4. i + 1 \in Kept(raw) <=> raw[i].t \notin DropWithArg
      BY <1>0, <1>1, <1>5, <1>6, <2>1, <2>3
  <2>5. raw[i].t \notin Drop \union DropPrefix \union {"source"}
      BY <1>7 DEF Taking, Drop, DropPrefix
  <2>6. i \in Kept(raw) <=> raw[i].t \notin DropWithArg
      BY <1>0, <1>5, <2>2, <2>5
  <2> QED BY <2>4, <2>6
<1>8. ASSUME NEW i \in Kept(raw) PROVE raw[i].t \notin dropped \union {"source"}
  <2>1. CASE i \in values
      BY <1>4, <1>6, <2>1
  <2>2. CASE i \notin values
      BY <1>5, <2>2
  <2> QED BY <2>1, <2>2
<1>9. ASSUME NEW i \in 1..m, i \notin Kept(raw)
      PROVE  raw[i].t \in dropped \union {"source"} \/ i \in ValuesOf(raw, DropWithArg)
  <2>1. CASE i \in values
    <3>1. raw[i - 1].t \in DropWithArg
        BY <1>0, <1>5, <1>9, <2>1
    <3> QED BY <1>3, <1>4, <2>1, <3>1
  <2>2. CASE i \notin values
      BY <1>0, <1>5, <1>9, <2>2
  <2> QED BY <2>1, <2>2
<1>10. Kept(raw) \in SUBSET (1..m)
    BY <1>0, <1>5
<1> QED BY <1>7, <1>8, <1>9, <1>10

\* How strip_for_libclang changes an include directory.
AbsoluteToken(token) == [t |-> token.t, v |-> Absolute(token.v)]
Directories(raw) ==
    {i \in DOMAIN raw : i \in ValuesOf(raw, IncludeSeparate) \/ raw[i].t \in IncludeGlued}

Tokens(Names, Values) == [t : Names, v : Values]
Absolutes(Values) == Values \union {Absolute(x) : x \in Values}
StripToken(raw, i) == IF i \in Directories(raw) THEN AbsoluteToken(raw[i]) ELSE raw[i]

LEMMA WithValue ==
    ASSUME NEW Names, NEW Values, NEW r \in [t : Names, v : Values], NEW x
    PROVE  [r EXCEPT !.v = x] = [t |-> r.t, v |-> x]
OBVIOUS

LEMMA Stripped ==
    ASSUME NEW Names, NEW Values, NEW raw \in Seq(Tokens(Names, Values)), WellFormed(raw),
           NEW K, K = Kept(raw), NEW s, s = MapIncludeValues(At(raw, K), Absolute)
    PROVE  /\ s \in Seq(Tokens(Names, Absolutes(Values)))
           /\ Follows(s, raw, K)
           /\ \A k \in 1..Len(s) :
                 /\ Nth(K, k) \in K
                 /\ s[k] = StripToken(raw, Nth(K, k))
<1> DEFINE m == Len(raw)
           c == Cardinality(K)
           s0 == At(raw, K)
           Kind == Tokens(Names, Values)
           Result == Tokens(Names, Absolutes(Values))
<1>kind. raw \in Seq(Kind)
    OBVIOUS
<1>record. \A x \in Kind : x = [t |-> x.t, v |-> x.v] /\ x.t \in Names /\ x.v \in Values
    BY DEF Tokens
<1>result. \A a \in Names : \A x \in Values :
              [t |-> a, v |-> x] \in Result /\ [t |-> a, v |-> Absolute(x)] \in Result
    BY DEF Tokens, Absolutes
<1> HIDE DEF Kind, Result
<1>0. m \in Nat /\ DOMAIN raw = 1..m /\ K \in SUBSET (1..m) /\ K \subseteq 1..m
    BY KeptPlaces
<1>1. c \in Nat /\ \A k \in 1..c : Nth(K, k) \in K
  <2> HIDE DEF m, c
  <2>1. Cardinality(K) \in Nat /\ \A k \in 1..Cardinality(K) : Nth(K, k) \in K
      BY <1>0, NthPlace
  <2> QED BY <2>1 DEF c
<1>2. \A k \in 1..c : Nth(K, k) \in 1..m /\ raw[Nth(K, k)] \in Kind
    BY <1>kind, <1>0, <1>1
<1>3. /\ s0 = [k \in 1..c |-> raw[Nth(K, k)]] /\ s0 \in Seq(Kind)
      /\ Len(s0) = c /\ DOMAIN s0 = 1..c /\ \A k \in 1..c : s0[k] = raw[Nth(K, k)]
  <2>1. s0 = [k \in 1..c |-> raw[Nth(K, k)]]
      BY DEF At
  <2> HIDE DEF s0
  <2> QED BY <1>1, <1>2, <2>1
<1> HIDE DEF s0
<1>4. Follows(s0, raw, K)
    BY <1>0, <1>3, KeptPlaces DEF Follows
<1>5. ASSUME NEW k \in 1..c
      PROVE  k \in ValuesOf(s0, IncludeSeparate) <=> Nth(K, k) \in ValuesOf(raw, IncludeSeparate)
  <2>1. IncludeSeparate \in SUBSET Taking
      BY DEF IncludeSeparate, Taking
  <2> QED BY <1>kind, <1>1, <1>3, <1>4, <2>1, FollowsKeepsValues
<1>6. s = [k \in 1..c |->
             IF k \in ValuesOf(s0, IncludeSeparate) \/ s0[k].t \in IncludeGlued
             THEN [s0[k] EXCEPT !.v = Absolute(@)] ELSE s0[k]]
    BY <1>3 DEF MapIncludeValues, s0
<1>7. ASSUME NEW k \in 1..c
      PROVE  /\ s[k] = StripToken(raw, Nth(K, k))
             /\ s[k] \in Result /\ s[k].t = raw[Nth(K, k)].t
  <2> DEFINE i == Nth(K, k)
  <2>1. i \in DOMAIN raw /\ raw[i] \in Kind /\ s0[k] = raw[i]
      BY <1>0, <1>2, <1>3
  <2>2. (k \in ValuesOf(s0, IncludeSeparate) \/ s0[k].t \in IncludeGlued) <=> i \in Directories(raw)
      BY <1>5, <2>1 DEF Directories
  <2> HIDE DEF i
  <2>3. [raw[i] EXCEPT !.v = Absolute(@)] = AbsoluteToken(raw[i])
      BY <2>1, WithValue DEF AbsoluteToken, Kind, Tokens
  <2>4. s[k] = IF i \in Directories(raw) THEN AbsoluteToken(raw[i]) ELSE raw[i]
      BY <1>6, <2>1, <2>2, <2>3
  <2>5. AbsoluteToken(raw[i]) \in Result /\ AbsoluteToken(raw[i]).t = raw[i].t
      BY <1>record, <1>result, <2>1 DEF AbsoluteToken
  <2>6. raw[i] \in Result
      BY <1>record, <1>result, <2>1
  <2> QED BY <2>4, <2>5, <2>6 DEF i, StripToken
<1>8. s \in Seq(Result) /\ Len(s) = c /\ DOMAIN s = 1..c
  <2>1. DOMAIN s = 1..c /\ s = [k \in 1..c |-> s[k]]
      BY <1>6
  <2> HIDE DEF c
  <2> QED BY <1>1, <1>7, <2>1
<1>9. Follows(s, raw, K)
    BY <1>0, <1>7, <1>8, KeptPlaces DEF Follows
<1>10. s \in Seq(Tokens(Names, Absolutes(Values)))
    BY <1>8 DEF Result
<1> HIDE DEF c
<1> QED BY <1>1, <1>7, <1>8, <1>9, <1>10

\* sanitize takes nothing from options that the drop rules left.
LEMMA SanitizeIsIdle ==
    ASSUME NEW V, NEW s \in Seq(V), WellFormed(s),
           \A k \in DOMAIN s : s[k].t \notin Drop \union DropWithArg \union DropPrefix
    PROVE  Sanitize(s) = s
<1> DEFINE prefixed == s # << >> /\ s[1].t \in Launchers \union Environment
           values == ValuesOf(s, DropWithArg)
           places == {i \in DOMAIN s : i \notin values
                          /\ s[i].t \notin Drop \union DropWithArg \union DropPrefix}
<1>0. Len(s) \in Nat /\ DOMAIN s = 1..Len(s)
    OBVIOUS
<1>1. ~prefixed
  <2> SUFFICES ASSUME s # << >> PROVE 1 \in DOMAIN s
      BY DEF WellFormed
  <2> QED OBVIOUS
<1>2. values = {}
  <2>1. DropWithArg \in SUBSET Taking
      BY DEF DropWithArg, Taking
  <2>2. values = {i \in 2..Len(s) : s[i - 1].t \in DropWithArg}
      BY <2>1, ValuesFollow
  <2>3. \A i \in 2..Len(s) : i - 1 \in DOMAIN s
      BY <1>0
  <2> QED BY <2>2, <2>3
<1>3. places = DOMAIN s
    BY <1>2
<1>4. Sanitize(s) = At(s, places)
    BY <1>1 DEF Sanitize
<1> QED BY <1>3, <1>4, AtEveryPlace

\* The parts of Reading and of IncludeDirs.
ArgumentOf(o, i) == IF o[i].t \in Taking THEN o[i + 1].v ELSE o[i].v
GivenBy(o, flags) ==
    {ArgumentOf(o, i) : i \in {j \in DOMAIN o \ ValuesOf(o, Taking) : o[j].t \in flags}}
DirectoryAt(o, i) ==
    IF i \in ValuesOf(o, IncludeSeparate) THEN <<o[i - 1].t, o[i].v>>
    ELSE <<IF o[i].t = "-I=" THEN "-I" ELSE "-isystem", o[i].v>>

LEMMA ReadingParts ==
    ASSUME NEW o
    PROVE  /\ Reading(o) = [dirs |-> IncludeDirs(o), macros |-> GivenBy(o, {"-D", "-D="}),
                            forced |-> GivenBy(o, {"-include", "-x"}),
                            inputs |-> GivenBy(o, {"word"})]
           /\ IncludeDirs(o) = At([i \in DOMAIN o |-> DirectoryAt(o, i)], Directories(o))
<1>1. Reading(o) = [dirs |-> IncludeDirs(o), macros |-> GivenBy(o, {"-D", "-D="}),
                    forced |-> GivenBy(o, {"-include", "-x"}), inputs |-> GivenBy(o, {"word"})]
    BY Zenon DEF Reading, GivenBy, ArgumentOf
<1>2. IncludeDirs(o) = At([i \in DOMAIN o |-> DirectoryAt(o, i)], Directories(o))
    BY Zenon DEF IncludeDirs, DirectoryAt, Directories
<1> QED BY <1>1, <1>2

\* All that the places of the kept tokens say of the stripped options s of raw.
Strips(s, raw, K) ==
    /\ Len(raw) \in Nat /\ DOMAIN raw = 1..Len(raw)
    /\ Len(s) \in Nat /\ DOMAIN s = 1..Len(s)
    /\ K \subseteq 1..Len(raw)
    /\ WellFormed(raw) /\ WellFormed(s)
    /\ \A k \in 1..Len(s) :
          /\ Nth(K, k) \in K /\ Nth(K, k) \in 1..Len(raw) /\ s[k].t = raw[Nth(K, k)].t
          /\ s[k] = StripToken(raw, Nth(K, k))
          /\ raw[Nth(K, k)].t \in Taking => k + 1 \in 1..Len(s) /\ Nth(K, k + 1) = Nth(K, k) + 1
    /\ \A i \in K : \E k \in 1..Len(s) : Nth(K, k) = i
    /\ \A k, l \in 1..Len(s) : k < l => Nth(K, k) < Nth(K, l)
    /\ \A T \in SUBSET Taking : \A k \in 1..Len(s) :
          /\ k \in ValuesOf(s, T) <=> Nth(K, k) \in ValuesOf(raw, T)
          /\ k \in ValuesOf(s, T) => k - 1 \in 1..Len(s) /\ Nth(K, k - 1) = Nth(K, k) - 1
    /\ \A T \in SUBSET Taking : ValuesOf(raw, T) = {i \in 2..Len(raw) : raw[i - 1].t \in T}
    /\ \A i \in K : raw[i].t \notin Drop \union DropWithArg \union DropPrefix \union {"source"}
    /\ \A i \in 1..Len(raw) : i \notin K =>
          \/ raw[i].t \in Drop \union DropWithArg \union DropPrefix \union {"source"}
          \/ i \in ValuesOf(raw, DropWithArg)

LEMMA StrippedIs ==
    ASSUME NEW Names, NEW Values, NEW raw \in Seq(Tokens(Names, Values)), WellFormed(raw),
           NEW K, K = Kept(raw), NEW s, s = MapIncludeValues(At(raw, K), Absolute)
    PROVE  Strips(s, raw, K)
<1> DEFINE Kind == Tokens(Names, Values)
           Result == Tokens(Names, Absolutes(Values))
<1>1. /\ s \in Seq(Tokens(Names, Absolutes(Values)))
      /\ Follows(s, raw, K)
      /\ \A k \in 1..Len(s) : /\ Nth(K, k) \in K
                             /\ s[k] = StripToken(raw, Nth(K, k))
    BY Stripped
<1>2. s \in Seq(Result) /\ Follows(s, raw, K)
    BY <1>1
<1>3. \A k \in 1..Len(s) : Nth(K, k) \in K /\ s[k] = StripToken(raw, Nth(K, k))
    BY <1>1
<1>4. raw \in Seq(Kind)
    OBVIOUS
<1> HIDE DEF Kind, Result
<1>5. /\ Len(raw) \in Nat /\ DOMAIN raw = 1..Len(raw) /\ Len(s) \in Nat /\ DOMAIN s = 1..Len(s)
    BY <1>2, <1>4
<1>6. /\ \A k \in 1..Len(s) : /\ Nth(K, k) \in K
                             /\ raw[Nth(K, k)].t \in Taking =>
                                   k + 1 \in 1..Len(s) /\ Nth(K, k + 1) = Nth(K, k) + 1
      /\ \A i \in K : \E k \in 1..Len(s) : Nth(K, k) = i
      /\ \A k, l \in 1..Len(s) : k < l => Nth(K, k) < Nth(K, l)
      /\ WellFormed(s)
      /\ \A T \in SUBSET Taking : \A k \in 1..Len(s) :
            /\ k \in ValuesOf(s, T) <=> Nth(K, k) \in ValuesOf(raw, T)
            /\ k \in ValuesOf(s, T) => k - 1 \in 1..Len(s) /\ Nth(K, k - 1) = Nth(K, k) - 1
    BY <1>2, <1>4, FollowsKeepsValues
<1>7. \A T \in SUBSET Taking : ValuesOf(raw, T) = {i \in 2..Len(raw) : raw[i - 1].t \in T}
    BY <1>4, ValuesFollow
<1>8. /\ \A i \in K : raw[i].t \notin Drop \union DropWithArg \union DropPrefix \union {"source"}
      /\ \A i \in 1..Len(raw) : i \notin K =>
            \/ raw[i].t \in Drop \union DropWithArg \union DropPrefix \union {"source"}
            \/ i \in ValuesOf(raw, DropWithArg)
    BY <1>4, KeptPlaces
<1>9. /\ K \subseteq 1..Len(raw)
      /\ \A k \in 1..Len(s) : s[k].t = raw[Nth(K, k)].t
    BY <1>2 DEF Follows
<1>10. \A k \in 1..Len(s) :
          /\ Nth(K, k) \in K /\ Nth(K, k) \in 1..Len(raw) /\ s[k].t = raw[Nth(K, k)].t
          /\ s[k] = StripToken(raw, Nth(K, k))
          /\ raw[Nth(K, k)].t \in Taking => k + 1 \in 1..Len(s) /\ Nth(K, k + 1) = Nth(K, k) + 1
  <2> TAKE k \in 1..Len(s)
  <2>0. Nth(K, k) \in K
      BY <1>3
  <2>1. Nth(K, k) \in K /\ Nth(K, k) \in 1..Len(raw)
      BY <1>9, <2>0
  <2> QED BY <1>3, <1>6, <1>9, <2>1
<1> QED BY <1>5, <1>6, <1>7, <1>8, <1>9, <1>10 DEF Strips

\* Stripping leaves the macros, the forced files and the inputs.
LEMMA SameGiven ==
    ASSUME NEW s, NEW raw, NEW K, Strips(s, raw, K),
           NEW flags \in SUBSET {"-D", "-D=", "-include", "-x", "word"}
    PROVE  GivenBy(s, flags) = GivenBy(raw, flags)
<1> DEFINE m == Len(raw)
           c == Len(s)
<1>1. \A k \in 1..c : s[k] = StripToken(raw, Nth(K, k))
    BY DEF Strips
<1>2. /\ \A k \in 1..c : /\ Nth(K, k) \in K /\ Nth(K, k) \in 1..m
                         /\ raw[Nth(K, k)].t \in Taking =>
                               k + 1 \in 1..c /\ Nth(K, k + 1) = Nth(K, k) + 1
      /\ \A i \in K : \E k \in 1..c : Nth(K, k) = i
      /\ \A T \in SUBSET Taking : \A k \in 1..c :
             k \in ValuesOf(s, T) <=> Nth(K, k) \in ValuesOf(raw, T)
    BY DEF Strips
<1>3. /\ m \in Nat /\ DOMAIN raw = 1..m /\ c \in Nat /\ DOMAIN s = 1..c /\ K \subseteq 1..m
      /\ \A k \in 1..c : s[k].t = raw[Nth(K, k)].t
      /\ WellFormed(raw)
    BY DEF Strips
<1>4. \A T \in SUBSET Taking : ValuesOf(raw, T) = {i \in 2..m : raw[i - 1].t \in T}
    BY DEF Strips
<1>5. flags \subseteq {"-D", "-D=", "-include", "-x", "word"}
    OBVIOUS
<1>6. ASSUME NEW i \in 1..m, i \notin ValuesOf(raw, Taking), raw[i].t \in flags PROVE i \in K
  <2>1. raw[i].t \notin Drop \union DropWithArg \union DropPrefix \union {"source"}
      BY <1>5, <1>6 DEF Drop, DropWithArg, DropPrefix
  <2>2. i \notin ValuesOf(raw, DropWithArg)
    <3>1. DropWithArg \in SUBSET Taking /\ Taking \in SUBSET Taking
        BY DEF DropWithArg, Taking
    <3>2. ValuesOf(raw, Taking) = {j \in 2..m : raw[j - 1].t \in Taking}
        BY <1>4, <3>1
    <3>3. ValuesOf(raw, DropWithArg) = {j \in 2..m : raw[j - 1].t \in DropWithArg}
        BY <1>4, <3>1
    <3> QED BY <1>6, <3>1, <3>2, <3>3
  <2> QED BY <2>1, <2>2 DEF Strips
<1> HIDE DEF m, c
\* A token that is no include directory is kept as it is.
<1>7. ASSUME NEW k \in 1..c, Nth(K, k) \notin Directories(raw) PROVE s[k] = raw[Nth(K, k)]
    BY <1>1, <1>7 DEF StripToken
<1>8. ASSUME NEW k \in 1..c, Nth(K, k) \notin ValuesOf(raw, Taking), raw[Nth(K, k)].t \in flags
      PROVE  ArgumentOf(s, k) = ArgumentOf(raw, Nth(K, k))
  <2> DEFINE i == Nth(K, k)
  <2>0. i \in K /\ i \in 1..m /\ i \in Nat /\ s[k].t = raw[i].t
    <3>1. i \in K /\ i \in 1..m /\ s[k].t = raw[i].t
        BY <1>2, <1>3
    <3> QED BY <1>3, <3>1
  <2>1. IncludeSeparate \in SUBSET Taking /\ Taking \in SUBSET Taking
      BY DEF IncludeSeparate, Taking
  <2>2. ValuesOf(raw, IncludeSeparate) = {j \in 2..m : raw[j - 1].t \in IncludeSeparate}
      BY <1>4, <2>1
  <2>3. ValuesOf(raw, Taking) = {j \in 2..m : raw[j - 1].t \in Taking}
      BY <1>4, <2>1
  <2>4. raw[i].t \notin IncludeGlued /\ raw[i].t \notin IncludeSeparate
      BY <1>5, <1>8 DEF IncludeGlued, IncludeSeparate
  <2>5. i \notin Directories(raw)
      BY <1>8, <2>1, <2>2, <2>3, <2>4 DEF Directories
  <2>6. CASE raw[i].t \notin Taking
      BY <1>7, <2>0, <2>5, <2>6 DEF ArgumentOf
  <2>7. CASE raw[i].t \in Taking
    <3>1. k + 1 \in 1..c /\ Nth(K, k + 1) = i + 1
        BY <1>2, <2>7
    <3>2. raw[i + 1].t = "word"
        BY <1>3, <2>0, <2>7 DEF WellFormed
    <3>4. i + 1 \notin ValuesOf(raw, IncludeSeparate)
      <4> SUFFICES ASSUME i + 1 \in ValuesOf(raw, IncludeSeparate) PROVE FALSE
          OBVIOUS
      <4>1. \A h \in Nat : h + 1 \in ValuesOf(raw, IncludeSeparate) => raw[h].t \in IncludeSeparate
        <5> SUFFICES ASSUME NEW h \in Nat, h + 1 \in ValuesOf(raw, IncludeSeparate)
                     PROVE  raw[h].t \in IncludeSeparate
            OBVIOUS
        <5>1. h + 1 - 1 = h
            OBVIOUS
        <5> QED BY <2>2, <5>1
      <4>2. raw[i].t \in IncludeSeparate
          BY <2>0, <4>1
      <4> QED BY <2>4, <4>2
    <3>5. i + 1 \notin Directories(raw)
        BY <3>2, <3>4 DEF Directories, IncludeGlued
    <3>6. s[k + 1] = raw[i + 1]
        BY <1>7, <3>1, <3>5
    <3> QED BY <2>0, <2>7, <3>6 DEF ArgumentOf
  <2> QED BY <2>6, <2>7
<1>9. Taking \in SUBSET Taking
    OBVIOUS
<1>10. ASSUME NEW x \in GivenBy(s, flags) PROVE x \in GivenBy(raw, flags)
  <2>1. PICK k \in 1..c : k \notin ValuesOf(s, Taking) /\ s[k].t \in flags /\ x = ArgumentOf(s, k)
      BY <1>3 DEF GivenBy
  <2> DEFINE i == Nth(K, k)
  <2>2. i \in DOMAIN raw /\ i \notin ValuesOf(raw, Taking) /\ raw[i].t \in flags
      BY <1>2, <1>3, <1>9, <2>1
  <2>3. x = ArgumentOf(raw, i)
      BY <1>8, <2>1, <2>2
  <2> QED BY <2>2, <2>3 DEF GivenBy
<1>11. ASSUME NEW x \in GivenBy(raw, flags) PROVE x \in GivenBy(s, flags)
  <2>1. PICK i \in 1..m : i \notin ValuesOf(raw, Taking) /\ raw[i].t \in flags
                          /\ x = ArgumentOf(raw, i)
      BY <1>3 DEF GivenBy
  <2>2. PICK k \in 1..c : Nth(K, k) = i
      BY <1>2, <1>6, <2>1
  <2>3. k \in DOMAIN s /\ k \notin ValuesOf(s, Taking) /\ s[k].t \in flags
      BY <1>2, <1>3, <1>9, <2>1, <2>2
  <2>4. x = ArgumentOf(s, k)
      BY <1>8, <2>1, <2>2
  <2> QED BY <2>3, <2>4 DEF GivenBy
<1> QED BY <1>10, <1>11

\* Stripping leaves the include directories in their order and makes them absolute.
LEMMA SameDirectories ==
    ASSUME NEW s, NEW raw, NEW K, Strips(s, raw, K)
    PROVE  IncludeDirs(s) =
               [n \in DOMAIN IncludeDirs(raw) |->
                   <<IncludeDirs(raw)[n][1], Absolute(IncludeDirs(raw)[n][2])>>]
<1> DEFINE m == Len(raw)
           c == Len(s)
           P == Directories(raw)
           Q == Directories(s)
           q == Cardinality(Q)
           f == [n \in 1..q |-> Nth(K, Nth(Q, n))]
<1>1. /\ m \in Nat /\ DOMAIN raw = 1..m /\ c \in Nat /\ DOMAIN s = 1..c /\ K \subseteq 1..m
      /\ WellFormed(raw)
    BY DEF Strips
<1>2. \A k \in 1..c : Nth(K, k) \in K /\ Nth(K, k) \in 1..m /\ s[k].t = raw[Nth(K, k)].t
    BY DEF Strips
<1>3. \A k \in 1..c : s[k] = StripToken(raw, Nth(K, k))
    BY DEF Strips
<1>4. \A i \in K : \E k \in 1..c : Nth(K, k) = i
    BY DEF Strips
<1>5. \A k, l \in 1..c : k < l => Nth(K, k) < Nth(K, l)
    BY DEF Strips
<1>6. \A k \in 1..c :
         /\ k \in ValuesOf(s, IncludeSeparate) <=> Nth(K, k) \in ValuesOf(raw, IncludeSeparate)
         /\ k \in ValuesOf(s, IncludeSeparate) =>
               k - 1 \in 1..c /\ Nth(K, k - 1) = Nth(K, k) - 1
  <2>1. IncludeSeparate \in SUBSET Taking
      BY DEF IncludeSeparate, Taking
  <2> QED BY <2>1 DEF Strips
<1>7. /\ ValuesOf(raw, IncludeSeparate) = {i \in 2..m : raw[i - 1].t \in IncludeSeparate}
      /\ ValuesOf(raw, DropWithArg) = {i \in 2..m : raw[i - 1].t \in DropWithArg}
  <2>1. IncludeSeparate \in SUBSET Taking /\ DropWithArg \in SUBSET Taking
      BY DEF IncludeSeparate, DropWithArg, Taking
  <2> QED BY <2>1 DEF Strips
<1>8. \A i \in 1..m : i \notin K =>
         \/ raw[i].t \in Drop \union DropWithArg \union DropPrefix \union {"source"}
         \/ i \in ValuesOf(raw, DropWithArg)
    BY DEF Strips
<1> HIDE DEF m, c, P, Q, q
<1>9. \A k \in 1..c : k \in Q <=> Nth(K, k) \in P
    BY <1>1, <1>2, <1>6 DEF P, Q, Directories
<1>10. P \subseteq 1..m /\ Q \in SUBSET (1..c)
    BY <1>1 DEF P, Q, Directories
<1>11. ASSUME NEW i \in P PROVE i \in K
  <2> SUFFICES ASSUME i \notin K PROVE FALSE
      OBVIOUS
  <2>1. \A j \in 2..m : raw[j - 1].t \in Taking => raw[j].t = "word"
    <3> TAKE j \in 2..m
    <3>1. j - 1 \in DOMAIN raw /\ j - 1 + 1 = j
        BY <1>1
    <3> QED BY <1>1, <3>1 DEF WellFormed
  <2>2. i \in 1..m
      BY <1>10
  <2>3. CASE i \in ValuesOf(raw, IncludeSeparate)
    <3>1. i \in 2..m /\ raw[i - 1].t \in IncludeSeparate
        BY <1>7, <2>3
    <3>2. raw[i].t = "word"
        BY <2>1, <3>1 DEF IncludeSeparate, Taking
    <3>3. raw[i - 1].t \in DropWithArg
        BY <1>7, <1>8, <2>2, <3>2 DEF Drop, DropWithArg, DropPrefix
    <3> QED BY <3>1, <3>3 DEF IncludeSeparate, DropWithArg
  <2>4. CASE raw[i].t \in IncludeGlued
    <3>1. i \in ValuesOf(raw, DropWithArg)
        BY <1>8, <2>2, <2>4 DEF Drop, DropWithArg, DropPrefix, IncludeGlued
    <3>2. i \in 2..m /\ raw[i - 1].t \in DropWithArg
        BY <1>7, <3>1
    <3>3. raw[i].t = "word"
        BY <2>1, <3>2 DEF DropWithArg, Taking
    <3> QED BY <2>4, <3>3 DEF IncludeGlued
  <2> QED BY <2>3, <2>4 DEF P, Directories
<1>12. /\ q \in Nat /\ \A n \in 1..q : Nth(Q, n) \in Q
       /\ \A k \in Q : Rank(Q, k) \in 1..q /\ Nth(Q, Rank(Q, k)) = k
       /\ \A n, l \in 1..q : n < l => Nth(Q, n) < Nth(Q, l)
    BY <1>1, <1>10, NthPlace DEF q
<1>13. \A n \in 1..q : Nth(Q, n) \in 1..c /\ Nth(Q, n) \in Q /\ Nth(K, Nth(Q, n)) \in P
    BY <1>9, <1>10, <1>12
<1>14. q = Cardinality(P) /\ \A n \in 1..q : Nth(P, n) = f[n]
  <2>1. f \in [1..q -> P]
      BY <1>13
  <2>2. ASSUME NEW i \in P PROVE \E n \in 1..q : f[n] = i
    <3>1. PICK k \in 1..c : Nth(K, k) = i
        BY <1>4, <1>11
    <3>2. k \in Q
        BY <1>9, <3>1
    <3>3. Rank(Q, k) \in 1..q /\ f[Rank(Q, k)] = i
        BY <1>12, <3>1, <3>2
    <3> QED BY <3>3
  <2>3. ASSUME NEW n \in 1..q, NEW l \in 1..q, n < l PROVE f[n] < f[l]
      BY <1>5, <1>12, <1>13, <2>3
  <2> HIDE DEF f
  <2>4. P \in SUBSET (1..m)
      BY <1>10
  <2>5. m \in Nat /\ q \in Nat
      BY <1>1, <1>12
  <2>6. (\A i \in P : \E n \in 1..q : f[n] = i) /\ \A n, l \in 1..q : n < l => f[n] < f[l]
      BY <2>2, <2>3
  <2> QED BY <2>1, <2>4, <2>5, <2>6, NthIsUnique
<1>15. ASSUME NEW k \in Q
       PROVE  DirectoryAt(s, k) = <<DirectoryAt(raw, Nth(K, k))[1],
                                    Absolute(DirectoryAt(raw, Nth(K, k))[2])>>
  <2> DEFINE i == Nth(K, k)
  <2>1. k \in 1..c /\ i \in P /\ s[k].t = raw[i].t
      BY <1>2, <1>9, <1>10
  <2>2. s[k].v = Absolute(raw[i].v)
    <3>1. s[k] = StripToken(raw, i)
        BY <1>3, <2>1
    <3> HIDE DEF i
    <3> QED BY <2>1, <3>1 DEF StripToken, AbsoluteToken, P
  <2>3. CASE k \in ValuesOf(s, IncludeSeparate)
    <3>1. i \in ValuesOf(raw, IncludeSeparate) /\ k - 1 \in 1..c /\ Nth(K, k - 1) = i - 1
        BY <1>6, <2>1, <2>3
    <3>2. s[k - 1].t = raw[i - 1].t
        BY <1>2, <3>1
    <3> QED BY <2>2, <2>3, <3>1, <3>2 DEF DirectoryAt
  <2>4. CASE k \notin ValuesOf(s, IncludeSeparate)
    <3>1. i \notin ValuesOf(raw, IncludeSeparate)
        BY <1>6, <2>1, <2>4
    <3> QED BY <2>1, <2>2, <2>4, <3>1 DEF DirectoryAt
  <2> QED BY <2>3, <2>4
<1>16. IncludeDirs(s) = [n \in 1..q |-> DirectoryAt(s, Nth(Q, n))]
  <2>1. IncludeDirs(s) = At([k \in DOMAIN s |-> DirectoryAt(s, k)], Q)
      BY ReadingParts DEF Q
  <2>2. \A n \in 1..q : [k \in DOMAIN s |-> DirectoryAt(s, k)][Nth(Q, n)] = DirectoryAt(s, Nth(Q, n))
      BY <1>1, <1>13
  <2>3. IncludeDirs(s) = [n \in 1..q |-> [k \in DOMAIN s |-> DirectoryAt(s, k)][Nth(Q, n)]]
      BY <2>1 DEF At, q
  <2> QED BY <2>2, <2>3
<1>17. IncludeDirs(raw) = [n \in 1..q |-> DirectoryAt(raw, Nth(K, Nth(Q, n)))]
  <2> DEFINE g == [i \in DOMAIN raw |-> DirectoryAt(raw, i)]
  <2>1. IncludeDirs(raw) = At(g, P)
      BY ReadingParts DEF P
  <2>2. IncludeDirs(raw) = [n \in 1..q |-> g[Nth(P, n)]]
      BY <1>14, <2>1 DEF At
  <2>3. \A n \in 1..q : g[Nth(P, n)] = DirectoryAt(raw, Nth(K, Nth(Q, n)))
      BY <1>1, <1>10, <1>13, <1>14
  <2> HIDE DEF g
  <2> QED BY <2>2, <2>3
<1> HIDE DEF f
<1>18. \A n \in 1..q : DirectoryAt(s, Nth(Q, n)) =
          <<IncludeDirs(raw)[n][1], Absolute(IncludeDirs(raw)[n][2])>>
    BY <1>13, <1>15, <1>17
<1>19. DOMAIN IncludeDirs(raw) = 1..q
    BY <1>17
<1> QED BY <1>16, <1>18, <1>19

\* The options that are stored for a compile command which a compiler accepts, and sanitized
\* when they are used, are read by libclang as the build's compiler reads the command: the
\* same include directories in the same order, macros, forced files and inputs, however many
\* options there are (compiledb.py, strip_for_libclang and sanitize).

LEMMA ArgumentsType ==
    ASSUME NEW V, NEW args \in Seq(V)
    PROVE  Arguments(args) \in Seq(V)
<1> DEFINE compilers == {i \in DOMAIN args : args[i].t \notin Launchers \union Environment}
<1>1. CommandStart(args) \in Nat /\ CommandStart(args) >= 1
  <2>1. CASE compilers = {}
      BY <2>1 DEF CommandStart
  <2>2. CASE compilers # {}
    <3>1. compilers \in SUBSET Nat /\ \A i \in compilers : i \in Nat /\ i >= 1
        OBVIOUS
    <3>2. CommandStart(args) = Min(compilers)
        BY <2>2 DEF CommandStart
    <3> HIDE DEF compilers
    <3>3. \E x \in compilers : \A y \in compilers : x <= y
        BY <2>2, <3>1, LeastNumber
    <3>4. Min(compilers) \in compilers
        BY <3>3 DEF Min
    <3> QED BY <3>1, <3>2, <3>4
  <2> QED BY <2>1, <2>2
<1> QED BY <1>1 DEF Arguments

\* The options that are stored for a compile command which a compiler accepts, and sanitized
\* when they are used, are read by libclang as the build's compiler reads the command: the
\* same include directories in the same order, macros, forced files and inputs, however many
\* options there are (compiledb.py, strip_for_libclang and sanitize).
THEOREM StrippingKeepsTheReading ==
    ASSUME NEW Names, NEW Values, command \in Seq([t : Names, v : Values]),
           WellFormed(Arguments(command))
    PROVE  LibclangReadsTheBuild
<1> DEFINE raw == Arguments(command)
           K == Kept(raw)
           s == MapIncludeValues(At(raw, K), Absolute)
<1>1. raw \in Seq(Tokens(Names, Values))
    BY ArgumentsType DEF Tokens
<1>2. StripForLibclang(command) = s
    BY DEF StripForLibclang, Arguments, Kept
<1>3. s \in Seq(Tokens(Names, Absolutes(Values)))
    BY <1>1, Stripped
<1>4. Strips(s, raw, K)
    BY <1>1, StrippedIs
<1> HIDE DEF raw, s, K
<1>5. Sanitize(s) = s
  <2>1. WellFormed(s) /\ DOMAIN s = 1..Len(s)
      BY <1>4 DEF Strips
  <2>2. \A k \in 1..Len(s) : Nth(K, k) \in K /\ s[k].t = raw[Nth(K, k)].t
      BY <1>4 DEF Strips
  <2>3. \A i \in K : raw[i].t \notin Drop \union DropWithArg \union DropPrefix \union {"source"}
      BY <1>4 DEF Strips
  <2>4. \A k \in DOMAIN s : s[k].t \notin Drop \union DropWithArg \union DropPrefix
      BY <2>1, <2>2, <2>3
  <2> QED BY <1>3, <2>1, <2>4, SanitizeIsIdle
<1> DEFINE D == IncludeDirs(raw)
           absolute == [n \in DOMAIN D |-> <<D[n][1], Absolute(D[n][2])>>]
<1>6. IncludeDirs(s) = absolute
    BY <1>4, SameDirectories
<1>7. \A flags \in SUBSET {"-D", "-D=", "-include", "-x", "word"} :
         GivenBy(s, flags) = GivenBy(raw, flags)
    BY <1>4, SameGiven
<1>8. Reading(s) = [dirs |-> absolute, macros |-> GivenBy(raw, {"-D", "-D="}),
                    forced |-> GivenBy(raw, {"-include", "-x"}), inputs |-> GivenBy(raw, {"word"})]
  <2>1. /\ GivenBy(s, {"-D", "-D="}) = GivenBy(raw, {"-D", "-D="})
        /\ GivenBy(s, {"-include", "-x"}) = GivenBy(raw, {"-include", "-x"})
        /\ GivenBy(s, {"word"}) = GivenBy(raw, {"word"})
      BY <1>7
  <2> HIDE DEF absolute
  <2> QED BY <1>6, <2>1, ReadingParts
<1>9. Reading(raw) = [dirs |-> D, macros |-> GivenBy(raw, {"-D", "-D="}),
                       forced |-> GivenBy(raw, {"-include", "-x"}),
                       inputs |-> GivenBy(raw, {"word"})]
    BY ReadingParts
<1>10. Built(command) = [dirs |-> absolute, macros |-> GivenBy(raw, {"-D", "-D="}),
                         forced |-> GivenBy(raw, {"-include", "-x"}),
                         inputs |-> GivenBy(raw, {"word"})]
  <2> DEFINE r == Reading(raw)
             relative == [i \in DOMAIN r.dirs |-> <<r.dirs[i][1], Absolute(r.dirs[i][2])>>]
  <2>1. Built(command) = [r EXCEPT !.dirs = relative]
      BY DEF Built, raw
  <2>2. r.dirs = D
      BY <1>9
  <2> HIDE DEF r
  <2>3. relative = absolute
      BY <2>2
  <2>4. r = [dirs |-> D, macros |-> r.macros, forced |-> r.forced, inputs |-> r.inputs]
        /\ r.macros = GivenBy(raw, {"-D", "-D="}) /\ r.forced = GivenBy(raw, {"-include", "-x"})
        /\ r.inputs = GivenBy(raw, {"word"})
      BY <1>9 DEF r
  <2> HIDE DEF relative, absolute, D
  <2>5. [r EXCEPT !.dirs = relative] =
           [dirs |-> relative, macros |-> r.macros, forced |-> r.forced, inputs |-> r.inputs]
      BY <2>4
  <2> QED BY <2>1, <2>3, <2>4, <2>5
<1> QED BY <1>2, <1>5, <1>8, <1>10 DEF LibclangReadsTheBuild

-----------------------------------------------------------------------------
(* Migration.  The invariant says, of the step that comes next, what the        *)
(* connection sees; and that what is on disk may be opened anew wherever a      *)
(* death may come.                                                            *)

\* The steps of the script that add a column.
ColumnSteps == (1..40) \ ({2, 6} \union (11..14) \union (30..40))

LEMMA ScriptLength == DOMAIN Script = 1..40 /\ Len(Script) = 40
BY DEF Script

LEMMA ScriptSteps ==
    /\ Script[1] = Column("symbol", "qual_name", "qual_name")
    /\ Script[2] = Do("fill_qual_name")
    /\ Script[3] = Column("symbol", "decl_file_id", "decl_file_id")
    /\ Script[4] = Column("symbol", "decl_file_id", "decl_line")
    /\ Script[5] = Column("symbol", "decl_file_id", "decl_col")
    /\ Script[6] = Do("fill_decl")
    /\ Script[7] = Column("symbol", "is_pure", "is_pure")
    /\ Script[8] = Column("symbol", "is_static", "is_static")
    /\ Script[9] = Column("symbol", "is_instantiation", "is_instantiation")
    /\ Script[10] = Column("symbol", "decl_path", "decl_path")
    /\ Script[11] = Do("kind_new")
    /\ Script[12] = Do("kind_copy")
    /\ Script[13] = Do("kind_drop")
    /\ Script[14] = Do("kind_rename")
    /\ Script[15] = Column("symbol", "is_named_instance", "is_named_instance")
    /\ Script[16] = Column("symbol", "end_line", "end_line")
    /\ Script[17] = Column("symbol", "end_line", "end_col")
    /\ Script[18] = Column("symbol", "multi_def", "multi_def")
    /\ Script[19] = Column("definition", "init_text", "init_text")
    /\ Script[20] = Column("file", "driver", "driver")
    /\ Script[21] = Column("file", "args_overridden", "args_overridden")
    /\ Script[22] = Column("edge_site", "recv_src_kind", "recv_src_kind")
    /\ Script[23] = Column("edge_site", "recv_src_kind", "recv_type_usr")
    /\ Script[24] = Column("edge_site", "recv_src_kind", "recv_decl_usr")
    /\ Script[25] = Column("edge_site", "recv_param_pos", "recv_param_pos")
    /\ Script[26] = Column("edge_site", "recv_type_is_value", "recv_type_is_value")
    /\ Script[27] = Column("call_arg", "type_is_value", "type_is_value")
    /\ Script[28] = Column("component", "version", "version")
    /\ Script[29] = Column("component", "repository_id", "repository_id")
    /\ Script[30] = Do("comp_new")
    /\ Script[31] = Do("comp_copy")
    /\ Script[32] = Do("comp_drop")
    /\ Script[33] = Do("comp_rename")
    /\ Script[34] = Do("relativize")
    /\ Script[35] = Do("nests")
    /\ Script[36] = Do("realizes")
    /\ Script[37] = Do("dedup")
    /\ Script[38] = Do("stamp")
    /\ Script[39] = Do("schema")
    /\ Script[40] = Do("entity_nodes")
BY DEF Script

LEMMA ColumnsAre == \A i \in 1..40 : Script[i].do = "column" <=> i \in ColumnSteps
BY ScriptSteps DEF ColumnSteps, Do, Column

\* The step of the column that gates a step.
GateOf(i) == CASE i \in {4, 5} -> 3 [] i = 17 -> 16 [] i \in {23, 24} -> 22 [] OTHER -> i

LEMMA ColumnFacts ==
    \A i \in ColumnSteps :
        /\ GateOf(i) \in ColumnSteps
        /\ Script[i].gate = Script[GateOf(i)].what
        /\ Script[i].table = Script[GateOf(i)].table
        /\ Script[i].table \in AllTables
        /\ (i < 11 => Script[i].table = "symbol" /\ Script[i].what \in RebuiltColumns)
BY ScriptSteps DEF ColumnSteps, Do, Column, GateOf, AllTables, RebuiltColumns

LEMMA ColumnsDiffer == \A i, j \in ColumnSteps : Script[i].what = Script[j].what => i = j
<1> SUFFICES ASSUME NEW i \in ColumnSteps, NEW j \in ColumnSteps, i < j
             PROVE  Script[i].what # Script[j].what
  BY DEF ColumnSteps
<1> QED
  BY ScriptSteps DEF ColumnSteps, Do, Column

LEMMA AllColumnsAre ==
    /\ AllColumns = {Script[i].what : i \in ColumnSteps}
    /\ \A i \in ColumnSteps : TableOf(Script[i].what) = Script[i].table
<1>1. \A s : s \in ToSet(Script) <=> \E i \in 1..40 : Script[i] = s
  BY ScriptLength DEF ToSet
<1>2. \A c : c \in AllColumns <=> \E s \in ToSet(Script) : s.do = "column" /\ s.what = c
  BY DEF AllColumns
<1>3. AllColumns = {Script[i].what : i \in ColumnSteps}
  <2>1. \A i \in ColumnSteps : i \in 1..40
    BY DEF ColumnSteps
  <2>2. \A c : c \in AllColumns => \E i \in ColumnSteps : Script[i].what = c
    BY <1>1, <1>2, ColumnsAre
  <2>3. \A i \in ColumnSteps : Script[i].what \in AllColumns
    BY <1>1, <1>2, <2>1, ColumnsAre
  <2> QED
    BY <2>2, <2>3
<1>4. ASSUME NEW i \in ColumnSteps PROVE TableOf(Script[i].what) = Script[i].table
  <2> DEFINE P(s) == s \in ToSet(Script) /\ s.do = "column" /\ s.what = Script[i].what
             t == CHOOSE s \in ToSet(Script) : s.do = "column" /\ s.what = Script[i].what
  <2>1. Script[i] \in ToSet(Script) /\ Script[i].do = "column"
    BY <1>1, ColumnsAre DEF ColumnSteps
  <2>2. t \in ToSet(Script) /\ t.do = "column" /\ t.what = Script[i].what
    BY <2>1
  <2>3. PICK j \in 1..40 : Script[j] = t
    BY <2>2, <1>1
  <2>4. j \in ColumnSteps
    BY <2>2, <2>3, ColumnsAre
  <2>5. j = i
    BY <2>2, <2>3, <2>4, ColumnsDiffer
  <2> QED
    BY <2>3, <2>5 DEF TableOf
<1> QED
  BY <1>3, <1>4

LEMMA OtherSteps ==
    \A i \in 1..40 :
        /\ Script[i].do = "fill_qual_name" <=> i = 2
        /\ Script[i].do = "fill_decl" <=> i = 6
        /\ Script[i].do = "kind_new" <=> i = 11
        /\ Script[i].do = "kind_copy" <=> i = 12
        /\ Script[i].do = "kind_drop" <=> i = 13
        /\ Script[i].do = "kind_rename" <=> i = 14
        /\ Script[i].do = "comp_new" <=> i = 30
        /\ Script[i].do = "comp_copy" <=> i = 31
        /\ Script[i].do = "comp_drop" <=> i = 32
        /\ Script[i].do = "comp_rename" <=> i = 33
        /\ Script[i].do = "relativize" <=> i = 34
        /\ Script[i].do = "nests" <=> i = 35
        /\ Script[i].do = "realizes" <=> i = 36
        /\ Script[i].do = "dedup" <=> i = 37
        /\ Script[i].do = "stamp" <=> i = 38
        /\ Script[i].do = "schema" <=> i = 39
        /\ Script[i].do = "entity_nodes" <=> i = 40
BY ScriptSteps DEF Do, Column

\* The steps that no death may precede.
Delicate == {2} \union (4..14) \union {17, 23, 24} \union (31..33) \union {40}

Images ==
    [version : Int, tables : SUBSET (AllTables \union {"symbol_new", "component_new"}),
     cols : SUBSET AllColumns, kindInt : BOOLEAN, perRepo : BOOLEAN,
     rows : SUBSET {"symbol", "component", "symbol_new", "component_new"},
     done : SUBSET Conversions]

Connections ==
    [pc : 0..40, open : BOOLEAN, image : Images, seen : SUBSET AllColumns,
     tables : SUBSET AllTables, fresh : BOOLEAN, changed : BOOLEAN, backfill : BOOLEAN]

\* Columns that are added together are there together.
Grouped(cols) == \A i \in ColumnSteps : Script[i].what \in cols <=> Script[i].gate \in cols

\* A database that an opening may start from.
Sound(d) ==
    /\ d.version <= SCHEMA_VERSION
    /\ {"symbol", "component"} \subseteq d.tables /\ d.tables \subseteq AllTables
    /\ d.rows = {"symbol", "component"}
    /\ Grouped(d.cols)
    /\ "qual_name" \in d.cols => "fill_qual_name" \in d.done
    /\ "decl_file_id" \in d.cols => "fill_decl" \in d.done
    /\ d.kindInt => "decl_file_id" \in d.cols
    /\ "entity_node" \in d.tables => "entity_nodes" \in d.done

\* The tables and the rows before step n, of a database that was opened with these tables.
TablesAt(n, tables) ==
    CASE n \in {12, 13} -> tables \union {"symbol_new"}
      [] n = 14 -> (tables \ {"symbol"}) \union {"symbol_new"}
      [] n \in {31, 32} -> tables \union {"component_new"}
      [] n = 33 -> (tables \ {"component"}) \union {"component_new"}
      [] n = 40 -> AllTables
      [] OTHER -> tables

RowsAt(n) ==
    CASE n = 13 -> {"symbol", "component", "symbol_new"}
      [] n = 14 -> {"component", "symbol_new"}
      [] n = 32 -> {"symbol", "component", "component_new"}
      [] n = 33 -> {"symbol", "component_new"}
      [] OTHER -> {"symbol", "component"}

\* What the connection sees before step n, of a database that had the tables and, when the
\* columns were last listed, the columns `seen`.
ColumnsAt(n, seen, tables, cols) ==
    \A i \in ColumnSteps :
        Script[i].what \in cols <=>
            \/ Script[i].what \in seen
            \/ i < n /\ Script[i].table \in tables
            \/ n = 40

FillsAt(n, seen, v) ==
    /\ (n > 2 \/ "qual_name" \in seen) => "fill_qual_name" \in v.done
    /\ (n > 6 \/ "decl_file_id" \in seen) => "fill_decl" \in v.done

RebuildsAt(n, seen, v) ==
    /\ (n < 12 /\ v.kindInt) => "decl_file_id" \in seen
    /\ n \in 12..14 => ~v.kindInt
    /\ n > 14 => v.kindInt
    /\ n \in 31..33 => ~v.perRepo
    /\ n > 33 => v.perRepo

ConversionsAt(n, tables, v) ==
    /\ n > 34 => "repository" \notin tables \/ "relativize" \in v.done
    /\ n > 35 => "entity_edge" \notin tables \/ "nests" \in v.done
    /\ n > 36 => "entity_edge" \notin tables \/ "realizes" \in v.done
    /\ n > 37 => "entity_edge" \notin tables \/ "dedup" \in v.done
    /\ n = 40 => {"relativize", "nests", "realizes", "dedup"} \subseteq v.done
    /\ "entity_node" \in tables => "entity_nodes" \in v.done

Reached(n, seen, tables, v) ==
    /\ v.version <= SCHEMA_VERSION /\ (n > 38 => v.version = SCHEMA_VERSION)
    /\ v.tables = TablesAt(n, tables)
    /\ v.rows = RowsAt(n)
    /\ ColumnsAt(n, seen, tables, v.cols)
    /\ FillsAt(n, seen, v)
    /\ RebuildsAt(n, seen, v)
    /\ ConversionsAt(n, tables, v)

\* What a connection listed of the database it opened.
Listed(cn) == {"symbol", "component"} \subseteq cn.tables /\ Grouped(cn.seen)

\* A transaction is open only from the declarations' filling to the kinds' rebuild and in the
\* conversions of rows.
Transacts(cn) ==
    cn.open => (cn.pc \in 7..11 /\ ~cn.image.kindInt) \/ cn.pc \in 35..38

Opening(d, cn) ==
    /\ Listed(cn)
    /\ Reached(cn.pc, cn.seen, cn.tables, IF cn.open THEN cn.image ELSE d)
    /\ Transacts(cn)
    /\ cn.pc > 38 => cn.backfill = ("entity_node" \notin cn.tables)
    /\ cn.pc \notin Delicate => Sound(d)

MigrationInv ==
    /\ disk \in Images
    /\ conn \in Connections
    /\ conn.pc = 0 => conn = Closed /\ Sound(disk)
    /\ conn.pc # 0 => opened = "no" /\ Opening(disk, conn)
    /\ opened = "yes" => conn = Closed /\ disk = Upgraded
    /\ opened # "error"

-----------------------------------------------------------------------------
LEMMA HistoryFacts ==
    /\ Oldest \in Nat /\ SCHEMA_VERSION \in Nat
    /\ Oldest <= SCHEMA_VERSION /\ 24 <= SCHEMA_VERSION
    /\ \A x \in AllColumns \union AllTables \union Conversions :
          Since[x] \in Nat /\ Since[x] <= SCHEMA_VERSION
    /\ Since["symbol"] <= Oldest /\ Since["component"] <= Oldest
    /\ \A i \in ColumnSteps : Since[Script[i].gate] = Since[Script[i].what]
    /\ Since["fill_qual_name"] <= Since["qual_name"]
    /\ Since["fill_decl"] <= Since["decl_file_id"] /\ Since["decl_file_id"] <= 16
    /\ Since["entity_nodes"] <= Since["entity_node"]
<1>1. \A i \in ColumnSteps : Script[i] \in ToSet(Script) /\ Script[i].do = "column"
  BY ScriptLength, ColumnsAre DEF ToSet, ColumnSteps
<1> QED
  BY <1>1, SchemaHistory

LEMMA Names ==
    /\ "qual_name" = Script[1].what /\ "decl_file_id" = Script[3].what
    /\ 1 \in ColumnSteps /\ 3 \in ColumnSteps
    /\ Script[1].table = "symbol" /\ Script[3].table = "symbol"
    /\ "qual_name" \in AllColumns /\ "decl_file_id" \in AllColumns
<1>1. /\ "qual_name" = Script[1].what /\ "decl_file_id" = Script[3].what
      /\ 1 \in ColumnSteps /\ 3 \in ColumnSteps
      /\ Script[1].table = "symbol" /\ Script[3].table = "symbol"
  BY ScriptSteps DEF ColumnSteps, Column
<1> QED
  BY <1>1, AllColumnsAre

LEMMA DatabaseIsSound ==
    ASSUME NEW n \in Nat, Oldest <= n, n <= SCHEMA_VERSION
    PROVE  Database(n) \in Images /\ Sound(Database(n))
<1>1. Database(n) \in Images
  BY DEF Database, Images
<1>2. Grouped(Database(n).cols)
  BY HistoryFacts, AllColumnsAre, ColumnFacts DEF Grouped, Database
<1>3. {"symbol", "component"} \subseteq Database(n).tables /\ Database(n).tables \subseteq AllTables
  BY HistoryFacts DEF Database, AllTables
<1>4. /\ "qual_name" \in Database(n).cols => "fill_qual_name" \in Database(n).done
      /\ "decl_file_id" \in Database(n).cols => "fill_decl" \in Database(n).done
      /\ Database(n).kindInt => "decl_file_id" \in Database(n).cols
      /\ "entity_node" \in Database(n).tables => "entity_nodes" \in Database(n).done
  <2>1. {"fill_qual_name", "fill_decl", "entity_nodes"} \subseteq Conversions
    BY DEF Conversions
  <2>2. /\ Since["qual_name"] \in Nat /\ Since["fill_qual_name"] \in Nat
        /\ Since["decl_file_id"] \in Nat /\ Since["fill_decl"] \in Nat
        /\ Since["entity_node"] \in Nat /\ Since["entity_nodes"] \in Nat
    <3>1. "entity_node" \in AllTables
      BY DEF AllTables
    <3> QED
      BY <2>1, <3>1, HistoryFacts, Names
  <2>3. "qual_name" \in Database(n).cols => "fill_qual_name" \in Database(n).done
    BY <2>1, <2>2, HistoryFacts, Names DEF Database
  <2>4. "decl_file_id" \in Database(n).cols => "fill_decl" \in Database(n).done
    BY <2>1, <2>2, HistoryFacts, Names DEF Database
  <2>5. Database(n).kindInt => "decl_file_id" \in Database(n).cols
    <3>1. Database(n).kindInt => Since["decl_file_id"] <= n
      <4>1. Database(n).kindInt => 16 <= n
        BY DEF Database
      <4>2. Since["decl_file_id"] <= 16
        BY HistoryFacts
      <4> QED
        BY <2>2, <4>1, <4>2
    <3> QED
      BY <3>1, Names DEF Database
  <2>6. "entity_node" \in Database(n).tables => "entity_nodes" \in Database(n).done
    BY <2>1, <2>2, HistoryFacts, Names DEF Database
  <2> QED
    BY <2>3, <2>4, <2>5, <2>6
<1> QED
  BY <1>1, <1>2, <1>3, <1>4 DEF Sound, Database

LEMMA UpgradedIs ==
    Upgraded = [version |-> SCHEMA_VERSION, tables |-> AllTables, cols |-> AllColumns,
                kindInt |-> TRUE, perRepo |-> TRUE, rows |-> {"symbol", "component"},
                done |-> Conversions]
<1>1. /\ {t \in AllTables : Since[t] <= SCHEMA_VERSION} = AllTables
      /\ {t \in AllColumns : Since[t] <= SCHEMA_VERSION} = AllColumns
      /\ {t \in Conversions : Since[t] <= SCHEMA_VERSION} = Conversions
  BY HistoryFacts
<1>2. SCHEMA_VERSION >= 16 /\ SCHEMA_VERSION >= 24
  BY HistoryFacts
<1> QED
  BY <1>1, <1>2 DEF Upgraded, Database

LEMMA ClosedIs ==
    /\ Closed \in Connections
    /\ Closed.pc = 0 /\ ~Closed.open
<1>1. Upgraded \in Images
  BY UpgradedIs, HistoryFacts DEF Images
<1> QED
  BY <1>1 DEF Closed, Connections

\* Between two delicate stretches, what the connection sees may be opened anew.
LEMMA ReachedIsSound ==
    ASSUME NEW n \in 1..39, n \notin Delicate, NEW cn, Listed(cn), NEW v,
           Reached(n, cn.seen, cn.tables, v), cn.tables \subseteq AllTables
    PROVE  Sound(v)
<1>1. Grouped(v.cols)
  <2> SUFFICES ASSUME NEW i \in ColumnSteps
               PROVE  Script[i].what \in v.cols <=> Script[i].gate \in v.cols
    BY DEF Grouped
  <2>1. GateOf(i) < n <=> i < n
    BY DEF GateOf, Delicate, ColumnSteps
  <2> QED
    BY <2>1, ColumnFacts DEF Reached, ColumnsAt, Listed, Grouped
<1>2. v.tables = cn.tables /\ v.rows = {"symbol", "component"}
  BY DEF Reached, TablesAt, RowsAt, Delicate
<1>3. "qual_name" \in v.cols => "fill_qual_name" \in v.done
  BY Names DEF Reached, ColumnsAt, FillsAt, Delicate
<1>4. "decl_file_id" \in v.cols => "fill_decl" \in v.done
  BY Names DEF Reached, ColumnsAt, FillsAt, Delicate
<1>5. v.kindInt => "decl_file_id" \in v.cols
  BY Names DEF Reached, ColumnsAt, RebuildsAt, Delicate, Listed
<1> QED
  BY <1>1, <1>2, <1>3, <1>4, <1>5 DEF Sound, Reached, ConversionsAt, Listed

-----------------------------------------------------------------------------
(* The steps.                                                                 *)

\* What the invariant says of a connection under way.
LEMMA UnderWay ==
    ASSUME MigrationInv, conn.pc > 0
    PROVE  /\ conn.pc \in 1..40 /\ conn \in Connections /\ disk \in Images /\ View \in Images
           /\ opened = "no" /\ Listed(conn) /\ Transacts(conn)
           /\ Reached(conn.pc, conn.seen, conn.tables, View)
           /\ conn.seen \subseteq AllColumns /\ conn.tables \subseteq AllTables
           /\ conn.pc > 38 => conn.backfill = ("entity_node" \notin conn.tables)
           /\ conn.pc \notin Delicate => Sound(disk)
<1>1. conn \in Connections /\ conn.pc # 0
  BY DEF MigrationInv, Connections
<1>2. conn.pc \in 1..40 /\ conn.image \in Images /\ conn.open \in BOOLEAN
  BY <1>1 DEF Connections
<1>3. conn.seen \subseteq AllColumns /\ conn.tables \subseteq AllTables
  BY <1>1 DEF Connections
<1> QED
  BY <1>1, <1>2, <1>3 DEF MigrationInv, Opening, View

\* A step of the script, taken.
LEMMA Proceeds ==
    ASSUME MigrationInv, conn.pc \in 1..39, conn.pc # 38,
           conn' \in Connections, disk' \in Images, opened' = opened,
           \/ conn'.pc = conn.pc + 1
           \/ conn.pc \in {11, 30} /\ conn'.pc = conn.pc + 4,
           conn'.tables = conn.tables, conn'.backfill = conn.backfill, Grouped(conn'.seen),
           NEW v, v = IF conn'.open THEN conn'.image ELSE disk',
           Reached(conn'.pc, conn'.seen, conn'.tables, v),
           Transacts(conn'),
           ~conn'.open \/ disk' = disk
    PROVE  MigrationInv'
<1>1. conn.pc > 0
  OBVIOUS
<1>2. /\ opened = "no" /\ Listed(conn)
      /\ conn.pc \notin Delicate => Sound(disk)
      /\ conn.tables \subseteq AllTables
      /\ conn.pc > 38 => conn.backfill = ("entity_node" \notin conn.tables)
  BY <1>1, UnderWay
<1>3. conn'.pc \in 2..40 /\ Listed(conn')
  BY <1>2 DEF Listed
<1>4. ASSUME conn'.pc \notin Delicate PROVE Sound(disk')
  <2>1. conn'.pc \in 1..39
    BY <1>3, <1>4 DEF Delicate
  <2>2. CASE conn'.open
    <3>1. conn'.pc \in 35..38
      BY <1>4, <2>2 DEF Transacts, Delicate
    <3>2. conn.pc \notin Delicate
      BY <3>1 DEF Delicate
    <3> QED
      BY <1>2, <2>2, <3>2
  <2>3. CASE ~conn'.open
    <3>1. v = disk'
      BY <2>3
    <3> HIDE DEF Reached, Sound, Listed
    <3> QED
      BY <1>2, <1>3, <1>4, <2>1, <3>1, ReachedIsSound
  <2> QED
    BY <2>2, <2>3
<1>5. conn'.pc > 38 => conn'.backfill = ("entity_node" \notin conn'.tables)
  BY <1>2, <1>3
<1>6. Opening(disk', conn')
  BY <1>3, <1>4, <1>5 DEF Opening
<1> QED
  BY <1>2, <1>3, <1>6 DEF MigrationInv

\* What writes says of the step's effect.
LEMMA WriteProceeds ==
    ASSUME MigrationInv, conn.pc \in 1..39, conn.pc # 38,
           NEW d \in Images, NEW opens \in BOOLEAN, NEW next \in Connections,
           next.open = conn.open, next.tables = conn.tables, next.backfill = conn.backfill,
           Grouped(next.seen),
           Reached(conn.pc + 1, next.seen, conn.tables, d),
           (conn.open \/ opens) => \/ conn.pc + 1 \in 7..11 /\ ~d.kindInt
                                   \/ conn.pc + 1 \in 35..38,
           Writes(d, opens, next)
    PROVE  MigrationInv'
<1>1. conn \in Connections /\ disk \in Images
  BY DEF MigrationInv
<1>2. CASE conn.open \/ opens
  <2>1. conn' = [next EXCEPT !.open = TRUE, !.image = d, !.pc = conn.pc + 1] /\ disk' = disk
    BY <1>2 DEF Writes
  <2>a. conn' \in Connections
    <3>1. /\ next.seen \in SUBSET AllColumns /\ next.tables \in SUBSET AllTables
          /\ next.fresh \in BOOLEAN /\ next.changed \in BOOLEAN /\ next.backfill \in BOOLEAN
      BY DEF Connections
    <3>2. conn' = [pc |-> conn.pc + 1, open |-> TRUE, image |-> d, seen |-> next.seen,
                   tables |-> next.tables, fresh |-> next.fresh, changed |-> next.changed,
                   backfill |-> next.backfill]
      BY <2>1 DEF Connections
    <3>3. conn.pc + 1 \in 0..40
      OBVIOUS
    <3> QED
      BY <3>1, <3>2, <3>3 DEF Connections
  <2>2. conn'.open = TRUE /\ conn'.image = d /\ conn'.pc = conn.pc + 1
        /\ conn'.tables = next.tables /\ conn'.seen = next.seen /\ conn'.backfill = next.backfill
    BY <2>1 DEF Connections
  <2>3. Transacts(conn')
    BY <1>2, <2>2 DEF Transacts
  <2> HIDE DEF Reached
  <2> QED
    BY <1>1, <2>1, <2>a, <2>2, <2>3, Proceeds DEF Writes
<1>3. CASE ~(conn.open \/ opens)
  <2>1. conn' = [next EXCEPT !.pc = conn.pc + 1] /\ disk' = d
    BY <1>3 DEF Writes
  <2>2. conn' \in Connections /\ ~conn'.open /\ conn'.pc = conn.pc + 1
        /\ conn'.tables = next.tables /\ conn'.seen = next.seen /\ conn'.backfill = next.backfill
    BY <1>3, <2>1 DEF Connections
  <2>3. Transacts(conn')
    BY <2>2 DEF Transacts
  <2> QED
    BY <1>1, <2>1, <2>2, <2>3, Proceeds DEF Writes
<1> QED
  BY <1>2, <1>3

LEMMA SkipProceeds ==
    ASSUME MigrationInv, conn.pc \in 1..39, conn.pc # 38,
           Reached(conn.pc + 1, conn.seen, conn.tables, View),
           conn.open => \/ conn.pc + 1 \in 7..11 /\ ~View.kindInt
                        \/ conn.pc + 1 \in 35..38,
           Skips(conn)
    PROVE  MigrationInv'
<1>1. conn \in Connections /\ disk \in Images /\ Listed(conn)
  BY UnderWay
<1>2. conn' = [conn EXCEPT !.pc = conn.pc + 1] /\ disk' = disk /\ opened' = opened
  BY DEF Skips
<1>3. conn' \in Connections /\ conn'.open = conn.open /\ conn'.pc = conn.pc + 1
      /\ conn'.tables = conn.tables /\ conn'.seen = conn.seen
      /\ conn'.backfill = conn.backfill /\ conn'.image = conn.image
  BY <1>1, <1>2 DEF Connections
<1>4. View = IF conn'.open THEN conn'.image ELSE disk'
  BY <1>2, <1>3 DEF View
<1>5. Transacts(conn')
  BY <1>2, <1>3, <1>4 DEF Transacts, View
<1>6. Grouped(conn'.seen)
  BY <1>1, <1>3 DEF Listed
<1> QED
  BY <1>1, <1>2, <1>3, <1>4, <1>5, <1>6, Proceeds

LEMMA ColumnStep ==
    ASSUME MigrationInv, AddColumn
    PROVE  MigrationInv'
<1> DEFINE n == conn.pc
           c == Script[n].what
<1>1. conn.pc > 0 /\ Script[conn.pc].do = "column"
  BY DEF AddColumn, Step
<1>2. /\ conn.pc \in 1..40 /\ conn \in Connections /\ disk \in Images /\ View \in Images
      /\ Listed(conn) /\ Transacts(conn) /\ Reached(conn.pc, conn.seen, conn.tables, View)
  BY <1>1, UnderWay
<1>3. n \in ColumnSteps /\ n \in 1..29 /\ n \notin {2, 6} \union (11..14)
  BY <1>1, <1>2, ColumnsAre DEF ColumnSteps
<1>4. View.tables = conn.tables
  BY <1>2, <1>3 DEF Reached, TablesAt
<1>5. c \in conn.seen <=> Script[n].gate \in conn.seen
  BY <1>2, <1>3 DEF Listed, Grouped
\* All but the columns.
<1>6. ASSUME NEW v \in Images, v = [View EXCEPT !.cols = v.cols],
             ColumnsAt(n + 1, conn.seen, conn.tables, v.cols)
      PROVE  Reached(n + 1, conn.seen, conn.tables, v)
  <2>1. /\ v.version = View.version /\ v.tables = View.tables /\ v.rows = View.rows
        /\ v.done = View.done /\ v.kindInt = View.kindInt /\ v.perRepo = View.perRepo
    BY <1>2, <1>6 DEF Images
  <2>2. TablesAt(n + 1, conn.tables) = conn.tables /\ RowsAt(n + 1) = RowsAt(n)
    BY <1>3 DEF TablesAt, RowsAt
  <2>3. FillsAt(n + 1, conn.seen, v)
    BY <1>2, <1>3, <2>1 DEF Reached, FillsAt
  <2>4. RebuildsAt(n + 1, conn.seen, v)
    BY <1>2, <1>3, <2>1 DEF Reached, RebuildsAt
  <2>5. ConversionsAt(n + 1, conn.tables, v)
    BY <1>2, <1>3, <2>1 DEF Reached, ConversionsAt
  <2>6. v.version <= SCHEMA_VERSION /\ ~(n + 1 > 38)
    BY <1>2, <1>3, <2>1 DEF Reached
  <2> QED
    BY <1>2, <1>4, <1>6, <2>1, <2>2, <2>3, <2>4, <2>5, <2>6 DEF Reached
<1>7. conn.open => n + 1 \in 7..11 /\ ~View.kindInt
  BY <1>2, <1>3 DEF Transacts, View
<1>8. CASE Script[n].gate \in conn.seen \/ Script[n].table \notin View.tables
  <2>1. Skips(conn)
    BY <1>8 DEF AddColumn, Step
  <2>2. ColumnsAt(n + 1, conn.seen, conn.tables, View.cols)
    <3>1. \A i \in ColumnSteps : i < n + 1 <=> i < n \/ i = n
      BY <1>3 DEF ColumnSteps
    <3>2. n # 40 /\ n + 1 # 40 /\ n \in ColumnSteps
      BY <1>3
    <3>3. ColumnsAt(n, conn.seen, conn.tables, View.cols)
      BY <1>2 DEF Reached
    <3> HIDE DEF n
    <3> QED
      BY <3>1, <3>2, <3>3, <1>4, <1>5, <1>8 DEF ColumnsAt
  <2>3. View = [View EXCEPT !.cols = View.cols]
    BY <1>2 DEF Images
  <2>4. Reached(n + 1, conn.seen, conn.tables, View)
    BY <1>2, <1>6, <2>2, <2>3
  <2> QED
    BY <1>3, <1>7, <2>1, <2>4, SkipProceeds
<1>9. CASE ~(Script[n].gate \in conn.seen \/ Script[n].table \notin View.tables)
  <2> DEFINE d == [View EXCEPT !.cols = @ \union {c}]
  <2>1. c \notin View.cols
    BY <1>2, <1>3, <1>5, <1>9 DEF Reached, ColumnsAt
  <2>2. Writes(d, FALSE, Changed)
    BY <1>1, <1>9, <2>1 DEF AddColumn, Step
  <2>3. d \in Images /\ d.cols = View.cols \union {c} /\ d = [View EXCEPT !.cols = d.cols]
        /\ d.kindInt = View.kindInt
    BY <1>2, <1>3, AllColumnsAre DEF Images
  <2>4. ColumnsAt(n + 1, conn.seen, conn.tables, d.cols)
    BY <1>2, <1>3, <1>4, <1>9, <2>3, ColumnsDiffer DEF Reached, ColumnsAt, ColumnSteps
  <2>5. Reached(n + 1, conn.seen, conn.tables, d)
    BY <1>6, <2>3, <2>4
  <2>6. /\ Changed \in Connections /\ Changed.open = conn.open /\ Changed.tables = conn.tables
        /\ Changed.backfill = conn.backfill /\ Changed.seen = conn.seen
    BY <1>2 DEF Changed, Connections
  <2>7. Grouped(Changed.seen)
    BY <1>2, <2>6 DEF Listed
  <2>8. (conn.open \/ FALSE) => \/ conn.pc + 1 \in 7..11 /\ ~d.kindInt
                               \/ conn.pc + 1 \in 35..38
    BY <1>7, <2>3
  <2>9. conn.pc \in 1..39 /\ conn.pc # 38 /\ FALSE \in BOOLEAN
    BY <1>3
  <2>10. Reached(conn.pc + 1, Changed.seen, conn.tables, d)
    BY <2>5, <2>6
  <2> HIDE DEF d, c, n
  <2> QED
    BY <2>2, <2>3, <2>6, <2>7, <2>8, <2>9, <2>10, WriteProceeds
<1> QED
  BY <1>8, <1>9

LEMMA FillStep ==
    ASSUME MigrationInv, FillColumn
    PROVE  MigrationInv'
<1> DEFINE n == conn.pc
           col == IF Script[n].do = "fill_decl" THEN "decl_file_id" ELSE "qual_name"
           d == [View EXCEPT !.done = @ \union {Script[n].do}]
<1>1. conn.pc > 0 /\ Script[conn.pc].do \in {"fill_qual_name", "fill_decl"}
  BY DEF FillColumn, Step
<1>2. /\ conn.pc \in 1..40 /\ conn \in Connections /\ disk \in Images /\ View \in Images
      /\ Listed(conn) /\ Transacts(conn) /\ Reached(conn.pc, conn.seen, conn.tables, View)
  BY <1>1, UnderWay
<1>3. \/ n = 2 /\ Script[n].do = "fill_qual_name" /\ col = "qual_name"
      \/ n = 6 /\ Script[n].do = "fill_decl" /\ col = "decl_file_id"
  BY <1>1, <1>2, OtherSteps
<1>4. n \in {2, 6} /\ n \notin ColumnSteps
  BY <1>3 DEF ColumnSteps
\* All but what is filled.
<1>5. ASSUME NEW v \in Images, v = [View EXCEPT !.done = v.done], View.done \subseteq v.done,
             Script[n].do \in v.done
      PROVE  Reached(n + 1, conn.seen, conn.tables, v)
  <2>1. /\ v.version = View.version /\ v.tables = View.tables /\ v.rows = View.rows
        /\ v.cols = View.cols /\ v.kindInt = View.kindInt /\ v.perRepo = View.perRepo
    BY <1>2, <1>5 DEF Images
  <2>2. /\ TablesAt(n + 1, conn.tables) = TablesAt(n, conn.tables)
        /\ RowsAt(n + 1) = RowsAt(n)
    BY <1>4 DEF TablesAt, RowsAt
  <2>3. FillsAt(n + 1, conn.seen, v)
    BY <1>2, <1>3, <1>5 DEF Reached, FillsAt
  <2>4. RebuildsAt(n + 1, conn.seen, v)
    BY <1>2, <1>4, <2>1 DEF Reached, RebuildsAt
  <2>5. ConversionsAt(n + 1, conn.tables, v)
    BY <1>2, <1>4, <1>5 DEF Reached, ConversionsAt
  <2>6. ColumnsAt(n + 1, conn.seen, conn.tables, v.cols)
    <3>1. \A i \in ColumnSteps : i < n + 1 <=> i < n
      BY <1>4 DEF ColumnSteps
    <3>2. n # 40 /\ n + 1 # 40
      BY <1>4
    <3>3. ColumnsAt(n, conn.seen, conn.tables, View.cols)
      BY <1>2 DEF Reached
    <3> HIDE DEF n
    <3> QED
      BY <3>1, <3>2, <3>3, <2>1 DEF ColumnsAt
  <2>7. v.version <= SCHEMA_VERSION /\ ~(n + 1 > 38)
    BY <1>2, <1>4, <2>1 DEF Reached
  <2> QED
    BY <1>2, <2>1, <2>2, <2>3, <2>4, <2>5, <2>6, <2>7 DEF Reached
<1>6. ~conn.open
  BY <1>2, <1>4 DEF Transacts
<1>7. CASE col \in conn.seen
  <2>1. Skips(conn)
    BY <1>7 DEF FillColumn, Step
  <2>2. Script[n].do \in View.done
    BY <1>2, <1>3, <1>7 DEF Reached, FillsAt
  <2>3. View = [View EXCEPT !.done = View.done]
    BY <1>2 DEF Images
  <2>4. Reached(n + 1, conn.seen, conn.tables, View)
    BY <1>2, <1>5, <2>2, <2>3
  <2> QED
    BY <1>4, <1>6, <2>1, <2>4, SkipProceeds
<1>8. CASE col \notin conn.seen
  <2> DEFINE opens == Script[n].do = "fill_decl"
  <2>1. Writes(d, opens, Changed)
    BY <1>8 DEF FillColumn, Step
  <2>2. /\ d \in Images /\ d.done = View.done \union {Script[n].do}
        /\ d = [View EXCEPT !.done = d.done] /\ d.kindInt = View.kindInt
    BY <1>2, <1>3 DEF Images, Conversions
  <2>3. Reached(n + 1, conn.seen, conn.tables, d)
    BY <1>5, <2>2
  <2>4. opens => n = 6 /\ ~d.kindInt
    BY <1>2, <1>3, <1>8, <2>2 DEF Reached, RebuildsAt
  <2>5. /\ Changed \in Connections /\ Changed.open = conn.open /\ Changed.tables = conn.tables
        /\ Changed.backfill = conn.backfill /\ Changed.seen = conn.seen
    BY <1>2 DEF Changed, Connections
  <2>6. Grouped(Changed.seen)
    BY <1>2, <2>5 DEF Listed
  <2>7. (conn.open \/ opens) => \/ conn.pc + 1 \in 7..11 /\ ~d.kindInt
                               \/ conn.pc + 1 \in 35..38
    BY <1>6, <2>4
  <2>8. conn.pc \in 1..39 /\ conn.pc # 38 /\ opens \in BOOLEAN
    BY <1>4
  <2>9. Reached(conn.pc + 1, Changed.seen, conn.tables, d)
    BY <2>3, <2>5
  <2> HIDE DEF d, n, opens
  <2> QED
    BY <2>1, <2>2, <2>5, <2>6, <2>7, <2>8, <2>9, WriteProceeds
<1> QED
  BY <1>7, <1>8

LEMMA ConversionStep ==
    ASSUME MigrationInv, ConvertRows
    PROVE  MigrationInv'
<1> DEFINE n == conn.pc
           what == Script[n].do
           table == IF what = "relativize" THEN "repository" ELSE "entity_edge"
           d == [View EXCEPT !.done = @ \union {what}]
<1>1. conn.pc > 0 /\ what \in {"relativize", "nests", "realizes", "dedup"}
  BY DEF ConvertRows, Step
<1>2. /\ conn.pc \in 1..40 /\ conn \in Connections /\ disk \in Images /\ View \in Images
      /\ Listed(conn) /\ Transacts(conn) /\ Reached(conn.pc, conn.seen, conn.tables, View)
  BY <1>1, UnderWay
<1>3. \/ n = 34 /\ what = "relativize"
      \/ n = 35 /\ what = "nests"
      \/ n = 36 /\ what = "realizes"
      \/ n = 37 /\ what = "dedup"
  BY <1>1, <1>2, OtherSteps
<1>4. n \in 34..37
  BY <1>3
\* All but what is converted.
<1>5. ASSUME NEW v \in Images, v = [View EXCEPT !.done = v.done], View.done \subseteq v.done,
             table \in conn.tables => what \in v.done
      PROVE  Reached(n + 1, conn.seen, conn.tables, v)
  <2>1. /\ v.version = View.version /\ v.tables = View.tables /\ v.rows = View.rows
        /\ v.cols = View.cols /\ v.kindInt = View.kindInt /\ v.perRepo = View.perRepo
    BY <1>2, <1>5 DEF Images
  <2>2. /\ TablesAt(n + 1, conn.tables) = TablesAt(n, conn.tables)
        /\ RowsAt(n + 1) = RowsAt(n)
    BY <1>4 DEF TablesAt, RowsAt
  <2>3. FillsAt(n + 1, conn.seen, v)
    BY <1>2, <1>4, <1>5 DEF Reached, FillsAt
  <2>4. RebuildsAt(n + 1, conn.seen, v)
    BY <1>2, <1>4, <2>1 DEF Reached, RebuildsAt
  <2>5. ConversionsAt(n + 1, conn.tables, v)
    BY <1>2, <1>3, <1>5 DEF Reached, ConversionsAt
  <2>6. ColumnsAt(n + 1, conn.seen, conn.tables, v.cols)
    <3>1. \A i \in ColumnSteps : i < n + 1 /\ i < n
      BY <1>4 DEF ColumnSteps
    <3>2. n # 40 /\ n + 1 # 40
      BY <1>4
    <3>3. ColumnsAt(n, conn.seen, conn.tables, View.cols)
      BY <1>2 DEF Reached
    <3> HIDE DEF n
    <3> QED
      BY <3>1, <3>2, <3>3, <2>1 DEF ColumnsAt
  <2>7. v.version <= SCHEMA_VERSION /\ ~(n + 1 > 38)
    BY <1>2, <1>4, <2>1 DEF Reached
  <2> QED
    BY <1>2, <2>1, <2>2, <2>3, <2>4, <2>5, <2>6, <2>7 DEF Reached
<1>6. CASE table \notin conn.tables \/ what \in View.done
  <2>1. Skips(conn)
    BY <1>6 DEF ConvertRows, Step
  <2>2. View = [View EXCEPT !.done = View.done]
    BY <1>2 DEF Images
  <2>3. Reached(n + 1, conn.seen, conn.tables, View)
    BY <1>2, <1>5, <1>6, <2>2
  <2> QED
    BY <1>4, <2>1, <2>3, SkipProceeds
<1>7. CASE ~(table \notin conn.tables \/ what \in View.done)
  <2>1. Writes(d, TRUE, Changed)
    BY <1>7 DEF ConvertRows, Step
  <2>2. /\ d \in Images /\ d.done = View.done \union {what}
        /\ d = [View EXCEPT !.done = d.done]
    BY <1>2, <1>1 DEF Images, Conversions
  <2>3. Reached(n + 1, conn.seen, conn.tables, d)
    BY <1>5, <2>2
  <2>4. /\ Changed \in Connections /\ Changed.open = conn.open /\ Changed.tables = conn.tables
        /\ Changed.backfill = conn.backfill /\ Changed.seen = conn.seen
    BY <1>2 DEF Changed, Connections
  <2>5. Grouped(Changed.seen)
    BY <1>2, <2>4 DEF Listed
  <2>6. conn.pc \in 1..39 /\ conn.pc # 38 /\ conn.pc + 1 \in 35..38
    BY <1>4
  <2>7. Reached(conn.pc + 1, Changed.seen, conn.tables, d)
    BY <2>3, <2>4
  <2> HIDE DEF d, n
  <2> QED
    BY <2>1, <2>2, <2>4, <2>5, <2>6, <2>7, WriteProceeds
<1> QED
  BY <1>6, <1>7

LEMMA DeathStep ==
    ASSUME MigrationInv, Dies
    PROVE  MigrationInv'
<1>1. conn.pc > 0 /\ (IF Script[conn.pc].do = "column" THEN Script[conn.pc].what
                                                       ELSE Script[conn.pc].do) \in Dying
  BY DEF Dies, Step
<1>2. conn.pc \in 1..40 /\ disk \in Images /\ (conn.pc \notin Delicate => Sound(disk))
  BY <1>1, UnderWay
<1>3. ASSUME NEW i \in Delicate
      PROVE  (IF Script[i].do = "column" THEN Script[i].what ELSE Script[i].do) \in Fragile
  BY ScriptSteps DEF Delicate, Fragile, Do, Column
<1>4. Sound(disk)
  BY <1>1, <1>2, <1>3, DeathsSpare
<1>5. conn' = Closed /\ disk' = disk /\ opened' = "no"
  BY DEF Dies
<1> QED
  BY <1>2, <1>4, <1>5, ClosedIs DEF MigrationInv

LEMMA OpenStep ==
    ASSUME MigrationInv, Open
    PROVE  MigrationInv'
<1>1. /\ conn = Closed /\ disk \in Images /\ Sound(disk)
  BY ClosedIs DEF Open, MigrationInv
<1>2. "symbol" \in disk.tables
  BY <1>1 DEF Sound
<1>3. /\ conn' = [Closed EXCEPT !.pc = 1, !.seen = disk.cols, !.tables = disk.tables]
      /\ opened' = "no" /\ disk' = disk
  BY <1>2 DEF Open
<1>4. conn' \in Connections /\ conn'.pc = 1 /\ conn'.seen = disk.cols
      /\ conn'.tables = disk.tables /\ ~conn'.open
  <2>1. disk.cols \in SUBSET AllColumns /\ disk.tables \in SUBSET AllTables
    BY <1>1 DEF Images, Sound
  <2>2. Closed \in Connections /\ ~Closed.open
    BY ClosedIs
  <2>3. conn'.pc = 1 /\ conn'.seen = disk.cols /\ conn'.tables = disk.tables
        /\ conn'.open = Closed.open
    BY <1>3, <2>2 DEF Connections
  <2>4. conn' \in Connections
    <3>1. Closed.image \in Images /\ Closed.fresh \in BOOLEAN /\ Closed.changed \in BOOLEAN
          /\ Closed.backfill \in BOOLEAN /\ Closed.open \in BOOLEAN
      BY <2>2 DEF Connections
    <3>2. conn' = [pc |-> 1, open |-> Closed.open, image |-> Closed.image, seen |-> disk.cols,
                   tables |-> disk.tables, fresh |-> Closed.fresh, changed |-> Closed.changed,
                   backfill |-> Closed.backfill]
      BY <1>3, <2>2 DEF Connections
    <3> QED
      BY <2>1, <3>1, <3>2 DEF Connections
  <2> QED
    BY <2>2, <2>3, <2>4
<1>5. Listed(conn')
  BY <1>1, <1>4 DEF Listed, Sound
<1>6. Reached(1, disk.cols, disk.tables, disk)
  <2>1. ColumnsAt(1, disk.cols, disk.tables, disk.cols)
    BY DEF ColumnsAt, ColumnSteps
  <2>2. TablesAt(1, disk.tables) = disk.tables /\ RowsAt(1) = {"symbol", "component"}
    BY DEF TablesAt, RowsAt
  <2> QED
    BY <1>1, <2>1, <2>2 DEF Reached, Sound, FillsAt, RebuildsAt, ConversionsAt
<1>7. Opening(disk', conn')
  BY <1>1, <1>3, <1>4, <1>5, <1>6 DEF Opening, Transacts
<1> QED
  BY <1>1, <1>3, <1>4, <1>7 DEF MigrationInv

LEMMA RebuiltAre ==
    ASSUME NEW i \in ColumnSteps
    PROVE  /\ Script[i].what \in RebuiltColumns <=> i < 11
           /\ Script[i].table # "symbol" => i > 14
BY ScriptSteps DEF ColumnSteps, Column, RebuiltColumns

LEMMA RebuiltKnown == \A c \in RebuiltColumns : \E i \in ColumnSteps : i < 11 /\ c = Script[i].what
BY ScriptSteps DEF ColumnSteps, Column, RebuiltColumns

\* What a rebuild leaves alone.
LEMMA RebuildLeaves ==
    ASSUME MigrationInv, conn.pc \in (11..14) \union (30..33),
           NEW m \in 12..34, NEW v, v.done = View.done, NEW seen
    PROVE  FillsAt(m, seen, v) /\ ConversionsAt(m, conn.tables, v)
<1>1. Reached(conn.pc, conn.seen, conn.tables, View)
  BY UnderWay
<1>2. "fill_qual_name" \in View.done /\ "fill_decl" \in View.done
  BY <1>1 DEF Reached, FillsAt
<1> QED
  BY <1>1, <1>2 DEF Reached, FillsAt, ConversionsAt

LEMMA RebuildIs ==
    ASSUME conn.pc \in 1..40
    PROVE  /\ Step.do \in Rebuilds <=> conn.pc \in (11..14) \union (30..33)
           /\ Step.do \in {"kind_new", "comp_new"} <=> conn.pc \in {11, 30}
           /\ Step.do \in {"kind_copy", "comp_copy"} <=> conn.pc \in {12, 31}
           /\ Step.do \in {"kind_drop", "comp_drop"} <=> conn.pc \in {13, 32}
           /\ Step.do \in {"kind_rename", "comp_rename"} <=> conn.pc \in {14, 33}
           /\ Rebuilt = IF conn.pc \in 11..14 THEN "symbol" ELSE "component"
<1>1. /\ Script[conn.pc].do = "kind_new" <=> conn.pc = 11
      /\ Script[conn.pc].do = "kind_copy" <=> conn.pc = 12
      /\ Script[conn.pc].do = "kind_drop" <=> conn.pc = 13
      /\ Script[conn.pc].do = "kind_rename" <=> conn.pc = 14
      /\ Script[conn.pc].do = "comp_new" <=> conn.pc = 30
      /\ Script[conn.pc].do = "comp_copy" <=> conn.pc = 31
      /\ Script[conn.pc].do = "comp_drop" <=> conn.pc = 32
      /\ Script[conn.pc].do = "comp_rename" <=> conn.pc = 33
  BY OtherSteps
<1> QED
  BY <1>1 DEF Step, Rebuilt, Rebuilds

LEMMA RebuildStarts ==
    ASSUME MigrationInv, Rebuild, conn.pc \in {11, 30}
    PROVE  MigrationInv'
<1> DEFINE n == conn.pc
           needed == IF n = 11 THEN ~View.kindInt ELSE ~View.perRepo
           new == IF n = 11 THEN "symbol_new" ELSE "component_new"
<1>2. /\ conn.pc \in 1..40 /\ conn \in Connections /\ disk \in Images /\ View \in Images
      /\ Listed(conn) /\ Transacts(conn) /\ Reached(conn.pc, conn.seen, conn.tables, View)
      /\ conn.tables \subseteq AllTables
  BY UnderWay
<1>3. View.tables = conn.tables /\ View.rows = {"symbol", "component"}
  BY <1>2 DEF Reached, TablesAt, RowsAt
<1>4. "component" \in View.tables /\ new \notin View.tables
  BY <1>2, <1>3 DEF Listed, AllTables
<1>5. NewName = new /\ Rebuilt = IF n = 11 THEN "symbol" ELSE "component"
  BY <1>2, RebuildIs DEF NewName
<1>6. ColumnsAt(n, conn.seen, conn.tables, View.cols)
  BY <1>2 DEF Reached
<1>7. CASE ~needed
  <2>1. /\ conn' = [conn EXCEPT !.pc = n + 4, !.seen = IF n = 11 THEN View.cols ELSE conn.seen]
        /\ disk' = disk /\ opened' = opened
    BY <1>2, <1>4, <1>5, <1>7, RebuildIs DEF Rebuild
  <2>2. ~conn.open
    BY <1>2, <1>7 DEF Transacts, View
  <2>3. View = disk
    BY <2>2 DEF View
  <2>4. /\ conn'.pc = n + 4 /\ conn'.open = conn.open /\ conn'.tables = conn.tables
        /\ conn'.seen = IF n = 11 THEN View.cols ELSE conn.seen
        /\ conn'.backfill = conn.backfill
    BY <1>2, <2>1 DEF Connections
  <2>5. conn' \in Connections
    <3>1. conn'.seen \in SUBSET AllColumns
      BY <1>2, <2>4 DEF Images, Connections
    <3>2. /\ conn.image \in Images /\ conn.fresh \in BOOLEAN /\ conn.changed \in BOOLEAN
          /\ conn.backfill \in BOOLEAN /\ conn.open \in BOOLEAN /\ conn.tables \in SUBSET AllTables
      BY <1>2 DEF Connections
    <3>3. conn' = [pc |-> n + 4, open |-> conn.open, image |-> conn.image, seen |-> conn'.seen,
                   tables |-> conn.tables, fresh |-> conn.fresh, changed |-> conn.changed,
                   backfill |-> conn.backfill]
      BY <1>2, <2>1, <2>4 DEF Connections
    <3>4. n + 4 \in 0..40
      OBVIOUS
    <3> HIDE DEF n
    <3> QED
      BY <3>1, <3>2, <3>3, <3>4 DEF Connections
  <2>6. ColumnsAt(n + 4, conn'.seen, conn.tables, View.cols)
    <3>1. \A i \in ColumnSteps : i < n + 4 <=> i < n
      BY DEF ColumnSteps
    <3>2. n # 40 /\ n + 4 # 40
      OBVIOUS
    <3> HIDE DEF n
    <3> QED
      BY <1>6, <2>4, <3>1, <3>2 DEF ColumnsAt
  <2>7. Grouped(conn'.seen)
    <3>1. Grouped(View.cols)
      <4> SUFFICES ASSUME NEW i \in ColumnSteps
                   PROVE  Script[i].what \in View.cols <=> Script[i].gate \in View.cols
        BY DEF Grouped
      <4>1. GateOf(i) < n <=> i < n
        BY DEF GateOf, ColumnSteps
      <4>2. n # 40
        OBVIOUS
      <4> HIDE DEF n
      <4> QED
        BY <1>2, <1>6, <4>1, <4>2, ColumnFacts DEF ColumnsAt, Listed, Grouped
    <3> QED
      BY <1>2, <2>4, <3>1 DEF Listed
  <2>8. FillsAt(n + 4, conn'.seen, View) /\ ConversionsAt(n + 4, conn.tables, View)
    <3>1. conn.pc \in (11..14) \union (30..33) /\ n + 4 \in 12..34
      OBVIOUS
    <3> QED
      BY <3>1, RebuildLeaves
  <2>9. RebuildsAt(n + 4, conn'.seen, View)
    BY <1>2, <1>7 DEF Reached, RebuildsAt
  <2>10. Reached(n + 4, conn'.seen, conn.tables, View)
    BY <1>2, <1>3, <2>6, <2>8, <2>9 DEF Reached, TablesAt, RowsAt
  <2>11. Transacts(conn')
    BY <2>2, <2>4 DEF Transacts
  <2>12. View = IF conn'.open THEN conn'.image ELSE disk'
    BY <2>1, <2>2, <2>3, <2>4
  <2> QED
    BY <1>2, <2>1, <2>4, <2>5, <2>7, <2>10, <2>11, <2>12, Proceeds
<1>8. CASE needed
  <2> DEFINE d == [View EXCEPT !.tables = @ \union {new}]
  <2>1. /\ conn' = [Changed EXCEPT !.pc = n + 1, !.open = FALSE]
        /\ disk' = d /\ opened' = opened
    BY <1>2, <1>4, <1>5, <1>8, RebuildIs DEF Rebuild, Changed
  <2>2. /\ conn'.pc = n + 1 /\ conn'.open = FALSE /\ conn'.tables = conn.tables
        /\ conn'.seen = conn.seen /\ conn'.backfill = conn.backfill
    BY <1>2, <2>1 DEF Changed, Connections
  <2>3. conn' \in Connections
    <3>1. /\ conn.image \in Images /\ conn.fresh \in BOOLEAN /\ conn.seen \in SUBSET AllColumns
          /\ conn.backfill \in BOOLEAN /\ conn.tables \in SUBSET AllTables
      BY <1>2 DEF Connections
    <3>2. conn' = [pc |-> n + 1, open |-> FALSE, image |-> conn.image, seen |-> conn.seen,
                   tables |-> conn.tables, fresh |-> conn.fresh, changed |-> TRUE,
                   backfill |-> conn.backfill]
      BY <1>2, <2>1 DEF Connections, Changed
    <3>3. n + 1 \in 0..40
      OBVIOUS
    <3> HIDE DEF n
    <3> QED
      BY <3>1, <3>2, <3>3 DEF Connections
  <2>4. /\ d \in Images /\ d.tables = View.tables \union {new} /\ d.version = View.version
        /\ d.rows = View.rows /\ d.cols = View.cols /\ d.kindInt = View.kindInt
        /\ d.perRepo = View.perRepo /\ d.done = View.done
    BY <1>2 DEF Images
  <2> HIDE DEF d
  <2>5. ColumnsAt(n + 1, conn.seen, conn.tables, d.cols)
    <3>1. \A i \in ColumnSteps : i < n + 1 <=> i < n
      BY DEF ColumnSteps
    <3>2. n # 40 /\ n + 1 # 40
      OBVIOUS
    <3> HIDE DEF n
    <3> QED
      BY <1>6, <2>4, <3>1, <3>2 DEF ColumnsAt
  <2>6. FillsAt(n + 1, conn.seen, d) /\ ConversionsAt(n + 1, conn.tables, d)
    <3>1. conn.pc \in (11..14) \union (30..33) /\ n + 1 \in 12..34
      OBVIOUS
    <3> QED
      BY <2>4, <3>1, RebuildLeaves
  <2>7. RebuildsAt(n + 1, conn.seen, d)
    BY <1>2, <1>8, <2>4 DEF Reached, RebuildsAt
  <2>8. Reached(n + 1, conn.seen, conn.tables, d)
    BY <1>2, <1>3, <2>4, <2>5, <2>6, <2>7 DEF Reached, TablesAt, RowsAt
  <2>9. Transacts(conn')
    BY <2>2 DEF Transacts
  <2>10. d = IF conn'.open THEN conn'.image ELSE disk'
    BY <2>1, <2>2
  <2>11. Grouped(conn'.seen)
    BY <1>2, <2>2 DEF Listed
  <2> QED
    BY <1>2, <2>1, <2>2, <2>3, <2>4, <2>8, <2>9, <2>10, <2>11, Proceeds
<1> QED
  BY <1>7, <1>8

\* A statement of a rebuild that leaves what was listed as it is.
LEMMA RebuildWrites ==
    ASSUME MigrationInv, conn.pc \in (12..14) \union (31..33),
           NEW d \in Images, NEW next \in Connections,
           next.open = conn.open, next.tables = conn.tables, next.backfill = conn.backfill,
           Grouped(next.seen), d.version = View.version, d.done = View.done,
           d.tables = TablesAt(conn.pc + 1, conn.tables), d.rows = RowsAt(conn.pc + 1),
           ColumnsAt(conn.pc + 1, next.seen, conn.tables, d.cols),
           RebuildsAt(conn.pc + 1, next.seen, d),
           Writes(d, FALSE, next)
    PROVE  MigrationInv'
<1>1. Reached(conn.pc, conn.seen, conn.tables, View) /\ Transacts(conn)
  BY UnderWay
<1>2. ~conn.open
  BY <1>1 DEF Transacts
<1>3. FillsAt(conn.pc + 1, next.seen, d) /\ ConversionsAt(conn.pc + 1, conn.tables, d)
  <2>1. conn.pc \in (11..14) \union (30..33) /\ conn.pc + 1 \in 12..34
    OBVIOUS
  <2> QED
    BY <2>1, RebuildLeaves
<1>4. d.version <= SCHEMA_VERSION /\ ~(conn.pc + 1 > 38)
  BY <1>1 DEF Reached
<1>5. Reached(conn.pc + 1, next.seen, conn.tables, d)
  BY <1>3, <1>4 DEF Reached
<1>6. conn.pc \in 1..39 /\ conn.pc # 38 /\ FALSE \in BOOLEAN
  OBVIOUS
<1> QED
  BY <1>2, <1>5, <1>6, WriteProceeds

\* A statement of a rebuild adds no column that the script adds.
LEMMA RebuildColumns ==
    ASSUME conn.pc \in (12..14) \union (31..33), NEW seen, NEW tables, NEW cols,
           ColumnsAt(conn.pc, seen, tables, cols)
    PROVE  ColumnsAt(conn.pc + 1, seen, tables, cols)
<1>1. \A i \in ColumnSteps : i < conn.pc + 1 <=> i < conn.pc
  BY DEF ColumnSteps
<1>2. conn.pc # 40 /\ conn.pc + 1 # 40
  OBVIOUS
<1> QED
  BY <1>1, <1>2 DEF ColumnsAt

LEMMA RebuildCopies ==
    ASSUME MigrationInv, Rebuild, conn.pc \in {12, 31}
    PROVE  MigrationInv'
<1> DEFINE n == conn.pc
           new == IF n = 12 THEN "symbol_new" ELSE "component_new"
           d == [View EXCEPT !.rows = @ \union {new}]
<1>1. /\ conn.pc \in 1..40 /\ conn \in Connections /\ disk \in Images /\ View \in Images
      /\ Listed(conn) /\ Reached(conn.pc, conn.seen, conn.tables, View)
  BY UnderWay
<1>2. NewName = new /\ Rebuilt = IF n = 12 THEN "symbol" ELSE "component"
  BY <1>1, RebuildIs DEF NewName
<1>3. View.rows = {"symbol", "component"} /\ View.tables = TablesAt(n, conn.tables)
      /\ ColumnsAt(n, conn.seen, conn.tables, View.cols) /\ RebuildsAt(n, conn.seen, View)
  BY <1>1 DEF Reached, RowsAt
<1>4. n = 12 => RebuiltColumns \subseteq View.cols
  <2> SUFFICES ASSUME n = 12, NEW c \in RebuiltColumns PROVE c \in View.cols
    OBVIOUS
  <2>1. PICK i \in ColumnSteps : i < 11 /\ c = Script[i].what
    BY RebuiltKnown
  <2>2. Script[i].table \in conn.tables /\ i < n
    BY <1>1, <2>1, ColumnFacts DEF Listed, ColumnSteps
  <2> QED
    BY <1>3, <2>1, <2>2 DEF ColumnsAt
<1>5. Writes(d, FALSE, conn)
  BY <1>1, <1>2, <1>3, <1>4, RebuildIs DEF Rebuild
<1>6. /\ d \in Images /\ d.rows = View.rows \union {new} /\ d.version = View.version
      /\ d.tables = View.tables /\ d.cols = View.cols /\ d.kindInt = View.kindInt
      /\ d.perRepo = View.perRepo /\ d.done = View.done
  BY <1>1 DEF Images
<1> HIDE DEF d
<1>7. d.tables = TablesAt(n + 1, conn.tables) /\ d.rows = RowsAt(n + 1)
  BY <1>3, <1>6 DEF TablesAt, RowsAt
<1>8. ColumnsAt(n + 1, conn.seen, conn.tables, d.cols)
  BY <1>3, <1>6, RebuildColumns
<1>9. RebuildsAt(n + 1, conn.seen, d)
  BY <1>3, <1>6 DEF RebuildsAt
<1>10. Grouped(conn.seen)
  BY <1>1 DEF Listed
<1>11. conn.pc \in (12..14) \union (31..33)
  OBVIOUS
<1> HIDE DEF n
<1> QED
  BY <1>1, <1>5, <1>6, <1>7, <1>8, <1>9, <1>10, <1>11, RebuildWrites DEF n

LEMMA RebuildDrops ==
    ASSUME MigrationInv, Rebuild, conn.pc \in {13, 32}
    PROVE  MigrationInv'
<1> DEFINE n == conn.pc
           old == IF n = 13 THEN "symbol" ELSE "component"
           d == [View EXCEPT !.tables = @ \ {old}, !.rows = @ \ {old}]
<1>1. /\ conn.pc \in 1..40 /\ conn \in Connections /\ disk \in Images /\ View \in Images
      /\ Listed(conn) /\ Reached(conn.pc, conn.seen, conn.tables, View)
  BY UnderWay
<1>2. Rebuilt = old
  BY <1>1, RebuildIs
<1>3. View.rows = RowsAt(n) /\ View.tables = TablesAt(n, conn.tables)
      /\ ColumnsAt(n, conn.seen, conn.tables, View.cols) /\ RebuildsAt(n, conn.seen, View)
  BY <1>1 DEF Reached
<1>4. Writes(d, FALSE, conn)
  BY <1>1, <1>2, RebuildIs DEF Rebuild
<1>5. /\ d \in Images /\ d.rows = View.rows \ {old} /\ d.version = View.version
      /\ d.tables = View.tables \ {old} /\ d.cols = View.cols /\ d.kindInt = View.kindInt
      /\ d.perRepo = View.perRepo /\ d.done = View.done
  BY <1>1 DEF Images
<1> HIDE DEF d
<1>6. d.tables = TablesAt(n + 1, conn.tables) /\ d.rows = RowsAt(n + 1)
  BY <1>3, <1>5 DEF TablesAt, RowsAt
<1>7. ColumnsAt(n + 1, conn.seen, conn.tables, d.cols)
  BY <1>3, <1>5, RebuildColumns
<1>8. RebuildsAt(n + 1, conn.seen, d)
  BY <1>3, <1>5 DEF RebuildsAt
<1>9. Grouped(conn.seen)
  BY <1>1 DEF Listed
<1>10. conn.pc \in (12..14) \union (31..33)
  OBVIOUS
<1> HIDE DEF n
<1> QED
  BY <1>1, <1>4, <1>5, <1>6, <1>7, <1>8, <1>9, <1>10, RebuildWrites DEF n

LEMMA KindRenames ==
    ASSUME MigrationInv, Rebuild, conn.pc = 14
    PROVE  MigrationInv'
<1> DEFINE rows == (View.rows \ {"symbol_new"}) \union {"symbol"}
           kept == {c \in View.cols : TableOf(c) # "symbol"} \union RebuiltColumns
           tables == (View.tables \ {"symbol_new"}) \union {"symbol"}
           d == [View EXCEPT !.tables = tables, !.rows = rows, !.cols = kept, !.kindInt = TRUE]
           next == [conn EXCEPT !.seen = kept]
<1>1. /\ conn.pc \in 1..40 /\ conn \in Connections /\ disk \in Images /\ View \in Images
      /\ Listed(conn) /\ Reached(conn.pc, conn.seen, conn.tables, View)
  BY UnderWay
<1>2. Rebuilt = "symbol" /\ NewName = "symbol_new"
  BY <1>1, RebuildIs DEF NewName
<1>3. View.rows = {"component", "symbol_new"} /\ View.tables = TablesAt(14, conn.tables)
      /\ ColumnsAt(14, conn.seen, conn.tables, View.cols) /\ RebuildsAt(14, conn.seen, View)
  BY <1>1 DEF Reached, RowsAt
<1>4. [[View EXCEPT !.tables = tables, !.rows = rows] EXCEPT !.cols = kept, !.kindInt = TRUE] = d
  BY <1>1 DEF Images
<1>5. Writes(d, FALSE, next)
  <2> HIDE DEF d, kept
  <2>1. Writes([[View EXCEPT !.tables = tables, !.rows = rows] EXCEPT !.cols = kept,
                                                                    !.kindInt = TRUE],
               FALSE, next)
    BY <1>1, <1>2, <1>3, RebuildIs DEF Rebuild, kept
  <2> QED
    BY <1>4, <2>1
<1>6. kept \in SUBSET AllColumns
  BY <1>1, RebuiltKnown, AllColumnsAre DEF Images
<1>7. tables = conn.tables /\ rows = {"symbol", "component"}
  BY <1>1, <1>3 DEF TablesAt, Listed, Connections, AllTables
<1>8. \A i \in ColumnSteps :
          Script[i].what \in kept <=> IF Script[i].table = "symbol" THEN i < 11
                                      ELSE Script[i].what \in View.cols
  BY AllColumnsAre, RebuiltAre, ColumnFacts
<1> HIDE DEF kept, tables, rows
<1>9. /\ d \in Images /\ d.rows = rows /\ d.version = View.version
      /\ d.tables = tables /\ d.cols = kept /\ d.kindInt = TRUE
      /\ d.perRepo = View.perRepo /\ d.done = View.done
  <2>2. /\ View.version \in Int /\ View.perRepo \in BOOLEAN /\ View.done \in SUBSET Conversions
        /\ conn.tables \in SUBSET AllTables
    BY <1>1 DEF Images, Connections
  <2>3. tables \in SUBSET (AllTables \union {"symbol_new", "component_new"})
    BY <1>7, <2>2
  <2>4. rows \in SUBSET {"symbol", "component", "symbol_new", "component_new"}
    BY <1>7
  <2> DEFINE e == [View EXCEPT !.tables = tables, !.rows = rows]
  <2>5. /\ e \in Images /\ e.tables = tables /\ e.rows = rows /\ e.version = View.version
        /\ e.perRepo = View.perRepo /\ e.done = View.done
    BY <1>1, <2>3, <2>4 DEF Images
  <2>6. d = [e EXCEPT !.cols = kept, !.kindInt = TRUE]
    BY <1>4
  <2> HIDE DEF d, e
  <2>7. /\ d \in Images /\ d.tables = e.tables /\ d.rows = e.rows /\ d.version = e.version
        /\ d.perRepo = e.perRepo /\ d.done = e.done /\ d.cols = kept /\ d.kindInt = TRUE
    BY <1>6, <2>5, <2>6 DEF Images
  <2> QED
    BY <2>5, <2>7
<1>10. /\ next \in Connections /\ next.seen = kept /\ next.open = conn.open
       /\ next.tables = conn.tables /\ next.backfill = conn.backfill
  BY <1>1, <1>6 DEF Connections
<1> HIDE DEF d, next
<1>11. Grouped(kept)
  <2> SUFFICES ASSUME NEW i \in ColumnSteps
               PROVE  Script[i].what \in kept <=> Script[i].gate \in kept
    BY DEF Grouped
  <2>1. GateOf(i) < 11 <=> i < 11
    BY DEF GateOf, ColumnSteps
  <2>2. /\ GateOf(i) \in ColumnSteps /\ Script[i].gate = Script[GateOf(i)].what
        /\ Script[i].table = Script[GateOf(i)].table
    BY ColumnFacts
  <2>3. CASE Script[i].table = "symbol"
    BY <1>8, <2>1, <2>2, <2>3
  <2>4. CASE Script[i].table # "symbol"
    <3>1. i > 14 /\ GateOf(i) > 14
      BY <2>2, <2>4, RebuiltAre
    <3>2. /\ Script[i].what \in View.cols <=> Script[i].what \in conn.seen
          /\ Script[i].gate \in View.cols <=> Script[i].gate \in conn.seen
      BY <1>3, <2>2, <3>1 DEF ColumnsAt, ColumnSteps
    <3> QED
      BY <1>1, <1>8, <2>2, <2>4, <3>2 DEF Listed, Grouped
  <2> QED
    BY <2>3, <2>4
<1>12. ColumnsAt(15, kept, conn.tables, kept)
  <2> SUFFICES ASSUME NEW i \in ColumnSteps, i < 15, Script[i].table \in conn.tables
               PROVE  Script[i].what \in kept
    BY DEF ColumnsAt
  <2>1. i < 11
    BY DEF ColumnSteps
  <2> QED
    BY <2>1, <1>8, ColumnFacts
<1>13. d.tables = TablesAt(15, conn.tables) /\ d.rows = RowsAt(15)
  BY <1>7, <1>9 DEF TablesAt, RowsAt
<1>14. RebuildsAt(15, kept, d)
  BY <1>9 DEF RebuildsAt
<1>15. conn.pc + 1 = 15 /\ conn.pc \in (12..14) \union (31..33)
  OBVIOUS
<1> QED
  BY <1>5, <1>9, <1>10, <1>11, <1>12, <1>13, <1>14, <1>15, RebuildWrites

LEMMA ComponentRenames ==
    ASSUME MigrationInv, Rebuild, conn.pc = 33
    PROVE  MigrationInv'
<1> DEFINE rows == (View.rows \ {"component_new"}) \union {"component"}
           tables == (View.tables \ {"component_new"}) \union {"component"}
           d == [View EXCEPT !.tables = tables, !.rows = rows, !.perRepo = TRUE]
<1>1. /\ conn.pc \in 1..40 /\ conn \in Connections /\ disk \in Images /\ View \in Images
      /\ Listed(conn) /\ Reached(conn.pc, conn.seen, conn.tables, View)
  BY UnderWay
<1>2. Rebuilt = "component" /\ NewName = "component_new"
  BY <1>1, RebuildIs DEF NewName
<1>3. View.rows = {"symbol", "component_new"} /\ View.tables = TablesAt(33, conn.tables)
      /\ ColumnsAt(33, conn.seen, conn.tables, View.cols) /\ RebuildsAt(33, conn.seen, View)
  BY <1>1 DEF Reached, RowsAt
<1>4. [[View EXCEPT !.tables = tables, !.rows = rows] EXCEPT !.perRepo = TRUE] = d
  BY <1>1 DEF Images
<1>5. Writes(d, FALSE, conn)
  <2> HIDE DEF d
  <2>1. Writes([[View EXCEPT !.tables = tables, !.rows = rows] EXCEPT !.perRepo = TRUE], FALSE, conn)
    BY <1>1, <1>2, <1>3, RebuildIs DEF Rebuild
  <2> QED
    BY <1>4, <2>1
<1>6. tables = conn.tables /\ rows = {"symbol", "component"}
  BY <1>1, <1>3 DEF TablesAt, Listed, Connections, AllTables
<1> HIDE DEF tables, rows
<1>7. /\ d \in Images /\ d.rows = rows /\ d.version = View.version
      /\ d.tables = tables /\ d.cols = View.cols /\ d.perRepo = TRUE
      /\ d.kindInt = View.kindInt /\ d.done = View.done
  BY <1>1, <1>6 DEF Images, Connections
<1> HIDE DEF d
<1>8. d.tables = TablesAt(34, conn.tables) /\ d.rows = RowsAt(34)
  BY <1>6, <1>7 DEF TablesAt, RowsAt
<1>9. RebuildsAt(34, conn.seen, d)
  BY <1>3, <1>7 DEF RebuildsAt
<1>10. conn.pc + 1 = 34 /\ conn.pc \in (12..14) \union (31..33) /\ Grouped(conn.seen)
  BY <1>1 DEF Listed
<1>11. ColumnsAt(34, conn.seen, conn.tables, d.cols)
  BY <1>3, <1>7, <1>10, RebuildColumns
<1> QED
  BY <1>1, <1>5, <1>7, <1>8, <1>9, <1>10, <1>11, RebuildWrites

LEMMA RebuildStep ==
    ASSUME MigrationInv, Rebuild
    PROVE  MigrationInv'
<1>1. conn.pc > 0 /\ Step.do \in Rebuilds
  BY DEF Rebuild
<1>2. conn.pc \in (11..14) \union (30..33)
  BY <1>1, UnderWay, RebuildIs
<1> QED
  BY <1>2, RebuildStarts, RebuildCopies, RebuildDrops, KindRenames, ComponentRenames

LEMMA StampStep ==
    ASSUME MigrationInv, Stamp
    PROVE  MigrationInv'
<1>1. conn.pc > 0 /\ Script[conn.pc].do = "stamp"
  BY DEF Stamp, Step
<1>2. /\ conn.pc \in 1..40 /\ conn \in Connections /\ disk \in Images /\ View \in Images
      /\ Listed(conn) /\ Reached(conn.pc, conn.seen, conn.tables, View) /\ opened = "no"
      /\ conn.tables \subseteq AllTables
  BY <1>1, UnderWay
<1>3. conn.pc = 38
  BY <1>1, <1>2, OtherSteps
<1> DEFINE tables == {"call_arg", "repository", "label", "diagnostic", "entity_edge",
                      "entity_node", "decl_site", "edge_site"}
           stamps == conn.changed \/ ~(tables \subseteq conn.tables)
                     \/ View.version < SCHEMA_VERSION
           stamped == [View EXCEPT !.version = SCHEMA_VERSION]
<1>4. /\ disk' = IF stamps THEN stamped ELSE View
      /\ conn' = [conn EXCEPT !.pc = conn.pc + 1, !.open = FALSE,
                              !.backfill = "entity_node" \notin conn.tables]
      /\ opened' = opened
  BY DEF Stamp
<1>5. conn'.pc = 39 /\ conn'.open = FALSE /\ conn'.tables = conn.tables /\ conn'.seen = conn.seen
      /\ conn'.backfill = ("entity_node" \notin conn.tables)
  BY <1>2, <1>3, <1>4 DEF Connections
<1>6. conn' \in Connections
  <2>1. /\ conn.image \in Images /\ conn.fresh \in BOOLEAN /\ conn.changed \in BOOLEAN
        /\ conn.seen \in SUBSET AllColumns /\ conn.tables \in SUBSET AllTables
    BY <1>2 DEF Connections
  <2> DEFINE b == "entity_node" \notin conn.tables
  <2>2. conn' = [pc |-> 39, open |-> FALSE, image |-> conn.image, seen |-> conn.seen,
                 tables |-> conn.tables, fresh |-> conn.fresh, changed |-> conn.changed,
                 backfill |-> b]
    <3>1. conn' = [conn EXCEPT !.pc = 39, !.open = FALSE, !.backfill = b]
      BY <1>3, <1>4
    <3> HIDE DEF b
    <3> QED
      BY <1>2, <3>1 DEF Connections
  <2>3. b \in BOOLEAN
    OBVIOUS
  <2> HIDE DEF b
  <2> QED
    BY <2>1, <2>2, <2>3 DEF Connections
<1>7. /\ disk' \in Images /\ disk'.version = SCHEMA_VERSION /\ disk'.tables = View.tables
      /\ disk'.rows = View.rows /\ disk'.cols = View.cols /\ disk'.kindInt = View.kindInt
      /\ disk'.perRepo = View.perRepo /\ disk'.done = View.done
  <2> SUFFICES ASSUME TRUE
               PROVE  /\ disk' \in Images /\ disk'.version = SCHEMA_VERSION
                      /\ disk'.tables = View.tables /\ disk'.rows = View.rows
                      /\ disk'.cols = View.cols /\ disk'.kindInt = View.kindInt
                      /\ disk'.perRepo = View.perRepo /\ disk'.done = View.done
    OBVIOUS
  <2>1. SCHEMA_VERSION \in Int
    BY HistoryFacts
  <2>2. CASE stamps
    <3>1. disk' = stamped
      BY <1>4, <2>2
    <3> QED
      BY <1>2, <2>1, <3>1 DEF Images
  <2>3. CASE ~stamps
    <3>1. disk' = View
      BY <1>4, <2>3
    <3>2. View.version \in Int /\ View.version <= SCHEMA_VERSION /\ ~(View.version < SCHEMA_VERSION)
      BY <1>2, <2>3 DEF Images, Reached
    <3> QED
      BY <1>2, <2>1, <3>1, <3>2
  <2> QED
    BY <2>2, <2>3
<1>8. Reached(39, conn.seen, conn.tables, disk')
  <2>1. ColumnsAt(39, conn.seen, conn.tables, disk'.cols)
    <3>1. \A i \in ColumnSteps : i < 39 /\ i < 38
      BY DEF ColumnSteps
    <3> QED
      BY <1>2, <1>3, <1>7, <3>1 DEF Reached, ColumnsAt
  <2>2. TablesAt(39, conn.tables) = TablesAt(38, conn.tables) /\ RowsAt(39) = RowsAt(38)
    BY DEF TablesAt, RowsAt
  <2>3. FillsAt(39, conn.seen, disk') /\ RebuildsAt(39, conn.seen, disk')
        /\ ConversionsAt(39, conn.tables, disk')
    BY <1>2, <1>3, <1>7 DEF Reached, FillsAt, RebuildsAt, ConversionsAt
  <2>4. disk'.version <= SCHEMA_VERSION
    BY <1>7, HistoryFacts
  <2> QED
    BY <1>2, <1>3, <1>7, <2>1, <2>2, <2>3, <2>4 DEF Reached
<1>9. Listed(conn')
  BY <1>2, <1>5 DEF Listed
<1>10. Sound(disk')
  <2>1. 39 \notin Delicate /\ 39 \in 1..39
    BY DEF Delicate
  <2> QED
    BY <1>2, <1>8, <2>1, ReachedIsSound
<1>11. Opening(disk', conn')
  BY <1>5, <1>8, <1>9, <1>10 DEF Opening, Transacts
<1> QED
  BY <1>2, <1>4, <1>5, <1>6, <1>7, <1>11 DEF MigrationInv

LEMMA SchemaStep ==
    ASSUME MigrationInv, CreateSchema
    PROVE  MigrationInv'
<1>1. conn.pc > 0 /\ Script[conn.pc].do = "schema"
  BY DEF CreateSchema, Step
<1>2. /\ conn.pc \in 1..40 /\ conn \in Connections /\ disk \in Images /\ View \in Images
      /\ Listed(conn) /\ Reached(conn.pc, conn.seen, conn.tables, View) /\ Transacts(conn)
      /\ conn.tables \subseteq AllTables
  BY <1>1, UnderWay
<1>3. conn.pc = 39
  BY <1>1, <1>2, OtherSteps
<1>4. ~conn.open
  BY <1>2, <1>3 DEF Transacts
<1>5. View.tables = conn.tables /\ View.rows = {"symbol", "component"}
      /\ View.version = SCHEMA_VERSION /\ View.kindInt = TRUE /\ View.perRepo = TRUE
      /\ ColumnsAt(39, conn.seen, conn.tables, View.cols)
  BY <1>2, <1>3 DEF Reached, TablesAt, RowsAt, RebuildsAt, Images
<1> DEFINE missing == AllTables \ View.tables
           cols == View.cols \union {c \in AllColumns : TableOf(c) \in missing}
           done == View.done
                   \union (IF "entity_edge" \in missing THEN {"nests", "realizes", "dedup"} ELSE {})
                   \union (IF "repository" \in missing THEN {"relativize"} ELSE {})
           d == [View EXCEPT !.tables = @ \union AllTables,
                             !.cols = @ \union {c \in AllColumns : TableOf(c) \in missing},
                             !.kindInt = @ \/ "symbol" \in missing,
                             !.perRepo = @ \/ "component" \in missing,
                             !.done = @ \union (IF "entity_edge" \in missing
                                                THEN {"nests", "realizes", "dedup"} ELSE {})
                                        \union (IF "repository" \in missing
                                                THEN {"relativize"} ELSE {})]
<1>6. Writes(d, FALSE, conn)
  BY DEF CreateSchema
<1>7. /\ d.version = View.version /\ d.tables = View.tables \union AllTables
      /\ d.rows = View.rows /\ d.cols = cols /\ d.done = done
      /\ d.kindInt = (View.kindInt \/ "symbol" \in missing)
      /\ d.perRepo = (View.perRepo \/ "component" \in missing)
  BY <1>2 DEF Images
<1>8. d \in [version : Int, tables : SUBSET (AllTables \union {"symbol_new", "component_new"}),
             cols : SUBSET AllColumns, kindInt : BOOLEAN, perRepo : BOOLEAN,
             rows : SUBSET {"symbol", "component", "symbol_new", "component_new"},
             done : SUBSET Conversions]
  <2>1. View.tables \union AllTables \in SUBSET (AllTables \union {"symbol_new", "component_new"})
    BY <1>2 DEF Images
  <2>2. cols \in SUBSET AllColumns
    BY <1>2 DEF Images
  <2>3. done \in SUBSET Conversions
    BY <1>2 DEF Images, Conversions
  <2> QED
    BY <1>2, <2>1, <2>2, <2>3 DEF Images
<1>9. d \in Images
  BY <1>8 DEF Images
<1>10. d.tables = AllTables
  BY <1>2, <1>5, <1>7
<1>11. ColumnsAt(40, conn.seen, conn.tables, d.cols)
  <2> SUFFICES ASSUME NEW i \in ColumnSteps PROVE Script[i].what \in cols
    BY <1>7 DEF ColumnsAt
  <2>1. i < 39
    BY DEF ColumnSteps
  <2>2. CASE Script[i].table \in conn.tables
    BY <1>5, <2>1, <2>2 DEF ColumnsAt
  <2>3. CASE Script[i].table \notin conn.tables
    BY <1>5, <2>3, ColumnFacts, AllColumnsAre
  <2> QED
    BY <2>2, <2>3
<1>12. FillsAt(40, conn.seen, d) /\ RebuildsAt(40, conn.seen, d)
  <2>1. d.kindInt = TRUE /\ d.perRepo = TRUE
    <3> HIDE DEF d, missing
    <3> QED
      BY <1>5, <1>7
  <2>2. View.done \subseteq d.done
    BY <1>7
  <2>3. FillsAt(39, conn.seen, View)
    BY <1>2, <1>3 DEF Reached
  <2> HIDE DEF d
  <2>4. FillsAt(40, conn.seen, d)
    BY <2>2, <2>3 DEF FillsAt
  <2>5. RebuildsAt(40, conn.seen, d)
    BY <2>1 DEF RebuildsAt
  <2> QED
    BY <2>4, <2>5
<1>13. ConversionsAt(40, conn.tables, d)
  <2>1. "repository" \in AllTables /\ "entity_edge" \in AllTables
    BY DEF AllTables
  <2> QED
    BY <1>2, <1>3, <1>5, <1>7, <2>1 DEF Reached, ConversionsAt
<1>14. Reached(40, conn.seen, conn.tables, d)
  <2>1. TablesAt(40, conn.tables) = AllTables /\ RowsAt(40) = {"symbol", "component"}
    BY DEF TablesAt, RowsAt
  <2>2. d.version = SCHEMA_VERSION /\ d.version <= SCHEMA_VERSION
    BY <1>5, <1>7, HistoryFacts
  <2> HIDE DEF d
  <2> QED
    BY <1>5, <1>7, <1>10, <1>11, <1>12, <1>13, <2>1, <2>2 DEF Reached
<1>15. conn.pc \in 1..39 /\ conn.pc # 38 /\ conn.pc + 1 = 40 /\ FALSE \in BOOLEAN
  BY <1>3
<1>16. Grouped(conn.seen)
  BY <1>2 DEF Listed
<1> HIDE DEF d
<1> QED
  BY <1>2, <1>4, <1>6, <1>9, <1>14, <1>15, <1>16, WriteProceeds

LEMMA LastStep ==
    ASSUME MigrationInv, FillEntityNodes
    PROVE  MigrationInv'
<1>1. conn.pc > 0 /\ Script[conn.pc].do = "entity_nodes"
  BY DEF FillEntityNodes, Step
<1>2. /\ conn.pc \in 1..40 /\ conn \in Connections /\ disk \in Images
      /\ Reached(conn.pc, conn.seen, conn.tables, View) /\ Transacts(conn)
      /\ conn.pc > 38 => conn.backfill = ("entity_node" \notin conn.tables)
  BY <1>1, UnderWay
<1>3. conn.pc = 40
  BY <1>1, <1>2, OtherSteps
<1>4. View = disk
  BY <1>2, <1>3 DEF Transacts, View
<1>5. /\ disk.version = SCHEMA_VERSION /\ disk.tables = AllTables
      /\ disk.rows = {"symbol", "component"} /\ disk.kindInt = TRUE /\ disk.perRepo = TRUE
  BY <1>2, <1>3, <1>4 DEF Reached, TablesAt, RowsAt, RebuildsAt, Images
<1>6. disk.cols = AllColumns
  BY <1>2, <1>3, <1>4, AllColumnsAre DEF Reached, ColumnsAt, Images
<1>7. disk.done \in SUBSET Conversions /\ Conversions \ {"entity_nodes"} \subseteq disk.done
  BY <1>2, <1>3, <1>4 DEF Reached, FillsAt, ConversionsAt, Images, Conversions
<1>8. disk' = IF conn.backfill THEN [disk EXCEPT !.done = @ \union {"entity_nodes"}] ELSE disk
  BY DEF FillEntityNodes
<1>9. disk' = Upgraded
  <2>1. disk = [version |-> SCHEMA_VERSION, tables |-> AllTables, cols |-> AllColumns,
                kindInt |-> TRUE, perRepo |-> TRUE, rows |-> {"symbol", "component"},
                done |-> disk.done]
    BY <1>2, <1>5, <1>6 DEF Images
  <2>2. CASE conn.backfill
    <3>1. disk.done \union {"entity_nodes"} = Conversions
      BY <1>7 DEF Conversions
    <3>2. disk' = [disk EXCEPT !.done = Conversions]
      BY <1>8, <2>2, <3>1
    <3>3. /\ disk' \in Images /\ disk'.done = Conversions /\ disk'.version = disk.version
          /\ disk'.tables = disk.tables /\ disk'.cols = disk.cols /\ disk'.rows = disk.rows
          /\ disk'.kindInt = disk.kindInt /\ disk'.perRepo = disk.perRepo
      BY <1>2, <3>2 DEF Images
    <3>4. disk' = [version |-> SCHEMA_VERSION, tables |-> AllTables, cols |-> AllColumns,
                   kindInt |-> TRUE, perRepo |-> TRUE, rows |-> {"symbol", "component"},
                   done |-> Conversions]
      BY <1>5, <1>6, <3>3 DEF Images
    <3> QED
      BY <3>4, UpgradedIs
  <2>3. CASE ~conn.backfill
    <3>1. "entity_nodes" \in disk.done
      <4>1. "entity_node" \in conn.tables
        <5>1. conn.backfill \in BOOLEAN
          BY <1>2 DEF Connections
        <5> QED
          BY <1>2, <1>3, <2>3, <5>1
      <4>2. ConversionsAt(40, conn.tables, disk)
        BY <1>2, <1>3, <1>4 DEF Reached
      <4> QED
        BY <4>1, <4>2 DEF ConversionsAt
    <3>2. disk.done = Conversions
      BY <1>7, <3>1
    <3>3. disk' = disk
      BY <1>8, <2>3
    <3> QED
      BY <2>1, <3>2, <3>3, UpgradedIs
  <2> QED
    BY <2>2, <2>3
<1>10. conn' = Closed /\ opened' = "yes"
  BY DEF FillEntityNodes
<1>11. Upgraded \in Images /\ Sound(Upgraded)
  BY HistoryFacts, DatabaseIsSound DEF Upgraded
<1> QED
  BY <1>9, <1>10, <1>11, ClosedIs DEF MigrationInv

LEMMA MigrationInitOK == MigrationInit => MigrationInv
<1> SUFFICES ASSUME MigrationInit PROVE MigrationInv
  OBVIOUS
<1>1. PICK v \in Oldest..SCHEMA_VERSION : disk = Database(v)
  BY DEF MigrationInit
<1>2. v \in Nat /\ Oldest <= v /\ v <= SCHEMA_VERSION
  BY <1>1, HistoryFacts
<1>3. disk \in Images /\ Sound(disk)
  BY <1>1, <1>2, DatabaseIsSound
<1>4. conn = Closed /\ opened = "no"
  BY DEF MigrationInit
<1> QED
  BY <1>3, <1>4, ClosedIs DEF MigrationInv

LEMMA MigrationStep == MigrationInv /\ [Progress \/ Dies]_migrationVars => MigrationInv'
<1> SUFFICES ASSUME MigrationInv, [Progress \/ Dies]_migrationVars PROVE MigrationInv'
  OBVIOUS
<1>1. CASE UNCHANGED migrationVars
  <2>1. disk' = disk /\ conn' = conn /\ opened' = opened
    BY <1>1 DEF migrationVars
  <2> QED
    BY <2>1 DEF MigrationInv, Opening, Transacts, Listed
<1>2. CASE Progress
  BY <1>2, OpenStep, ColumnStep, FillStep, RebuildStep, ConversionStep, StampStep, SchemaStep,
     LastStep DEF Progress
<1>3. CASE Dies
  BY <1>3, DeathStep
<1> QED
  BY <1>1, <1>2, <1>3

\* A database that was opened is what this build writes, with every row it had and every
\* conversion made, from whatever version and after any number of deaths that spare the
\* fragile steps (storage.py, Storage.__init__ and _migrate).
THEOREM UpgradesAreComplete == MigrationSpec => []UpgradeIsComplete
<1>1. MigrationInv => UpgradeIsComplete
  BY DEF MigrationInv, UpgradeIsComplete
<1> QED
  BY <1>1, MigrationInitOK, MigrationStep, PTL DEF MigrationSpec

\* No opening is refused: no ALTER meets a column that is there, no rebuild a table that an
\* earlier one left behind or a column that is not there yet.
THEOREM NoOpeningIsRefused == MigrationSpec => [](opened # "error")
<1>1. MigrationInv => opened # "error"
  BY DEF MigrationInv
<1> QED
  BY <1>1, MigrationInitOK, MigrationStep, PTL DEF MigrationSpec

===============================================================================
