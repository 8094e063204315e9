--------------------------- MODULE ResolveProofs ----------------------------
(***************************************************************************)
(* Theorems about Resolve, for every value of its constants: the resolver   *)
(* changes nothing that indexing relies on, the derived tables keep their   *)
(* types, possible_call never relates bodies that are gone or a call that   *)
(* is not recorded, and a pass that nobody disturbed leaves exactly what    *)
(* the stored tables imply.                                                 *)
(***************************************************************************)
EXTENDS Resolve, IndexRunProofs, FiniteSetTheorems, DataInduction

LEMMA IndexStepIsNext == IndexStep => Next
<1>1. IndexRest => Next
    BY DEF IndexRest, Next, Environment, Scan, Write
<1>2. ASSUME NEW p \in Procs, NEW h \in Headers, IndexHeader(p, h)
      PROVE  Next
    BY <1>2 DEF IndexHeader, Next, Write
<1>3. ASSUME NEW p \in Procs, IndexEdgesGo(p) \/ IndexBodiesGo(p) \/ IndexEdges(p)
      PROVE  Next
    BY <1>3 DEF IndexEdgesGo, IndexBodiesGo, IndexEdges, Next, Write
<1>4. ASSUME NEW F \in Droppable, Delete(F)
      PROVE  Next
    BY <1>4 DEF Delete, Next, Environment
<1> QED BY <1>1, <1>2, <1>3, <1>4 DEF IndexStep

LEMMA ResolveStepLeavesVars == ResolveStep => UNCHANGED vars
BY DEF ResolveStep, ResolveBegin, SetMultiDef, MaterializePossibleCalls,
       MaterializeDispatchCalls, ResolveDies, Go

LEMMA ResolveNextIsNext == [ResolveNext]_rvars => [Next]_vars
BY IndexStepIsNext, ResolveStepLeavesVars DEF ResolveNext, rvars

\* Beside a resolver the index behaves as without one: resolve_pass writes no
\* table, column or row that an index run, an import or a delete command reads
\* or writes, so what holds of IndexRun holds beside it.
THEOREM ResolverLeavesIndexAlone == ResolveSpec => Spec
<1>1. ResolveInit => Init
    BY DEF ResolveInit
<1> QED BY <1>1, ResolveNextIsNext, PTL DEF ResolveSpec, Spec

(***************************************************************************)
(* possible_call: each step that removes bodies or their calls removes the  *)
(* rows that name them.                                                     *)
(***************************************************************************)
LEMMA DeleteKeepsPossible ==
    ASSUME PossibleCallsAreBodyCalls, NEW F \in Droppable, Delete(F)
    PROVE  PossibleCallsAreBodyCalls'
<1>1. PICK gone :
        /\ def' = {d \in def : d[1] \notin F /\ d[2] \notin gone}
        /\ defEdge' = {d \in defEdge : d[1] \notin F /\ d[2] \notin gone /\ d[3] \notin gone}
    BY DEF Delete, Drop
<1>2. possible' = {r \in possible : r[1] \in def' /\ r[2] \in def'}
    BY DEF Delete
<1> SUFFICES ASSUME NEW r \in possible, r[1] \in def', r[2] \in def'
             PROVE  <<r[1][1], r[1][2], r[2][2]>> \in defEdge'
    BY <1>2 DEF PossibleCallsAreBodyCalls
<1>3. <<r[1][1], r[1][2], r[2][2]>> \in defEdge
    BY DEF PossibleCallsAreBodyCalls
<1>4. r[1][1] \notin F /\ r[1][2] \notin gone /\ r[2][2] \notin gone
    BY <1>1
<1> QED BY <1>1, <1>3, <1>4

LEMMA WipedBodiesKeepPossible ==
    ASSUME PossibleCallsAreBodyCalls, NEW f, possible' = PossibleWithout(f),
           DefsWithout(f) \subseteq def', DefEdgesWithout(f) \subseteq defEdge'
    PROVE  PossibleCallsAreBodyCalls'
<1> SUFFICES ASSUME NEW r \in possible, r[1][1] # f, r[2][1] # f
             PROVE  /\ r[1] \in def' /\ r[2] \in def'
                    /\ <<r[1][1], r[1][2], r[2][2]>> \in defEdge'
    BY DEF PossibleCallsAreBodyCalls, PossibleWithout
<1>1. /\ r[1] \in def /\ r[2] \in def
      /\ <<r[1][1], r[1][2], r[2][2]>> \in defEdge
    BY DEF PossibleCallsAreBodyCalls
<1>2. r[1] \in DefsWithout(f) /\ r[2] \in DefsWithout(f)
    BY <1>1 DEF DefsWithout
<1>3. <<r[1][1], r[1][2], r[2][2]>> \in DefEdgesWithout(f)
    BY <1>1 DEF DefEdgesWithout
<1> QED BY <1>2, <1>3

LEMMA IndexStepKeepsPossible ==
    ASSUME PossibleCallsAreBodyCalls, IndexStep
    PROVE  PossibleCallsAreBodyCalls'
<1>1. ASSUME NEW p \in Procs, NEW h \in Headers, IndexHeader(p, h)
      PROVE  PossibleCallsAreBodyCalls'
  <2>1. DefsWithout(h) \subseteq def' /\ DefEdgesWithout(h) \subseteq defEdge'
      BY <1>1 DEF IndexHeader, StoreHeaderEdges, StoreBodies
  <2> QED BY <1>1, <2>1, WipedBodiesKeepPossible DEF IndexHeader
<1>2. ASSUME NEW p \in Procs, IndexBodiesGo(p)
      PROVE  PossibleCallsAreBodyCalls'
  <2>1. def' = DefsWithout(proc[p].cur) /\ defEdge' = DefEdgesWithout(proc[p].cur)
      BY <1>2 DEF IndexBodiesGo, WipeBodies
  <2> QED BY <1>2, <2>1, WipedBodiesKeepPossible DEF IndexBodiesGo
<1>3. ASSUME NEW p \in Procs, IndexEdgesGo(p) \/ IndexEdges(p)
      PROVE  PossibleCallsAreBodyCalls'
  <2>1. def \subseteq def' /\ defEdge \subseteq defEdge' /\ possible' = possible
      BY <1>3 DEF IndexEdgesGo, WipeEdges, IndexEdges, StoreEdges, StoreBodies
  <2> QED BY <2>1 DEF PossibleCallsAreBodyCalls
<1>4. ASSUME NEW F \in Droppable, Delete(F)
      PROVE  PossibleCallsAreBodyCalls'
    BY <1>4, DeleteKeepsPossible
<1>5. CASE IndexRest
  <2>1. UNCHANGED <<def, defEdge, possible>>
    <3>1. UNCHANGED derived
        BY <1>5 DEF IndexRest
    <3>2. ASSUME NEW p \in Procs, Begin(p) \/ Scan(p)
          PROVE  UNCHANGED <<def, defEdge>>
        BY <3>2 DEF Begin, BeginPending, BeginFiles, Scan, Skip, Parse, ParseFails, Finish, tables
    <3>3. ASSUME NEW p \in Procs, StoreMain(p) \/ StoreHeader(p) \/ MarkHeader(p)
                                  \/ MarkMain(p) \/ Abort(p) \/ Crash(p)
          PROVE  UNCHANGED <<def, defEdge>>
        BY <3>3 DEF StoreMain, StoreHeader, MarkHeader, MarkMain, Abort, Crash, tables
    <3>4. ASSUME NEW p \in Procs, NEW h \in Headers,
                 SkipHeader(p, h) \/ RegisterHeader(p, h) \/ AbortHeader(p, h)
          PROVE  UNCHANGED <<def, defEdge>>
        BY <3>4 DEF SkipHeader, RegisterHeader, AbortHeader, tables
    <3>5. ASSUME \/ \E f \in Files, c \in Version : Edit(f, c)
                 \/ Import
                 \/ \E f \in Files, b \in SetValues : SetIndexed(f, b)
          PROVE  UNCHANGED <<def, defEdge>>
        BY <3>5 DEF Edit, Import, SetIndexed, tables
    <3> QED BY <1>5, <3>1, <3>2, <3>3, <3>4, <3>5 DEF IndexRest, derived
  <2> QED BY <2>1 DEF PossibleCallsAreBodyCalls
<1> QED BY <1>1, <1>2, <1>3, <1>4, <1>5 DEF IndexStep

LEMMA ResolveStepKeepsPossible ==
    ASSUME PossibleCallsAreBodyCalls, ResolveStep
    PROVE  PossibleCallsAreBodyCalls'
<1>1. UNCHANGED <<def, defEdge>>
    BY ResolveStepLeavesVars DEF vars, tables
<1>2. CASE MaterializePossibleCalls
    BY <1>1, <1>2 DEF MaterializePossibleCalls, PossibleCallsAreBodyCalls
<1>3. CASE ResolveBegin \/ SetMultiDef \/ MaterializeDispatchCalls \/ ResolveDies
  <2>1. UNCHANGED possible
      BY <1>3 DEF ResolveBegin, SetMultiDef, MaterializeDispatchCalls, ResolveDies, derived
  <2> QED BY <1>1, <2>1 DEF PossibleCallsAreBodyCalls
<1> QED BY <1>2, <1>3 DEF ResolveStep

\* At every moment, a row of possible_call joins two bodies of the index, and
\* the first records a call of the second's symbol: the foreign keys' cascades
\* undo whatever a run or a delete command takes away after the pass, whichever
\* of the pass's commits it falls between.
THEOREM PossibleCallsStayTrue == ResolveSpec => []PossibleCallsAreBodyCalls
<1>1. ResolveInit => PossibleCallsAreBodyCalls
    BY DEF ResolveInit, PossibleCallsAreBodyCalls
<1>2. PossibleCallsAreBodyCalls /\ [ResolveNext]_rvars => PossibleCallsAreBodyCalls'
  <2>1. CASE UNCHANGED rvars
      BY <2>1 DEF rvars, vars, tables, derived, PossibleCallsAreBodyCalls
  <2> QED BY <2>1, IndexStepKeepsPossible, ResolveStepKeepsPossible DEF ResolveNext
<1> QED BY <1>1, <1>2, PTL DEF ResolveSpec

\* Beside a resolver too, a body records only its own calls: one indexing
\* process at a time, any number of resolve passes and delete commands.
THEOREM CallsStayTheBodysOwn ==
    ASSUME \A p, q \in Procs : p = q
    PROVE  ResolveSpec => []NoForeignCalls
<1>1. Spec => []NoForeignCalls
    BY CallsAreTheBodysOwn
<1> QED BY <1>1, ResolverLeavesIndexAlone, PTL
(***************************************************************************)
(* The derived tables' types.                                              *)
(***************************************************************************)
LEMMA StoredOverridesType ==
    ASSUME NEW f \in Files, NEW c \in Contents, NEW O \in SUBSET (Symbols \X Symbols),
           StoreOverrides(f, c, O)
    PROVE  over' \subseteq Symbols \X Symbols
<1>1. Overrides[f][c] \in SUBSET (Symbols \X Symbols)
    BY OverridesAreMentioned
<1> QED BY <1>1 DEF StoreOverrides

LEMMA IndexStepKeepsDerivedTypes ==
    ASSUME TypeInv, TypeInv', DerivedTypeOK, IndexStep
    PROVE  DerivedTypeOK'
<1>1. pass' \in Resolver
  <2>1. pass' = [pass EXCEPT !.quiet =
                    pass.quiet /\ UNCHANGED <<sym, edge, def, defEdge, derived>>]
      BY DEF IndexStep, Disturbs
  <2> QED BY <2>1, Zenon DEF DerivedTypeOK, Resolver
<1>2. ASSUME NEW p \in Procs, NEW h \in Headers, IndexHeader(p, h)
      PROVE  DerivedTypeOK'
  <2>1. h \in Files /\ proc[p].ast[h] \in Contents
      BY <1>2 DEF IndexHeader, StoreHeaderEdges, At, TypeInv, LocalsOK, LocalOK, Busy, Files
  <2>2. OverWithout(h) \in SUBSET (Symbols \X Symbols)
      BY DEF OverWithout, DerivedTypeOK
  <2>3. over' \subseteq Symbols \X Symbols
      BY <1>2, <2>1, <2>2, StoredOverridesType DEF IndexHeader
  <2> QED BY <1>1, <1>2, <2>3 DEF IndexHeader, DispatchWithout, PossibleWithout, DerivedTypeOK
<1>3. ASSUME NEW p \in Procs, IndexEdgesGo(p) \/ IndexBodiesGo(p)
      PROVE  DerivedTypeOK'
    BY <1>1, <1>3 DEF IndexEdgesGo, IndexBodiesGo, OverWithout, DispatchWithout,
                      PossibleWithout, DerivedTypeOK
<1>4. ASSUME NEW p \in Procs, IndexEdges(p)
      PROVE  DerivedTypeOK'
  <2>1. proc[p].cur \in Files /\ proc[p].ast[proc[p].cur] \in Contents
      BY <1>4 DEF IndexEdges, StoreEdges, At, TypeInv, LocalsOK, LocalOK, Busy
  <2>2. over' \subseteq Symbols \X Symbols
      BY <1>4, <2>1, StoredOverridesType DEF IndexEdges, DerivedTypeOK
  <2> QED BY <1>1, <1>4, <2>2 DEF IndexEdges, DerivedTypeOK
<1>5. ASSUME NEW F \in Droppable, Delete(F)
      PROVE  DerivedTypeOK'
  <2>1. multi' \in [Symbols -> Nat]
      BY <1>5 DEF Delete, DerivedTypeOK
  <2> QED BY <1>1, <1>5, <2>1 DEF Delete, DerivedTypeOK
<1>6. CASE IndexRest
    BY <1>1, <1>6 DEF IndexRest, derived, DerivedTypeOK
<1> QED BY <1>2, <1>3, <1>4, <1>5, <1>6 DEF IndexStep

LEMMA BodiesAreCounted ==
    ASSUME IsFiniteSet(Files), IsFiniteSet(Symbols), TypeOK
    PROVE  \A u \in Symbols : MultiDef(u) \in Nat
<1> SUFFICES ASSUME NEW u \in Symbols PROVE Cardinality(BodiesOf(u)) \in Nat
    BY DEF MultiDef
<1>1. IsFiniteSet(Files \X Symbols)
    BY FS_Product
<1>2. BodiesOf(u) \subseteq Files \X Symbols
    BY DEF BodiesOf, TypeOK
<1> QED BY <1>1, <1>2, FS_Subset, FS_CardinalityType

LEMMA ResolveStepKeepsDerivedTypes ==
    ASSUME IsFiniteSet(Files), IsFiniteSet(Symbols), TypeOK, DerivedTypeOK, ResolveStep
    PROVE  DerivedTypeOK'
<1>1. CASE ResolveBegin
    BY <1>1 DEF ResolveBegin, derived, DerivedTypeOK, Resolver
<1>2. CASE SetMultiDef
  <2>1. multi' \in [Symbols -> Nat]
      BY <1>2, BodiesAreCounted DEF SetMultiDef
  <2>2. pass' \in Resolver
      BY <1>2 DEF SetMultiDef, Go, DerivedTypeOK, Resolver
  <2> QED BY <1>2, <2>1, <2>2 DEF SetMultiDef, DerivedTypeOK
<1>3. CASE MaterializePossibleCalls
  <2>1. pass' \in Resolver
      BY <1>3 DEF MaterializePossibleCalls, Go, DerivedTypeOK, Resolver
  <2>2. possible' \subseteq def \X def
      BY <1>3 DEF MaterializePossibleCalls
  <2>3. possible' \subseteq (Files \X Symbols) \X (Files \X Symbols)
      BY <2>2 DEF TypeOK
  <2> QED BY <1>3, <2>1, <2>3 DEF MaterializePossibleCalls, DerivedTypeOK
<1>4. CASE MaterializeDispatchCalls
  <2>1. pass' \in Resolver
      BY <1>4 DEF MaterializeDispatchCalls, DerivedTypeOK, Resolver
  <2> QED BY <1>4, <2>1 DEF MaterializeDispatchCalls, DerivedTypeOK
<1>5. CASE ResolveDies
    BY <1>5 DEF ResolveDies, derived, DerivedTypeOK, Resolver
<1> QED BY <1>1, <1>2, <1>3, <1>4, <1>5 DEF ResolveStep

\* The derived tables relate symbols and bodies of the index and count bodies,
\* in an index of finitely many files and symbols.
THEOREM DerivedTypesCorrect ==
    ASSUME IsFiniteSet(Files), IsFiniteSet(Symbols)
    PROVE  ResolveSpec => []DerivedTypeOK
<1> DEFINE Inv == TypeInv /\ DerivedTypeOK
<1>1. ResolveInit => Inv
    BY TypeInvInit DEF ResolveInit, DerivedTypeOK, Resolver
<1>2. Inv /\ [ResolveNext]_rvars => Inv'
  <2> SUFFICES ASSUME Inv, [ResolveNext]_rvars PROVE Inv'
      OBVIOUS
  <2>1. TypeInv'
      BY ResolveNextIsNext, TypeInvNext
  <2>2. CASE UNCHANGED rvars
      BY <2>1, <2>2 DEF rvars, derived, DerivedTypeOK
  <2>3. CASE IndexStep
      BY <2>1, <2>3, IndexStepKeepsDerivedTypes
  <2>4. CASE ResolveStep
      BY <2>1, <2>4, ResolveStepKeepsDerivedTypes DEF TypeInv
  <2> QED BY <2>2, <2>3, <2>4 DEF ResolveNext
<1>3. Inv => DerivedTypeOK
    OBVIOUS
<1> QED BY <1>1, <1>2, <1>3, PTL DEF ResolveSpec

(***************************************************************************)
(* The recursive CTE: |Symbols| rounds reach the least closed set.          *)
(***************************************************************************)
Over == over \subseteq Symbols \X Symbols

LEMMA Rounds ==
    ASSUME IsFiniteSet(Symbols)
    PROVE  \E f \in [Nat -> [Symbols -> SUBSET Symbols]] :
              /\ f[0] = [b \in Symbols |-> DirectTargets(b)]
              /\ \A n \in Nat : f[n + 1] = MoreTargets(f[n])
              /\ Overriding = f[Cardinality(Symbols)]
<1> DEFINE V == [Symbols -> SUBSET Symbols]
           v == [b \in Symbols |-> DirectTargets(b)]
           G == [g \in V |-> MoreTargets(g)]
           N == Cardinality(Symbols)
<1>1. \A b : DirectTargets(b) \in SUBSET Symbols
    BY DEF DirectTargets
<1>2. v \in V
    BY <1>1
<1>3. \A g \in V : MoreTargets(g) \in V
    BY <1>1 DEF MoreTargets
<1>4. N \in Nat
    BY FS_CardinalityType
<1> HIDE DEF V, v, N
<1>5. G \in [V -> V]
    BY <1>3
<1>6. \A g \in V : G[g] = MoreTargets(g)
    OBVIOUS
<1> HIDE DEF G
<1>7. PICK f \in [Nat -> V] : f[0] = v /\ \A n \in Nat : f[n + 1] = G[f[n]]
    BY ONLY <1>2, <1>5, Iterates
<1>8. \A n \in Nat : f[n] \in V /\ f[n + 1] = MoreTargets(f[n])
    BY <1>6, <1>7
<1> DEFINE grow[n \in 0..Cardinality(Symbols)] ==
              IF n = 0 THEN [b \in Symbols |-> DirectTargets(b)] ELSE MoreTargets(grow[n - 1])
           h == [n \in 0..N |-> f[n]]
<1>9. ASSUME NEW n \in 0..N PROVE h[n] = IF n = 0 THEN v ELSE MoreTargets(h[n - 1])
  <2>1. CASE n = 0
      BY <1>7, <2>1
  <2>2. CASE n # 0
    <3>1. n - 1 \in Nat /\ n - 1 \in 0..N /\ (n - 1) + 1 = n
        BY <1>4, <2>2
    <3>2. f[(n - 1) + 1] = MoreTargets(f[n - 1])
        BY <1>8, <3>1
    <3> QED BY <2>2, <3>1, <3>2
  <2> QED BY <2>1, <2>2
<1>10. h = [n \in 0..Cardinality(Symbols) |->
              IF n = 0 THEN [b \in Symbols |-> DirectTargets(b)] ELSE MoreTargets(h[n - 1])]
  <2>1. h = [n \in 0..N |-> h[n]]
      OBVIOUS
  <2> HIDE DEF h
  <2> QED BY <1>9, <2>1, Zenon DEF N, v
<1>11. grow = [n \in 0..Cardinality(Symbols) |->
              IF n = 0 THEN [b \in Symbols |-> DirectTargets(b)] ELSE MoreTargets(grow[n - 1])]
    BY <1>10, Zenon DEF grow
<1>12. Overriding = grow[Cardinality(Symbols)]
    BY Zenon DEF Overriding, grow
<1> HIDE DEF grow, h
<1> DEFINE D == {n \in Nat : n <= N => grow[n] = f[n]}
<1>13. 0 \in D
    BY <1>4, <1>7, <1>11 DEF N, v
<1>14. ASSUME NEW n \in D \intersect Nat PROVE n + 1 \in D
  <2> SUFFICES ASSUME n + 1 <= N PROVE grow[n + 1] = f[n + 1]
      OBVIOUS
  <2>1. n + 1 \in 0..N /\ n + 1 # 0 /\ (n + 1) - 1 = n /\ grow[n] = f[n]
      BY <1>4
  <2>2. grow[n + 1] = MoreTargets(grow[(n + 1) - 1])
      BY <1>11, <2>1 DEF N
  <2> QED BY <1>8, <2>1, <2>2
<1> HIDE DEF D
<1>15. N \in D
    BY <1>4, <1>13, <1>14, SetInduction
<1>16. Overriding = f[N]
    BY <1>12, <1>15, <1>4 DEF D, N
<1> QED BY <1>7, <1>8, <1>16 DEF V, v, N

\* A call may land on the methods that the CTE finds, and on no others.
LEMMA TargetsAreReached ==
    ASSUME IsFiniteSet(Symbols), Over, NEW b \in Symbols
    PROVE  Targets(b) = Reached(b)
<1> DEFINE N == Cardinality(Symbols)
           direct == DirectTargets(b)
           more(X) == direct \union {m \in Symbols : \E k \in X : <<m, k>> \in over}
<1>1. PICK f \in [Nat -> [Symbols -> SUBSET Symbols]] :
              /\ f[0] = [x \in Symbols |-> DirectTargets(x)]
              /\ \A n \in Nat : f[n + 1] = MoreTargets(f[n])
              /\ Overriding = f[N]
    BY Rounds
<1> DEFINE B(n) == f[n][b]
<1>2. B(0) = direct /\ direct = {m \in Symbols : <<m, b>> \in over}
    BY <1>1 DEF DirectTargets
<1>3. \A n \in Nat : B(n) \in SUBSET Symbols /\ B(n + 1) = more(B(n))
    BY <1>1 DEF MoreTargets
<1>4. Targets(b) = B(N) /\ N \in Nat
    BY <1>1, FS_CardinalityType DEF Targets
<1> HIDE DEF B, N, more
<1>5. ASSUME NEW S \in SUBSET Symbols, ClosedUnder(b, S), NEW n \in Nat
      PROVE  B(n) \subseteq S
  <2> DEFINE T == {i \in Nat : B(i) \subseteq S}
  <2>1. direct \subseteq S
      BY <1>2, <1>5 DEF ClosedUnder
  <2>2. ASSUME NEW i \in T \intersect Nat PROVE i + 1 \in T
    <3>1. \A m \in Symbols, k \in B(i) : <<m, k>> \in over => m \in S
        BY <1>5 DEF ClosedUnder
    <3>2. B(i) \subseteq S /\ i \in Nat
        OBVIOUS
    <3>3. more(B(i)) \subseteq S
        BY <2>1, <3>1 DEF more
    <3>4. B(i + 1) = more(B(i))
        BY <1>3, <3>2
    <3> QED BY <3>2, <3>3, <3>4
  <2>3. 0 \in T
      BY <1>2, <2>1
  <2> HIDE DEF T
  <2>4. n \in T
      BY <2>2, <2>3, SetInduction
  <2> QED BY <2>4 DEF T
<1>6. \A n \in Nat : B(n) \subseteq B(n + 1)
  <2> DEFINE T == {i \in Nat : B(i) \subseteq B(i + 1)}
  <2>1. 0 \in T
    <3>1. B(0 + 1) = more(B(0))
        BY <1>3
    <3>2. direct \subseteq more(B(0))
        BY DEF more
    <3> QED BY <1>2, <3>1, <3>2
  <2>2. ASSUME NEW i \in T \intersect Nat PROVE i + 1 \in T
    <3>1. B(i + 1) = more(B(i)) /\ B((i + 1) + 1) = more(B(i + 1)) /\ B(i) \subseteq B(i + 1)
        BY <1>3
    <3>2. more(B(i)) \subseteq more(B(i + 1))
        BY <3>1 DEF more
    <3> QED BY <3>1, <3>2
  <2> HIDE DEF T
  <2>3. Nat \subseteq T
      BY <2>1, <2>2, SetInduction
  <2> QED BY <2>3 DEF T
<1>7. \A X : X \subseteq Symbols =>
          /\ IsFiniteSet(X) /\ Cardinality(X) \in Nat
          /\ Cardinality(X) <= N
          /\ Cardinality(X) = N => X = Symbols
    BY FS_Subset, FS_CardinalityType DEF N
<1>8. \A n \in Nat : B(n + 1) = B(n) \/ Cardinality(B(n)) >= n
  <2> DEFINE T == {i \in Nat : B(i + 1) = B(i) \/ Cardinality(B(i)) >= i}
  <2>1. 0 \in T
    <3>1. Cardinality(B(0)) \in Nat
      <4>1. B(0) \subseteq Symbols
          BY <1>3
      <4> QED BY <1>7, <4>1
    <3> QED BY <3>1
  <2>2. ASSUME NEW i \in T \intersect Nat PROVE i + 1 \in T
    <3>1. B(i + 1) = more(B(i)) /\ B((i + 1) + 1) = more(B(i + 1))
        BY <1>3
    <3>2. CASE B(i + 1) = B(i)
      <4>1. B((i + 1) + 1) = B(i + 1)
          BY <3>1, <3>2
      <4> QED BY <4>1
    <3>3. CASE B(i + 1) # B(i) /\ Cardinality(B(i)) >= i
      <4>1. B(i) \subseteq B(i + 1) /\ IsFiniteSet(B(i + 1))
            /\ Cardinality(B(i)) \in Nat /\ Cardinality(B(i + 1)) \in Nat
        <5>1. B(i) \subseteq Symbols /\ B(i + 1) \subseteq Symbols /\ B(i) \subseteq B(i + 1)
            BY <1>3, <1>6
        <5> QED BY <1>7, <5>1
      <4>2. Cardinality(B(i)) < Cardinality(B(i + 1))
        <5>1. /\ Cardinality(B(i)) <= Cardinality(B(i + 1))
              /\ Cardinality(B(i)) = Cardinality(B(i + 1)) => B(i) = B(i + 1)
            BY <4>1, FS_Subset
        <5> QED BY <3>3, <4>1, <5>1
      <4>3. Cardinality(B(i + 1)) >= i + 1
          BY <3>3, <4>1, <4>2
      <4> QED BY <4>3
    <3> QED BY <3>2, <3>3
  <2> HIDE DEF T
  <2>3. Nat \subseteq T
      BY <2>1, <2>2, SetInduction
  <2> QED BY <2>3 DEF T
<1>9. B(N + 1) = B(N)
  <2>1. CASE Cardinality(B(N)) >= N
    <3>1. B(N) = Symbols
      <4>1. B(N) \subseteq Symbols
          BY <1>3, <1>4
      <4> QED BY <1>4, <1>7, <2>1, <4>1
    <3>2. B(N + 1) \subseteq Symbols /\ B(N) \subseteq B(N + 1)
        BY <1>3, <1>4, <1>6
    <3> QED BY <3>1, <3>2
  <2> QED BY <1>4, <1>8, <2>1
<1>10. ClosedUnder(b, B(N))
  <2> SUFFICES ASSUME NEW o \in over, o[2] \in B(N) \union {b} PROVE o[1] \in B(N)
      BY DEF ClosedUnder
  <2>1. o[1] \in Symbols /\ o = <<o[1], o[2]>>
      BY DEF Over
  <2>2. o[1] \in more(B(N))
      BY <1>2, <2>1 DEF more
  <2>3. B(N + 1) = more(B(N))
      BY <1>3, <1>4
  <2> QED BY <1>9, <2>2, <2>3
<1>11. Reached(b) \subseteq B(N)
    BY <1>3, <1>4, <1>10 DEF Reached
<1>12. B(N) \subseteq Reached(b)
    BY <1>3, <1>4, <1>5 DEF Reached
<1> QED BY <1>4, <1>11, <1>12

(***************************************************************************)
(* What a pass has done so far, as long as nobody disturbs it.              *)
(***************************************************************************)
Counted == \A u \in Symbols : multi[u] = Cardinality(BodiesOf(u))

FannedOut ==
    \A a \in def, b \in def :
        (<<a, b>> \in possible) <=>
           (<<a[1], a[2], b[2]>> \in defEdge /\ \E d \in def \ {b} : d[2] = b[2])

Dispatched ==
    \A a, m \in Symbols :
        (<<a, m>> \in dispatch) <=> (a # m /\ \E c \in edge : c[1] = a /\ m \in Reached(c[2]))

\* Each commit reads what the ones before it left.
PassInv ==
    /\ pass.done => pass.pc = "idle"
    /\ pass.quiet =>
          /\ pass.pc \in {"possible", "dispatch"} \/ pass.done => Counted
          /\ pass.pc = "dispatch" \/ pass.done => FannedOut
          /\ pass.done => Dispatched

LEMMA SeveralBodies ==
    ASSUME IsFiniteSet(Files), IsFiniteSet(Symbols), TypeOK, NEW b \in def
    PROVE  Cardinality(BodiesOf(b[2])) > 1 <=> \E d \in def \ {b} : d[2] = b[2]
<1> DEFINE S == BodiesOf(b[2])
<1>1. S \subseteq Files \X Symbols /\ b \in S
    BY DEF BodiesOf, TypeOK
<1>2. IsFiniteSet(S)
  <2>1. IsFiniteSet(Files \X Symbols)
      BY FS_Product
  <2> HIDE DEF S
  <2> QED BY <1>1, <2>1, FS_Subset
<1>3. Cardinality(S \ {b}) = Cardinality(S) - 1 /\ IsFiniteSet(S \ {b}) /\ Cardinality(S) \in Nat
      /\ Cardinality(S \ {b}) \in Nat
  <2> HIDE DEF S
  <2> QED BY <1>1, <1>2, FS_RemoveElement, FS_CardinalityType
<1>4. Cardinality(S \ {b}) = 0 <=> S \ {b} = {}
  <2> HIDE DEF S
  <2> QED BY <1>3, FS_EmptySet
<1>5. S \ {b} # {} <=> \E d \in def \ {b} : d[2] = b[2]
    BY DEF BodiesOf
<1> HIDE DEF S
<1>6. Cardinality(S) > 1 <=> S \ {b} # {}
    BY <1>3, <1>4
<1> QED BY <1>5, <1>6 DEF S

LEMMA IndexStepKeepsPass ==
    ASSUME pass \in Resolver, PassInv, IndexStep
    PROVE  PassInv'
<1> DEFINE still == pass.quiet /\ UNCHANGED <<sym, edge, def, defEdge, derived>>
<1>1. pass' = [pass EXCEPT !.quiet = still]
    BY Zenon DEF IndexStep, Disturbs
<1>2. pass' = [pc |-> pass.pc, done |-> pass.done, quiet |-> still]
  <2> HIDE DEF still
  <2> QED BY <1>1 DEF Resolver
<1>3. pass'.pc = pass.pc /\ pass'.done = pass.done /\ (pass'.quiet <=> still)
  <2> HIDE DEF still
  <2> QED BY <1>2
<1>4. CASE pass'.quiet
  <2>1. still
      BY <1>3, <1>4
  <2>2. UNCHANGED <<edge, def, defEdge, over, dispatch, multi, possible>> /\ pass.quiet
      BY <2>1 DEF derived
  <2>3. Counted' <=> Counted
      BY <2>2 DEF Counted, BodiesOf
  <2>4. FannedOut' <=> FannedOut
      BY <2>2 DEF FannedOut
  <2>5. Dispatched' <=> Dispatched
      BY <2>2 DEF Dispatched, Reached, ClosedUnder
  <2> QED BY <1>3, <2>2, <2>3, <2>4, <2>5 DEF PassInv
<1>5. CASE ~pass'.quiet
    BY <1>3, <1>5 DEF PassInv
<1> QED BY <1>4, <1>5

LEMMA ResolveStepKeepsPass ==
    ASSUME IsFiniteSet(Files), IsFiniteSet(Symbols), TypeOK, DerivedTypeOK, PassInv, ResolveStep
    PROVE  PassInv'
<1>1. UNCHANGED <<sym, edge, def, defEdge>>
    BY ResolveStepLeavesVars DEF vars, tables
<1>2. pass \in Resolver
    BY DEF DerivedTypeOK
<1>3. CASE ResolveBegin
    BY <1>3 DEF ResolveBegin, PassInv
<1>4. CASE SetMultiDef
  <2>1. pass.pc = "multi" /\ pass'.pc = "possible" /\ pass'.done = pass.done
      BY <1>2, <1>4 DEF SetMultiDef, Go, Resolver
  <2>2. Counted'
      BY <1>1, <1>4 DEF SetMultiDef, MultiDef, Counted, BodiesOf
  <2> QED BY <2>1, <2>2 DEF PassInv
<1>5. CASE MaterializePossibleCalls
  <2>1. /\ pass.pc = "possible" /\ pass'.pc = "dispatch" /\ pass'.done = pass.done
        /\ pass'.quiet = pass.quiet /\ multi' = multi
      BY <1>2, <1>5 DEF MaterializePossibleCalls, Go, Resolver
  <2>2. Counted' <=> Counted
      BY <1>1, <2>1 DEF Counted, BodiesOf
  <2>3. ASSUME Counted PROVE FannedOut'
    <3> SUFFICES ASSUME NEW a \in def, NEW b \in def
                 PROVE  (<<a, b>> \in possible') <=>
                           (<<a[1], a[2], b[2]>> \in defEdge /\ \E d \in def \ {b} : d[2] = b[2])
        BY <1>1 DEF FannedOut
    <3>1. <<a, b>> \in possible' <=> <<a[1], a[2], b[2]>> \in defEdge /\ multi[b[2]] > 1
        BY <1>5 DEF MaterializePossibleCalls
    <3>2. multi[b[2]] = Cardinality(BodiesOf(b[2]))
        BY <2>3 DEF Counted, TypeOK
    <3> QED BY <3>1, <3>2, SeveralBodies
  <2> QED BY <2>1, <2>2, <2>3 DEF PassInv
<1>6. CASE MaterializeDispatchCalls
  <2>1. /\ pass.pc = "dispatch" /\ pass'.pc = "idle" /\ pass'.quiet = pass.quiet
        /\ UNCHANGED <<over, multi, possible>>
      BY <1>2, <1>6 DEF MaterializeDispatchCalls, Resolver
  <2>2. Counted' <=> Counted
      BY <1>1, <2>1 DEF Counted, BodiesOf
  <2>3. FannedOut' <=> FannedOut
      BY <1>1, <2>1 DEF FannedOut
  <2>4. Dispatched'
    <3> SUFFICES ASSUME NEW a \in Symbols, NEW m \in Symbols
                 PROVE  (<<a, m>> \in dispatch') <=>
                           (a # m /\ \E c \in edge' : c[1] = a /\ m \in Reached(c[2])')
        BY DEF Dispatched
    <3>1. <<a, m>> \in dispatch' <=> a # m /\ \E c \in edge : c[1] = a /\ m \in Targets(c[2])
        BY <1>6 DEF MaterializeDispatchCalls
    <3>2. \A c \in edge : c[2] \in Symbols
        BY DEF TypeOK
    <3>3. \A c \in edge : Targets(c[2]) = Reached(c[2])
        BY <3>2, TargetsAreReached DEF Over, DerivedTypeOK
    <3>4. \A x : Reached(x)' = Reached(x)
        BY <2>1 DEF Reached, ClosedUnder
    <3> QED BY <1>1, <3>1, <3>3, <3>4
  <2> QED BY <2>1, <2>2, <2>3, <2>4 DEF PassInv
<1>7. CASE ResolveDies
  <2>1. /\ pass.pc # "idle" /\ pass'.done = pass.done /\ pass'.pc = "idle"
        /\ UNCHANGED <<over, dispatch, multi, possible>>
      BY <1>2, <1>7 DEF ResolveDies, derived, Resolver
  <2> QED BY <2>1 DEF PassInv
<1> QED BY <1>3, <1>4, <1>5, <1>6, <1>7 DEF ResolveStep

\* A pass that nobody disturbed leaves exactly what the stored tables imply, however deep
\* the overriding and whatever earlier passes, cut short or disturbed, left behind
\* (Storage.resolve_pass and the statements it runs).
THEOREM ResolvedStaysExact ==
    ASSUME IsFiniteSet(Files), IsFiniteSet(Symbols)
    PROVE  ResolveSpec => []ResolvedIsExact
<1> DEFINE Inv == TypeInv /\ DerivedTypeOK /\ PassInv
<1>1. ResolveInit => Inv
    BY TypeInvInit DEF ResolveInit, DerivedTypeOK, Resolver, PassInv
<1>2. Inv /\ [ResolveNext]_rvars => Inv'
  <2> SUFFICES ASSUME Inv, [ResolveNext]_rvars PROVE Inv'
      OBVIOUS
  <2>1. TypeInv'
      BY ResolveNextIsNext, TypeInvNext
  <2>2. CASE UNCHANGED rvars
    <3>1. UNCHANGED <<edge, def, defEdge, over, dispatch, multi, possible, pass>>
        BY <2>2 DEF rvars, vars, tables, derived
    <3>2. DerivedTypeOK'
        BY <3>1 DEF DerivedTypeOK
    <3>3. PassInv' <=> PassInv
        BY <3>1 DEF PassInv, Counted, BodiesOf, FannedOut, Dispatched, Reached, ClosedUnder
    <3> QED BY <2>1, <3>2, <3>3
  <2>3. CASE IndexStep
      BY <2>1, <2>3, IndexStepKeepsDerivedTypes, IndexStepKeepsPass DEF DerivedTypeOK
  <2>4. CASE ResolveStep
      BY <2>1, <2>4, ResolveStepKeepsDerivedTypes, ResolveStepKeepsPass DEF TypeInv
  <2> QED BY <2>2, <2>3, <2>4 DEF ResolveNext
<1>3. Inv => ResolvedIsExact
    BY DEF PassInv, Counted, FannedOut, Dispatched, ResolvedIsExact
<1> QED BY <1>1, <1>2, <1>3, PTL DEF ResolveSpec
=============================================================================
