--------------------------- MODULE DataInduction ----------------------------
(***************************************************************************)
(* Induction over the natural numbers without an operator parameter: the   *)
(* induction hypothesis is a set.  With it, that a function on Nat defined *)
(* by recursion exists, and what a set that grows until it is closed is.   *)
(***************************************************************************)
EXTENDS Integers, FiniteSets, TLAPS, WellFoundedInduction, FiniteSetTheorems

LEMMA LeastNumber ==
    ASSUME NEW T \in SUBSET Nat, T # {}
    PROVE  \E x \in T : \A y \in T : x <= y
<1>1. PICK x \in T : \A y \in T : <<y, x>> \notin OpToRel(<, Nat)
    BY WFMin, NatLessThanWellFounded
<1>2. ASSUME NEW y \in T PROVE x <= y
  <2>1. <<y, x>> \in Nat \X Nat
      OBVIOUS
  <2>2. ~(y < x)
      BY <1>1, <2>1 DEF OpToRel
  <2> QED BY <2>2, x \in Nat, y \in Nat
<1> QED BY <1>2

LEMMA SetInduction ==
    ASSUME NEW S, 0 \in S, \A n \in S \intersect Nat : n + 1 \in S
    PROVE  Nat \subseteq S
<1> DEFINE T == Nat \ S
<1> SUFFICES ASSUME T # {} PROVE FALSE
    OBVIOUS
<1>1. PICK x \in T : \A y \in T : x <= y
    BY LeastNumber
<1>2. x # 0 /\ x - 1 \in Nat /\ x \in Nat
    BY x \in Nat
<1>3. x - 1 \notin T
    BY <1>1, <1>2
<1>4. x - 1 \in S \intersect Nat
    BY <1>2, <1>3
<1>5. (x - 1) + 1 = x
    BY <1>2
<1> QED BY <1>4, <1>5

\* Repeating G from v on is a function of the number of repetitions.
LEMMA Iterates ==
    ASSUME NEW V, NEW v \in V, NEW G \in [V -> V]
    PROVE  \E f \in [Nat -> V] : f[0] = v /\ \A n \in Nat : f[n + 1] = G[f[n]]
<1> DEFINE Prefix(n, h) == /\ h \in [0..n -> V] /\ h[0] = v
                           /\ \A k \in 0..n : k + 1 \in 0..n => h[k + 1] = G[h[k]]
<1>1. \A n \in Nat : \E h : Prefix(n, h)
  <2> DEFINE S == {n \in Nat : \E h : Prefix(n, h)}
  <2>1. 0 \in S
    <3>1. Prefix(0, [k \in 0..0 |-> v])
        OBVIOUS
    <3> QED BY <3>1
  <2>2. ASSUME NEW n \in S \intersect Nat PROVE n + 1 \in S
    <3>1. PICK h : Prefix(n, h)
        OBVIOUS
    <3> DEFINE i == [k \in 0..(n + 1) |-> IF k = n + 1 THEN G[h[n]] ELSE h[k]]
    <3>2. i \in [0..(n + 1) -> V] /\ i[0] = v
        BY <3>1
    <3>3. ASSUME NEW k \in 0..(n + 1), k + 1 \in 0..(n + 1)
          PROVE  i[k + 1] = G[i[k]]
      <4>1. k \in 0..n /\ i[k] = h[k]
          BY <3>3
      <4>2. CASE k = n
          BY <4>1, <4>2
      <4>3. CASE k # n
        <5>1. k + 1 \in 0..n /\ k + 1 # n + 1
            BY <4>1, <4>3
        <5> QED BY <3>1, <4>1, <5>1
      <4> QED BY <4>2, <4>3
    <3>4. Prefix(n + 1, i)
        BY <3>2, <3>3
    <3> QED BY <3>4
  <2> HIDE DEF S
  <2>3. Nat \subseteq S
      BY <2>1, <2>2, SetInduction
  <2> QED BY <2>3 DEF S
<1>2. ASSUME NEW m \in Nat, NEW n \in Nat, NEW h, NEW i, Prefix(m, h), Prefix(n, i)
      PROVE  \A k \in Nat : k <= m /\ k <= n => h[k] = i[k]
  <2> DEFINE S == {k \in Nat : k <= m /\ k <= n => h[k] = i[k]}
  <2>1. 0 \in S
      BY <1>2
  <2>2. ASSUME NEW k \in S \intersect Nat PROVE k + 1 \in S
    <3> SUFFICES ASSUME k + 1 <= m, k + 1 <= n PROVE h[k + 1] = i[k + 1]
        OBVIOUS
    <3>1. h[k] = i[k]
        OBVIOUS
    <3>2. k \in 0..m /\ k + 1 \in 0..m /\ k \in 0..n /\ k + 1 \in 0..n
        OBVIOUS
    <3> QED BY <1>2, <3>1, <3>2
  <2> HIDE DEF S
  <2>3. Nat \subseteq S
      BY <2>1, <2>2, SetInduction
  <2> QED BY <2>3 DEF S
<1> DEFINE H(n) == CHOOSE h : Prefix(n, h)
           f == [n \in Nat |-> H(n)[n]]
<1>3. \A n \in Nat : Prefix(n, H(n))
  <2> HIDE DEF Prefix
  <2> QED BY <1>1
<1> HIDE DEF H
<1>4. f \in [Nat -> V] /\ f[0] = v
    BY <1>3
<1>5. ASSUME NEW n \in Nat PROVE f[n + 1] = G[f[n]]
  <2>1. Prefix(n, H(n)) /\ Prefix(n + 1, H(n + 1))
      BY <1>3
  <2>2. H(n)[n] = H(n + 1)[n]
    <3> HIDE DEF Prefix
    <3> QED BY <1>2, <2>1
  <2>3. n \in 0..(n + 1) /\ n + 1 \in 0..(n + 1)
      OBVIOUS
  <2> QED BY <2>1, <2>2, <2>3
<1> QED BY <1>4, <1>5

\* The same when what is repeated depends on how often it was.
LEMMA Accumulates ==
    ASSUME NEW V, NEW v, v \in V, NEW P, P = Nat \X V, NEW G, G \in [P -> V]
    PROVE  \E f \in [Nat -> V] : f[0] = v /\ \A n \in Nat : f[n + 1] = G[<<n, f[n]>>]
<1> DEFINE W == Nat \X V
           w == <<0, v>>
           H == [p \in W |-> <<p[1] + 1, G[<<p[1], p[2]>>]>>]
<1>1. w \in W /\ H \in [W -> W]
    OBVIOUS
<1>2. ASSUME NEW p \in W PROVE H[p] = <<p[1] + 1, G[<<p[1], p[2]>>]>> /\ p = <<p[1], p[2]>> /\ p[1] \in Nat /\ p[2] \in V
    OBVIOUS
<1> HIDE DEF w, H, W
<1>3. PICK g \in [Nat -> W] : g[0] = w /\ \A n \in Nat : g[n + 1] = H[g[n]]
    BY ONLY <1>1, Iterates
<1> DEFINE D == {n \in Nat : g[n][1] = n}
<1>4. 0 \in D
    BY <1>3 DEF w
<1>5. ASSUME NEW n \in D \intersect Nat PROVE n + 1 \in D
  <2>1. g[n + 1] = H[g[n]] /\ g[n] \in W /\ g[n][1] = n
      BY <1>3
  <2>2. g[n + 1] = <<n + 1, G[<<n, g[n][2]>>]>>
      BY <1>2, <2>1
  <2> QED BY <2>2
<1> HIDE DEF D
<1>6. Nat \subseteq D
    BY <1>4, <1>5, SetInduction
<1> DEFINE f == [n \in Nat |-> g[n][2]]
<1>7. f \in [Nat -> V]
    BY <1>2, <1>3
<1>8. f[0] = v
    BY <1>3 DEF w
<1>9. ASSUME NEW n \in Nat PROVE f[n + 1] = G[<<n, f[n]>>]
  <2>1. g[n + 1] = H[g[n]] /\ g[n] \in W /\ g[n][1] = n
      BY <1>3, <1>6 DEF D
  <2>3. g[n + 1] = <<n + 1, G[<<n, g[n][2]>>]>>
      BY <1>2, <2>1
  <2> QED BY <2>3
<1> QED BY <1>7, <1>8, <1>9

-----------------------------------------------------------------------------
(* Growing a set until nothing is added. *)

Grown(K, B) == B \union UNION {K[s] : s \in B}

\* What every closed set that holds B holds.
Least(S, K, B) ==
    {x \in S : \A C \in SUBSET S : B \subseteq C /\ (\A s \in C : K[s] \subseteq C) => x \in C}

LEMMA LeastOfClosed ==
    ASSUME NEW S, NEW K \in [S -> SUBSET S], NEW B \in SUBSET S, Grown(K, B) = B
    PROVE  Least(S, K, B) = B
BY DEF Grown, Least

LEMMA LeastOfGrown ==
    ASSUME NEW S, NEW K \in [S -> SUBSET S], NEW B \in SUBSET S
    PROVE  Grown(K, B) \in SUBSET S /\ Least(S, K, Grown(K, B)) = Least(S, K, B)
<1>1. Grown(K, B) \in SUBSET S
    BY DEF Grown
<1>2. ASSUME NEW C \in SUBSET S, \A s \in C : K[s] \subseteq C
      PROVE  B \subseteq C <=> Grown(K, B) \subseteq C
    BY <1>2 DEF Grown
<1> QED BY <1>1, <1>2 DEF Least

\* The recursion has a solution ...
LEMMA LeastGrows ==
    ASSUME NEW S, NEW K \in [S -> SUBSET S], NEW B \in SUBSET S
    PROVE  /\ Least(S, K, B) \in SUBSET S
           /\ Least(S, K, B) = IF Grown(K, B) = B THEN B ELSE Least(S, K, Grown(K, B))
<1>1. Least(S, K, B) \in SUBSET S
    BY DEF Least
<1> QED BY <1>1, LeastOfClosed, LeastOfGrown

\* ... and over a finite set one only, the least closed set.
LEMMA GrowingIsLeast ==
    ASSUME NEW S, IsFiniteSet(S), NEW K \in [S -> SUBSET S], NEW g,
           \A B \in SUBSET S : g[B] = IF Grown(K, B) = B THEN B ELSE g[Grown(K, B)],
           NEW A \in SUBSET S
    PROVE  g[A] = Least(S, K, A)
<1> DEFINE T == {n \in Nat : \A B \in SUBSET S :
                                Cardinality(S \ B) <= n => g[B] = Least(S, K, B)}
<1>0. \A B \in SUBSET S : IsFiniteSet(S \ B) /\ Cardinality(S \ B) \in Nat
    BY FS_Subset, FS_CardinalityType
<1>1. ASSUME NEW B \in SUBSET S, Grown(K, B) # B
      PROVE  Cardinality(S \ Grown(K, B)) < Cardinality(S \ B)
  <2>1. B \subseteq Grown(K, B) /\ Grown(K, B) \in SUBSET S
      BY DEF Grown
  <2>2. S \ Grown(K, B) \subseteq S \ B /\ S \ Grown(K, B) # S \ B
      BY <1>1, <2>1
  <2> DEFINE X == S \ Grown(K, B)
             Y == S \ B
  <2>3. IsFiniteSet(Y) /\ X \subseteq Y /\ X # Y
      BY <1>0, <2>2
  <2> HIDE DEF X, Y
  <2>4. Cardinality(X) < Cardinality(Y)
      BY <2>3, FS_Subset, FS_CardinalityType
  <2> QED BY <2>4 DEF X, Y
<1>2. 0 \in T
  <2> SUFFICES ASSUME NEW B \in SUBSET S, Cardinality(S \ B) <= 0 PROVE g[B] = Least(S, K, B)
      OBVIOUS
  <2>1. CASE Grown(K, B) = B
      BY <2>1, LeastOfClosed
  <2>2. CASE Grown(K, B) # B
    <3>1. Cardinality(S \ Grown(K, B)) < Cardinality(S \ B) /\ Grown(K, B) \in SUBSET S
        BY <1>1, <2>2, LeastOfGrown
    <3> QED BY <1>0, <3>1
  <2> QED BY <2>1, <2>2
<1>3. ASSUME NEW n \in T \intersect Nat PROVE n + 1 \in T
  <2> SUFFICES ASSUME NEW B \in SUBSET S, Cardinality(S \ B) <= n + 1
               PROVE  g[B] = Least(S, K, B)
      OBVIOUS
  <2>1. CASE Grown(K, B) = B
      BY <2>1, LeastOfClosed
  <2>2. CASE Grown(K, B) # B
    <3> DEFINE D == Grown(K, B)
    <3>1. Cardinality(S \ D) < Cardinality(S \ B) /\ D \in SUBSET S
        BY <1>1, <2>2, LeastOfGrown
    <3>2. Cardinality(S \ D) <= n
      <4>1. /\ Cardinality(S \ D) \in Nat /\ Cardinality(S \ B) \in Nat
            /\ Cardinality(S \ B) <= n + 1 /\ n \in Nat
          BY <1>0, <3>1
      <4> QED BY <3>1, <4>1
    <3>3. g[D] = Least(S, K, D)
        BY <3>1, <3>2
    <3> QED BY <2>2, <3>3, LeastOfGrown
  <2> QED BY <2>1, <2>2
<1> HIDE DEF T
<1>4. Nat \subseteq T
    BY <1>2, <1>3, SetInduction
<1>5. \A n \in Nat : \A B \in SUBSET S : Cardinality(S \ B) <= n => g[B] = Least(S, K, B)
    BY <1>4, Zenon DEF T
<1>6. Cardinality(S \ A) \in Nat /\ Cardinality(S \ A) <= Cardinality(S \ A)
  <2>1. Cardinality(S \ A) \in Nat
      BY <1>0, Zenon
  <2> DEFINE n == Cardinality(S \ A)
  <2> HIDE DEF n
  <2>2. n \in Nat => n <= n
      OBVIOUS
  <2> QED BY <2>1, <2>2 DEF n
<1> QED BY <1>5, <1>6, Zenon

-----------------------------------------------------------------------------
(* Folds over a finite set.                                                  *)

\* A fold over S of values in V: R leaves one element out, G adds it.
FoldsWith(S, V, v, R, G) ==
    /\ IsFiniteSet(S) /\ v \in V
    /\ R \in [SUBSET S -> SUBSET S]
    /\ \A s \in SUBSET S : s # {} => \E x \in s : R[s] = s \ {x}
    /\ G \in [(SUBSET S) \X V -> V]

IsFold(it, S, v, R, G) == \A s \in SUBSET S : it[s] = IF s = {} THEN v ELSE G[<<s, it[R[s]]>>]

\* The function that a fold over sets is.
LEMMA FoldExists ==
    ASSUME NEW S, NEW V, NEW v, NEW R, NEW G, FoldsWith(S, V, v, R, G)
    PROVE  \E it \in [SUBSET S -> V] : IsFold(it, S, v, R, G)
<1> DEFINE W == [SUBSET S -> V]
           w0 == [s \in SUBSET S |-> v]
           H == [w \in W |-> [s \in SUBSET S |-> IF s = {} THEN v ELSE G[<<s, w[R[s]]>>]]]
           N == Cardinality(S)
<1>0. /\ IsFiniteSet(S) /\ v \in V
      /\ R \in [SUBSET S -> SUBSET S]
      /\ \A s \in SUBSET S : s # {} => \E x \in s : R[s] = s \ {x}
      /\ G \in [(SUBSET S) \X V -> V]
    BY DEF FoldsWith
<1>1. w0 \in W
    BY <1>0
<1>2. ASSUME NEW w \in W, NEW s \in SUBSET S PROVE G[<<s, w[R[s]]>>] \in V
  <2>1. w[R[s]] \in V
      BY <1>0
  <2> QED BY <1>0, <2>1
<1>3. H \in [W -> W]
    BY <1>0, <1>2
<1>4. \A w \in W, s \in SUBSET S : H[w][s] = IF s = {} THEN v ELSE G[<<s, w[R[s]]>>]
    OBVIOUS
<1> HIDE DEF W, H, w0
<1>5. PICK f \in [Nat -> W] : f[0] = w0 /\ \A n \in Nat : f[n + 1] = H[f[n]]
    BY ONLY <1>1, <1>3, Iterates
<1>6. \A n \in Nat, s \in SUBSET S : f[n + 1][s] = IF s = {} THEN v ELSE G[<<s, f[n][R[s]]>>]
    BY <1>4, <1>5
<1>7. \A s \in SUBSET S : Cardinality(s) \in Nat /\ Cardinality(s) <= N
                          /\ (Cardinality(s) = 0 => s = {})
                          /\ (s # {} => Cardinality(R[s]) = Cardinality(s) - 1)
  <2> TAKE s \in SUBSET S
  <2>1. IsFiniteSet(s) /\ Cardinality(s) <= N
      BY <1>0, FS_Subset
  <2>2. Cardinality(s) \in Nat /\ (Cardinality(s) = 0 => s = {})
      BY <2>1, FS_CardinalityType, FS_EmptySet
  <2>3. ASSUME s # {} PROVE Cardinality(R[s]) = Cardinality(s) - 1
    <3>1. PICK x \in s : R[s] = s \ {x}
        BY <1>0, <2>3
    <3> QED BY <2>1, <3>1, FS_RemoveElement
  <2> QED BY <2>1, <2>2, <2>3
<1>8. N \in Nat
    BY <1>0, FS_CardinalityType
<1> HIDE DEF N
<1> DEFINE T == {n \in Nat : \A s \in SUBSET S : Cardinality(s) <= n => f[n + 1][s] = f[n][s]}
<1>9. 0 \in T
  <2> SUFFICES ASSUME NEW s \in SUBSET S, Cardinality(s) <= 0 PROVE f[0 + 1][s] = f[0][s]
      OBVIOUS
  <2>1. s = {}
      BY <1>7
  <2>2. f[0 + 1][s] = v
      BY <1>6, <2>1
  <2> QED BY <1>5, <2>2 DEF w0
<1>10. ASSUME NEW n \in T \intersect Nat PROVE n + 1 \in T
  <2> SUFFICES ASSUME NEW s \in SUBSET S, Cardinality(s) <= n + 1
               PROVE  f[(n + 1) + 1][s] = f[n + 1][s]
      OBVIOUS
  <2>1. f[(n + 1) + 1][s] = IF s = {} THEN v ELSE G[<<s, f[n + 1][R[s]]>>]
      BY <1>6
  <2>2. f[n + 1][s] = IF s = {} THEN v ELSE G[<<s, f[n][R[s]]>>]
      BY <1>6
  <2>3. s # {} => f[n + 1][R[s]] = f[n][R[s]]
    <3> SUFFICES ASSUME s # {} PROVE f[n + 1][R[s]] = f[n][R[s]]
        OBVIOUS
    <3>1. R[s] \in SUBSET S /\ Cardinality(R[s]) <= n
        BY <1>0, <1>7
    <3> QED BY <3>1
  <2> QED BY <2>1, <2>2, <2>3
<1> HIDE DEF T
<1>11. N \in T
    BY <1>8, <1>9, <1>10, SetInduction
<1>12. \A s \in SUBSET S : f[N + 1][s] = f[N][s]
    BY <1>7, <1>11 DEF T
<1>13. f[N] \in W
    BY <1>5, <1>8
<1> DEFINE it == f[N]
<1>14. \A s \in SUBSET S : it[s] = IF s = {} THEN v ELSE G[<<s, it[R[s]]>>]
    BY <1>6, <1>8, <1>12
<1>15. it \in [SUBSET S -> V]
    BY <1>13 DEF W
<1>16. IsFold(it, S, v, R, G)
    BY <1>14 DEF IsFold
<1> HIDE DEF it
<1> QED BY <1>15, <1>16

\* A sum of the sizes of disjoint sets is the size of their union, in whatever order the
\* sum is taken.
SumsSizes(S, it, c, g) ==
    /\ IsFiniteSet(S) /\ it[{}] = 0
    /\ \A s \in SUBSET S : s # {} => \E x \in s : it[s] = c[x] + it[s \ {x}]
    /\ \A x \in S : IsFiniteSet(g[x]) /\ c[x] = Cardinality(g[x])
    /\ \A x, y \in S : x # y => g[x] \intersect g[y] = {}

LEMMA SumOfSizes ==
    ASSUME NEW S, NEW it, NEW c, NEW g, SumsSizes(S, it, c, g)
    PROVE  /\ IsFiniteSet(UNION {g[x] : x \in S})
           /\ it[S] = Cardinality(UNION {g[x] : x \in S})
<1> DEFINE U(s) == UNION {g[x] : x \in s}
           T == {n \in Nat : \A s \in SUBSET S :
                    Cardinality(s) = n => IsFiniteSet(U(s)) /\ it[s] = Cardinality(U(s))}
<1>0. /\ IsFiniteSet(S) /\ it[{}] = 0
      /\ \A s \in SUBSET S : s # {} => \E x \in s : it[s] = c[x] + it[s \ {x}]
      /\ \A x \in S : IsFiniteSet(g[x]) /\ c[x] = Cardinality(g[x])
      /\ \A x, y \in S : x # y => g[x] \intersect g[y] = {}
    BY DEF SumsSizes
<1>1. \A s \in SUBSET S : IsFiniteSet(s) /\ Cardinality(s) \in Nat
    BY <1>0, FS_Subset, FS_CardinalityType
<1>2. 0 \in T
  <2> SUFFICES ASSUME NEW s \in SUBSET S, Cardinality(s) = 0
               PROVE  IsFiniteSet(U(s)) /\ it[s] = Cardinality(U(s))
      OBVIOUS
  <2>1. s = {}
      BY <1>1, FS_EmptySet
  <2>2. U(s) = {}
      BY <2>1
  <2> QED BY <1>0, <2>1, <2>2, FS_EmptySet
<1>3. ASSUME NEW n \in T \intersect Nat PROVE n + 1 \in T
  <2> SUFFICES ASSUME NEW s \in SUBSET S, Cardinality(s) = n + 1
               PROVE  IsFiniteSet(U(s)) /\ it[s] = Cardinality(U(s))
      OBVIOUS
  <2>1. s # {}
    <3>1. n + 1 # 0
        BY <1>3
    <3> QED BY <3>1, FS_EmptySet
  <2>2. PICK x \in s : it[s] = c[x] + it[s \ {x}]
      BY <1>0, <2>1
  <2> DEFINE r == s \ {x}
  <2>3. r \in SUBSET S /\ Cardinality(r) = n
    <3>1. IsFiniteSet(s) /\ x \in s
        BY <1>1
    <3>2. Cardinality(r) = Cardinality(s) - 1
        BY <3>1, FS_RemoveElement
    <3> QED BY <1>3, <3>2
  <2>4. IsFiniteSet(U(r)) /\ it[r] = Cardinality(U(r))
      BY <2>3
  <2>5. U(s) = U(r) \union g[x]
    <3>1. s = r \union {x}
        OBVIOUS
    <3> HIDE DEF r
    <3> QED BY <3>1
  <2>6. U(r) \intersect g[x] = {}
      BY <1>0
  <2>7. IsFiniteSet(g[x]) /\ c[x] = Cardinality(g[x])
      BY <1>0
  <2> HIDE DEF U
  <2>8. IsFiniteSet(U(r) \union g[x])
        /\ Cardinality(U(r) \union g[x]) = Cardinality(U(r)) + Cardinality(g[x])
    <3> DEFINE A == U(r)
               B == g[x]
    <3>1. IsFiniteSet(A) /\ IsFiniteSet(B) /\ A \intersect B = {}
        BY <2>4, <2>6, <2>7
    <3> HIDE DEF A, B
    <3>2. Cardinality(A) \in Nat /\ Cardinality(B) \in Nat
        BY <3>1, FS_CardinalityType
    <3>3. IsFiniteSet(A \union B)
          /\ Cardinality(A \union B) = Cardinality(A) + Cardinality(B) - Cardinality(A \intersect B)
        BY <3>1, FS_Union
    <3>4. Cardinality(A \intersect B) = 0
        BY <3>1, FS_EmptySet
    <3>5. IsFiniteSet(A \union B) /\ Cardinality(A \union B) = Cardinality(A) + Cardinality(B)
        BY <3>2, <3>3, <3>4
    <3> QED BY <3>5 DEF A, B
  <2>9. Cardinality(U(r)) \in Nat /\ Cardinality(g[x]) \in Nat
      BY <2>4, <2>7, FS_CardinalityType
  <2>10. it[s] = c[x] + it[r]
      BY <2>2
  <2> HIDE DEF r
  <2> QED BY <2>4, <2>5, <2>7, <2>8, <2>9, <2>10
<1> HIDE DEF T, U
<1>4. Cardinality(S) \in T
    BY <1>1, <1>2, <1>3, SetInduction
<1>5. IsFiniteSet(U(S)) /\ it[S] = Cardinality(U(S))
    BY <1>4 DEF T
<1> QED BY <1>5 DEF U

LEMMA MapOfFinite ==
    ASSUME NEW S, IsFiniteSet(S), NEW f
    PROVE  IsFiniteSet({f[x] : x \in S})
<1> DEFINE T == {f[x] : x \in S}
           g == [x \in S |-> f[x]]
<1>1. g \in Surjection(S, T)
    BY DEF Surjection
<1> QED BY <1>1, FS_Surjection

-----------------------------------------------------------------------------
(* Recursion in tail position. *)

\* What a recursion v |-> IF v \in Z THEN out[v] ELSE (the same at G[v]) relates to v.
LastOf(V, W, Z, out, G) ==
    {x \in V \X W : \A C \in SUBSET (V \X W) :
        (\A v \in V, w \in W : (v \in Z /\ w = out[v]) \/ (v \notin Z /\ <<G[v], w>> \in C)
                                  => <<v, w>> \in C) => x \in C}

EndsWith(V, W, Z, out, G) == Z \in SUBSET V /\ out \in [V -> W] /\ G \in [V -> V]

\* A recursion in tail position has a solution, whether it ends or not.
LEMMA TailRecursionExists ==
    ASSUME NEW V, NEW W, NEW Z, NEW out, NEW G, EndsWith(V, W, Z, out, G)
    PROVE  \E h \in [V -> W] : \A v \in V : h[v] = IF v \in Z THEN out[v] ELSE h[G[v]]
<1> DEFINE R == LastOf(V, W, Z, out, G)
           Step(C, v, w) == (v \in Z /\ w = out[v]) \/ (v \notin Z /\ <<G[v], w>> \in C)
           Closed_(C) == \A v \in V, w \in W : Step(C, v, w) => <<v, w>> \in C
           Ends(v) == {w \in W : <<v, w>> \in R}
           one == [S \in SUBSET W |-> CHOOSE w : w \in W /\ (S # {} => w \in S)]
           h == [v \in V |-> one[Ends(v)]]
<1>0. out \in [V -> W] /\ G \in [V -> V]
    BY DEF EndsWith
<1>1. R \in SUBSET (V \X W) /\ \A C \in SUBSET (V \X W) : Closed_(C) => R \subseteq C
    BY DEF LastOf
<1>2. Closed_(R)
    BY DEF LastOf
<1>3. ASSUME NEW v \in V, NEW w \in W PROVE <<v, w>> \in R <=> Step(R, v, w)
  <2> DEFINE C == {x \in R : Step(R, x[1], x[2])}
  <2>1. Closed_(C)
      BY <1>2
  <2>2. R \subseteq C
      BY <1>1, <2>1
  <2> QED BY <1>2, <2>2
<1> HIDE DEF R
<1>4. ASSUME NEW v \in V PROVE h[v] = IF v \in Z THEN out[v] ELSE h[G[v]]
  <2>1. CASE v \in Z
    <3>1. out[v] \in W /\ \A w \in W : <<v, w>> \in R <=> w = out[v]
        BY <1>0, <1>3, <2>1
    <3>2. Ends(v) = {out[v]}
        BY <3>1
    <3>3. one[{out[v]}] = out[v]
        BY <3>1
    <3> QED BY <2>1, <3>2, <3>3
  <2>2. CASE v \notin Z
    <3>1. \A w \in W : <<v, w>> \in R <=> <<G[v], w>> \in R
        BY <1>3, <2>2
    <3>2. Ends(v) = Ends(G[v]) /\ G[v] \in V
        BY <1>0, <3>1
    <3> HIDE DEF Ends, one
    <3> QED BY <2>2, <3>2
  <2> QED BY <2>1, <2>2
<1>5. h \in [V -> W]
  <2> SUFFICES ASSUME NEW v \in V PROVE one[Ends(v)] \in W
      OBVIOUS
  <2>1. out[v] \in W /\ Ends(v) \in SUBSET W
      BY <1>0
  <2>2. \E w : w \in W /\ (Ends(v) # {} => w \in Ends(v))
      BY <2>1
  <2> HIDE DEF Ends
  <2> QED BY <2>1, <2>2
<1> HIDE DEF h
<1> QED BY <1>4, <1>5
==============================================================================
