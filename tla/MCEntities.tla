----------------------------- MODULE MCEntities ------------------------------
(***************************************************************************)
(* Instance of EntityRollup: a class A with a method run and a field f, a    *)
(* class B with two methods and a constructor, a template Box with a field    *)
(* of type T, its named instance Box<B> and its specialization Box<A>, and a  *)
(* namespace around A and B.                                                  *)
(***************************************************************************)
EXTENDS EntityGraph, TLC

A == 1
B == 2
Box == 3
BoxB == 4
BoxA == 5
Ns == 6
run == 7
m1 == 8
m2 == 9
f == 10
t == 11
ctor == 12

MCIds == 1..12
Kinds == (A :> "class") @@ (B :> "class") @@ (Box :> "class_template") @@ (BoxB :> "class")
         @@ (BoxA :> "struct") @@ (Ns :> "namespace") @@ (run :> "method") @@ (m1 :> "method")
         @@ (m2 :> "method") @@ (f :> "field") @@ (t :> "field") @@ (ctor :> "constructor")

Edge(s, k, d) == [src |-> s, kind |-> k, dst |-> d, access |-> "public"]
NoType == [wrap |-> << >>, core |-> None]

Always ==
    {Edge(BoxB, "instantiates", Box), Edge(BoxA, "specializes", Box), Edge(BoxA, "inherits", B),
     Edge(run, "method_of", A), Edge(m1, "method_of", B), Edge(m2, "method_of", B),
     Edge(t, "field_of", Box), Edge(run, "calls", m1),
     Edge(run, "calls", m2), Edge(Ns, "contains", A), Edge(A, "friend", B)}

\* `more`: the edges beside those of `Always`; `pure`: the pure methods of B; `owner` and
\* `ftype`: whose member f is, and its type.
Database(more, pure, owner, ftype) ==
    [kind |-> Kinds, pure |-> pure, named |-> {BoxB},
     parent |-> (run :> A) @@ (m1 :> B) @@ (m2 :> B) @@ (f :> owner) @@ (t :> Box) @@ (ctor :> B)
                @@ [s \in MCIds |-> None],
     type |-> (f :> ftype) @@ (t :> [wrap |-> <<"unique_ptr">>, core |-> "T"])
              @@ (run :> [wrap |-> << >>, core |-> B]) @@ [s \in MCIds |-> NoType],
     arg |-> (BoxB :> B) @@ [s \in MCIds |-> None],
     edge |-> Always \union more \union {Edge(f, "field_of", owner)}]

More1 == {Edge(run, "uses", m1), Edge(run, "heap", ctor), Edge(run, "destroy", ctor),
          Edge(f, "uses", BoxB), [Edge(BoxB, "inherits", B) EXCEPT !.access = "private"]}
More2 == {Edge(run, "factory", ctor), Edge(A, "inherits", B), Edge(B, "contains", A)}

RefToBox == [wrap |-> <<"ref">>, core |-> BoxA]
Shared(x) == [wrap |-> <<"container", "shared_ptr">>, core |-> x]

MCLayer0 == {Database(More1, {m1, m2}, A, RefToBox), Database(More1, {m1}, A, Shared(B)),
             Database(More2, {m1, m2}, A, RefToBox), Database(More2, {m1, m2}, B, Shared(A))}

\* The file of m1, or that of A and its members.
MCDeletions == {{m1}, {A, run, f}}
BothMethods == {{m1, m2}}
-----------------------------------------------------------------------------
(* Questions: what inherits from B, what surrounds A, what implements B. *)

CONSTANT MaxMoves \* commits, re-indexes and deletes while a question is open

VARIABLE moves

Question(job, seeds, kind, dir, transitive, depth, keep) ==
    [job |-> job, seeds |-> seeds, kind |-> kind, dir |-> dir, transitive |-> transitive,
     depth |-> depth, keep |-> keep]

Questions ==
    {Question("relation", <<B, A>>, "generalizes", "in", FALSE, 1, ClassKinds),
     Question("relation", <<A, Box>>, "uses", "both", TRUE, 2, ClassKinds),
     Question("relation", <<A>>, "composes", "both", TRUE, 1, {"concrete"}),
     Question("relation", <<BoxB>>, "composes", "both", TRUE, 3, ClassKinds),
     Question("implemented_by", <<B>>, None, "in", FALSE, 1, {"concrete"}),
     Question("relation", <<Ns>>, "declares", "out", TRUE, 9, {"interface", "abstract"})}

\* Questions are asked between passes, or when one is about to commit.
Quiet == pass.pc = "idle" \/ pass.n > Len(Phases)

MCInit == RollupInit /\ eg = Closed /\ moves = 0

MCNext ==
    \/ /\ eg.status \in {"closed", "done"}
       /\ RollupNext
       /\ eg' = Closed /\ moves' = 0
    \/ /\ Quiet
       /\ \E q \in Questions : Ask(q)
       /\ UNCHANGED moves
    \/ GraphStep /\ UNCHANGED moves
    \/ /\ eg.status \notin {"closed", "done"}
       /\ moves < MaxMoves
       /\ Commit \/ Reindex \/ \E F \in Deletions : Delete(F)
       /\ Watch
       /\ moves' = moves + 1

MCSpec == MCInit /\ [][MCNext]_<<graphVars, moves>>
=============================================================================
