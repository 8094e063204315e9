----------------------------- MODULE EntityGraph -----------------------------
(***************************************************************************)
(* entity_graph.py: a reader of the tables that EntityRollup builds.  One    *)
(* EntityGraph answers one question, statement by statement, while others    *)
(* re-index, delete and resolve; it never forgets the type of a node it has   *)
(* wrapped.  A cursor that is not exhausted keeps writers from committing,    *)
(* so what is done per row of a statement belongs to its step.                *)
(***************************************************************************)
EXTENDS EntityRollup

VARIABLE eg \* the question, the caches and the answer of the open graph

graphVars == <<rollupVars, eg>>

ClassKinds == {"concrete", "abstract", "interface"}

\* A question: relation(kind, direction, transitive, max_depth) from `seeds`, keeping
\* the classes of the kinds in `keep`; or implemented_by / implements of one node.
Closed == [status |-> "closed", ask |-> None, left |-> << >>, walk |-> << >>, seen |-> {},
           answer |-> {}, types |-> [s \in Ids |-> None], still |-> TRUE, same |-> TRUE]

-----------------------------------------------------------------------------
(* Types of nodes. *)

\* Mutant of ClassKind: no look at the fields.
ClassKindOfMethods(db, s) ==
    LET methods == Members(db, s, {"method"})
    IN  CASE methods \intersect db.pure = {} -> "class"
          [] methods # {} /\ methods \subseteq db.pure -> "interface"
          [] OTHER -> "abstract_class"

ClassKind(db, s) ==
    LET methods == Members(db, s, {"method"})
    IN  CASE methods \intersect db.pure = {} -> "class"
          [] methods # {} /\ methods \subseteq db.pure /\ Members(db, s, {"field"}) = {} -> "interface"
          [] OTHER -> "abstract_class"

\* _derive_entity_type, for a node without a row in entity_node.
Derived(db, s) ==
    CASE db.kind[s] \in {"enum", "union"} -> <<db.kind[s], "plain">>
      [] db.kind[s] \in {"struct", "class"} -> <<ClassKind(db, s), "plain">>
      [] db.kind[s] = "class_template" -> <<ClassKind(db, s), "template">>
      [] OTHER -> <<"other", "plain">>

\* _entity_type: the cache, the stored row, or the derived type.
TypeRead(s) ==
    IF eg.types[s] # None THEN eg.types[s]
    ELSE IF entity.nodes[s] # None THEN entity.nodes[s] ELSE Derived(base, s)

\* entity(): every node that a row names is wrapped, hence typed.
Wrapped(S) == [s \in Ids |-> IF s \in S THEN TypeRead(s) ELSE eg.types[s]]

Abstractness(type) ==
    CASE type[1] = "interface" -> "interface" [] type[1] = "abstract_class" -> "abstract"
      [] OTHER -> "concrete"

-----------------------------------------------------------------------------
(* Statements. *)

\* edges(src=n, kind=k) and edges(dst=n, kind=k).
RowsOf(n, k, dir) ==
    {e \in entity.edges : e.key.kind = k /\ (IF dir = "out" THEN e.key.src ELSE e.key.dst) = n}
Ends(n, k, dir) == {IF dir = "out" THEN e.key.dst ELSE e.key.src : e \in RowsOf(n, k, dir)}

Directions(dir) == IF dir = "both" THEN <<"out", "in">> ELSE <<dir>>

\* Mutant of Statements: an interface is only implemented.
StatementsOfInterface(n, d) ==
    IF eg.ask.job = "relation"
    THEN [i \in DOMAIN Directions(eg.ask.dir) |->
            [node |-> n, depth |-> d, kind |-> eg.ask.kind, dir |-> Directions(eg.ask.dir)[i]]]
    ELSE <<[node |-> n, depth |-> d, kind |-> "implements", dir |-> eg.ask.dir]>>

\* The statements a node costs: one per direction, or per kind for the two shortcuts.
Statements(n, d) ==
    IF eg.ask.job = "relation"
    THEN [i \in DOMAIN Directions(eg.ask.dir) |->
            [node |-> n, depth |-> d, kind |-> eg.ask.kind, dir |-> Directions(eg.ask.dir)[i]]]
    ELSE [i \in 1..2 |-> [node |-> n, depth |-> d, kind |-> <<"generalizes", "implements">>[i],
                          dir |-> eg.ask.dir]]

\* EntityGraph.query(...): the seeds, one walk after the other.
Ask(question) ==
    /\ eg.status = "closed"
    /\ eg' = [Closed EXCEPT !.status = "next", !.ask = question, !.left = question.seeds,
                            !.same = (made = base \/ entity = NoDraft)]
    /\ UNCHANGED rollupVars

\* Mutant of NextSeed: without `n.id != self.id`.
NextSeedBare ==
    /\ eg.status = "next"
    /\ eg' = IF eg.left = << >> THEN [eg EXCEPT !.status = "done"]
             ELSE IF Head(eg.left) \notin Present(base) THEN [eg EXCEPT !.left = Tail(@)]
             ELSE [eg EXCEPT !.status = "walk", !.left = Tail(@), !.seen = {},
                             !.types = Wrapped({Head(eg.left)}),
                             !.walk = Statements(Head(eg.left), 0)]
    /\ UNCHANGED rollupVars

\* The next seed, wrapped when it is looked up; every walk has a `seen` of its own.
NextSeed ==
    /\ eg.status = "next"
    /\ eg' = IF eg.left = << >> THEN [eg EXCEPT !.status = "done"]
             ELSE IF Head(eg.left) \notin Present(base) THEN [eg EXCEPT !.left = Tail(@)]
             ELSE [eg EXCEPT !.status = "walk", !.left = Tail(@), !.seen = {Head(eg.left)},
                             !.types = Wrapped({Head(eg.left)}),
                             !.walk = Statements(Head(eg.left), 0)]
    /\ UNCHANGED rollupVars

\* Whether a walk goes on from a node at this depth.
Deeper(d) == eg.ask.job = "relation" /\ eg.ask.transitive /\ d < eg.ask.depth

\* What a statement reaches for the first time in this walk.
Fresh(s) == Ends(s.node, s.kind, s.dir) \ eg.seen

\* The classes that the filters and the shortcuts let through.
Kept(S, types) == {x \in S : Abstractness(types[x]) \in eg.ask.keep}

\* ORDER BY src_id, kind, dst_id.
InOrder(S) == CHOOSE q \in SetToSeqs(S) : \A i, j \in DOMAIN q : i < j => q[i] < q[j]

Statement ==
    /\ eg.status = "walk" /\ eg.walk # << >>
    /\ LET s == Head(eg.walk)
           new == Fresh(s)
           types == Wrapped(new \union {s.node})
           queue == InOrder(new)
       IN  eg' = [eg EXCEPT
                    !.types = types,
                    !.seen = @ \union new,
                    !.answer = @ \union Kept(new, types),
                    !.walk = Tail(@) \o
                        (IF Deeper(s.depth + 1)
                         THEN FlattenSeq([i \in DOMAIN queue |-> Statements(queue[i], s.depth + 1)])
                         ELSE << >>)]
    /\ UNCHANGED rollupVars

EndOfWalk ==
    /\ eg.status = "walk" /\ eg.walk = << >>
    /\ eg' = [eg EXCEPT !.status = "next"]
    /\ UNCHANGED rollupVars

\* (No code.) What the others did to the tables since the question was asked.
Watch == eg' = [eg EXCEPT !.still = @ /\ entity' = entity,
                          !.same = @ /\ base' = base /\ (entity' = entity \/ made' = base)]

GraphStep == NextSeed \/ Statement \/ EndOfWalk

-----------------------------------------------------------------------------
(* What the answers are worth. *)

\* The nodes that one more relation leads to.
Around(S, k, dir) == S \union UNION {Ends(x, k, d) : x \in S, d \in Range(Directions(dir))}

\* The nodes from which, or to which, a chain of at most n relations leads.
RelatedWithin(S, k, dir, n) ==
    LET ball[i \in 0..n] == IF i = 0 THEN S ELSE Around(ball[i - 1], k, dir)
    IN  ball[n]

\* relation(): as long as no resolve was committed meanwhile, the answer is the
\* transitive closure, up to the depth asked for, of each seed without itself -- also
\* over cycles, in both directions, and when a seed is reached from another one.
AnswerIsClosure ==
    eg.status = "done" /\ eg.still /\ eg.ask.job = "relation" =>
        eg.answer = UNION {Kept(RelatedWithin({s}, eg.ask.kind, eg.ask.dir,
                                              IF eg.ask.transitive THEN eg.ask.depth ELSE 1) \ {s},
                                eg.types) : s \in Range(eg.ask.seeds)}

\* "when the row is absent [...] derives it from the symbol kind + member
\* classification, so the answer matches the materializer either way": whatever passes
\* run meanwhile over the same symbols, all types that a graph remembers are those of
\* the symbols -- of the records and enums: a namespace has no type until the first pass.
TypesMatchEitherWay ==
    eg.status # "closed" /\ eg.same =>
        \A s \in Ids : eg.types[s] # None /\ base.kind[s] \in NodeKinds =>
            /\ eg.types[s] = EntityKind(RollupState(base), s, base.kind[s])
            /\ Abstractness(eg.types[s]) = "interface" <=> Interface(base, s)

\* implemented_by and implements read generalizes first and implements then: together
\* they answer every class that inherits, if nothing was committed in between.
NoImplementorMissed ==
    eg.status = "done" /\ eg.still /\ made = base /\ eg.ask.job = "implemented_by" =>
        \A s \in Range(eg.ask.seeds) :
           \A i \in InheritanceMeant(base) :
              i[3] = s /\ i[1] # s /\ Abstractness(Derived(base, i[1])) \in eg.ask.keep
                 => i[1] \in eg.answer
=============================================================================
