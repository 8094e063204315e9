---------------------------- MODULE EntityRollup -----------------------------
(***************************************************************************)
(* materialize_entity_edges (entity_rollup.py), the last commit of `cidx    *)
(* resolve`: from the symbols and edges of the index ("layer 0") it builds  *)
(* the design entities (entity_node) and the relations between them         *)
(* (entity_edge).  The lookup tables of a pass are read before its           *)
(* transaction begins; the ten phases run inside it.  Other processes       *)
(* re-index and delete files whenever no transaction holds the write lock.  *)
(***************************************************************************)
EXTENDS Naturals, FiniteSets, SequencesExt

CONSTANTS
    Ids,         \* rowids of symbols
    Layer0,      \* the contents the symbol and edge tables may get by indexing
    Deletions,   \* sets of symbols that one delete command removes
    None

ASSUME IdsAreNumbers == Ids \subseteq Nat /\ IsFiniteSet(Ids) /\ None \notin Ids

VARIABLES
    base,        \* symbol and edge: [kind, pure, parent, named, type, arg, edge]
    entity,      \* entity_edge and entity_node, as committed: [edges, nodes]
    pass,        \* the locals of the pass
    made,        \* the layer 0 that `entity` was built from, or None: no claim
    refused      \* a delete command failed

rollupVars == <<base, entity, pass, made, refused>>

EntityKinds == {"struct", "union", "class", "enum"}
NodeKinds == EntityKinds \union {"class_template"}
Callers == {"method", "function", "constructor", "destructor", "function_template"}

NodeTypes == {"enum", "union", "namespace", "interface", "abstract_class", "class"}
             \X {"plain", "template"}

Present(db) == {s \in Ids : db.kind[s] # None}
Edges(db, K, From, To) ==
    {e \in db.edge : e.kind \in K /\ db.kind[e.src] \in From /\ db.kind[e.dst] \in To}
All == EntityKinds \union NodeKinds \union Callers \union {"field", "namespace"}

-----------------------------------------------------------------------------
(* Layer 0. *)

Types == UNION {Range(db.type) : db \in Layer0}

Databases ==
    [kind : [Ids -> STRING \union {None}], pure : SUBSET Ids, parent : [Ids -> Ids \union {None}],
     named : SUBSET Ids, type : [Ids -> Types], arg : [Ids -> Ids \union {None}],
     edge : SUBSET [src : Ids, kind : STRING, dst : Ids, access : STRING]]

\* The kind of a symbol, in whichever contents have it: an id stays with its symbol.
KindOf(s) == {db.kind[s] : db \in Layer0} \ {None}

\* What the foreign keys and the language make of layer 0: edges join symbols, the
\* templates of records are records, so are the instances that were given a name, and
\* neither an enum nor a union is a base or has pure methods.
Sound(db) ==
    /\ db \in Databases
    /\ \A s \in Ids : db.kind[s] \in KindOf(s) \union {None}
    /\ \A e \in db.edge :
          /\ e.src \in Present(db) /\ e.dst \in Present(db)
          /\ e.kind \in {"specializes", "instantiates"} /\ db.kind[e.src] \in NodeKinds
                => db.kind[e.dst] \in NodeKinds
          /\ e.kind = "inherits" => db.kind[e.dst] \notin {"enum", "union"}
    /\ \A s \in db.named \intersect Present(db) : db.kind[s] \in NodeKinds
    /\ \A m \in db.pure : db.kind[m] = "method" /\ db.parent[m] # None =>
          db.kind[db.parent[m]] \notin {"enum", "union"}

ASSUME Layer0IsSound ==
    /\ None \notin All /\ None \notin NodeTypes /\ None \notin Databases
    /\ \A s \in Ids : \A k, l \in KindOf(s) : k = l
    /\ \A db \in Layer0 : Sound(db)

-----------------------------------------------------------------------------
(* The lookup tables. *)

\* The first row per src in the order (kind, dst_id), specializes before instantiates.
NextHop(db, s) ==
    LET hops(k) == {e.dst : e \in {x \in db.edge : x.src = s /\ x.kind = k}}
        lowest(S) == CHOOSE x \in S : \A y \in S : x <= y
    IN  IF hops("specializes") # {} THEN lowest(hops("specializes"))
        ELSE IF hops("instantiates") # {} THEN lowest(hops("instantiates")) ELSE None

Owners(db, K, P) == {db.parent[s] : s \in {x \in Present(db) : db.kind[x] \in K /\ x \in P}}

RollupState(db) ==
    [hop |-> [s \in Ids |-> NextHop(db, s)],
     nonPure |-> Owners(db, {"method"}, Ids \ db.pure),
     fields |-> Owners(db, {"field"}, Ids),
     pure |-> Owners(db, {"method"}, db.pure),
     known |-> {s \in Ids : db.kind[s] \in NodeKinds}]

\* Follows next hops until there is none, or one was seen before.
Collapse(ctx, s) ==
    LET trail[n \in 0..Cardinality(Ids)] ==
            IF n = 0 THEN <<s>>
            ELSE LET t == trail[n - 1]
                 IN  IF ctx.hop[Last(t)] = None \/ Last(t) \in Range(Front(t)) THEN t
                     ELSE Append(t, ctx.hop[Last(t)])
    IN  Last(trail[Cardinality(Ids)])

IsInterface(ctx, s) == s \in (ctx.known \intersect ctx.pure) \ (ctx.nonPure \union ctx.fields)
HasPure(ctx, s) == s \in ctx.known \intersect ctx.pure

EntityKind(ctx, s, kind) ==
    IF kind \in {"enum", "union", "namespace"} THEN <<kind, "plain">>
    ELSE <<IF IsInterface(ctx, s) THEN "interface"
           ELSE IF HasPure(ctx, s) THEN "abstract_class" ELSE "class",
           IF kind = "class_template" THEN "template" ELSE "plain">>

-----------------------------------------------------------------------------
(* Types: the wrappers around a core, outermost first, and the core: a symbol,  *)
(* "T" for the parameter of the template, or None for what is not indexed.      *)

Templates == {"container", "unique_ptr", "optional", "shared_ptr", "weak_ptr"}

\* The spelling is tested for "]", then for the prefixes, then for * and &: a
\* reference to a unique_ptr is a unique_ptr to this test.
ClassifyFieldType(wrap) ==
    LET templates == SelectSeq(wrap, LAMBDA x : x \in Templates)
        smart == SelectSeq(wrap, LAMBDA x : x \in Templates \ {"container"})
        array == wrap # << >> /\ wrap[1] = "array"
    IN  [kind |-> CASE array -> "composes"
                    [] ~array /\ smart # << >> ->
                         CASE smart[1] = "shared_ptr" -> "aggregates"
                           [] smart[1] = "weak_ptr" -> "associates"
                           [] OTHER -> "composes"
                    [] OTHER -> IF \E i \in DOMAIN wrap : wrap[i] \in {"ptr", "ref"}
                                THEN "associates" ELSE "composes",
         mult |-> CASE array -> "N"
                    [] ~array /\ templates # << >> /\ templates[1] = "container" -> "0..*"
                    [] ~array /\ wrap = << >> -> "1"
                    [] OTHER -> "0..1"]

\* _resolve_entity_from_type: class templates are not found by their name.
EntityOfType(db, type) ==
    IF type.core \in Ids /\ db.kind[type.core] \in EntityKinds THEN type.core ELSE None

-----------------------------------------------------------------------------
(* The rows that the phases insert, one per row of their query.  `of` is that  *)
(* row; the identity of an entity edge is its key.                              *)

Key(s, d, k, via, form) == [src |-> s, dst |-> d, kind |-> k, via |-> via, form |-> form]
Plain(s, d, k, e) == [key |-> Key(s, d, k, None, None), mult |-> "1", access |-> "public",
                      partial |-> FALSE, of |-> e]
Proper(rows) == {r \in rows : r.key.src # r.key.dst}

\* The record a method belongs to.
OwnerOf(db, m) ==
    LET o == {e.dst : e \in {x \in Edges(db, {"method_of"}, All, EntityKinds) : x.src = m}}
    IN  IF o = {} THEN None ELSE CHOOSE x \in o : TRUE

\* The derived side is collapsed, the base stays the entity it is.
InheritanceRows(db, ctx) ==
    {[Plain(Collapse(ctx, e.src), e.dst,
            IF IsInterface(ctx, e.dst) THEN "implements" ELSE "generalizes", e)
        EXCEPT !.access = e.access] : e \in Edges(db, {"inherits"}, EntityKinds, EntityKinds)}

\* specializes and instantiates: only the destination is collapsed.
TemplateRows(db, ctx, k) ==
    {Plain(e.src, Collapse(ctx, e.dst), k, e) : e \in Edges(db, {k}, NodeKinds, NodeKinds)}

\* A member of a named instance, else the last template argument, else the type's name.
NamedInstances(db, f) ==
    {e.dst : e \in {x \in db.edge : x.src = f /\ x.kind = "uses" /\ x.dst \in db.named}}

FieldReferent(db, f) ==
    IF NamedInstances(db, f) # {}
    THEN CHOOSE x \in NamedInstances(db, f) : \A y \in NamedInstances(db, f) : x <= y
    ELSE IF db.arg[f] # None THEN db.arg[f] ELSE EntityOfType(db, db.type[f])

FieldRow(db, s, d, f, e) ==
    LET c == ClassifyFieldType(db.type[f].wrap)
    IN  [Plain(s, d, c.kind, e) EXCEPT !.key.via = f, !.mult = c.mult]

\* A named instance is not collapsed.
FieldRows(db, ctx) ==
    {LET ref == FieldReferent(db, e.src)
     IN  FieldRow(db, Collapse(ctx, e.dst),
                  IF ref \in NamedInstances(db, e.src) THEN ref ELSE Collapse(ctx, ref), e.src, e) :
        e \in {x \in Edges(db, {"field_of"}, {"field"}, EntityKinds) :
                  /\ FieldReferent(db, x.src) # None
                  /\ db.kind[FieldReferent(db, x.src)] \in EntityKinds}}

\* A named instance has no members: those of its primary, with its argument for T.
Bound(db, inst, f) ==
    IF db.type[f].core = "T" THEN db.arg[inst] ELSE EntityOfType(db, db.type[f])

InstanceRows(db) ==
    UNION {{FieldRow(db, i.src, Bound(db, i.src, e.src), e.src, e) :
              e \in {x \in Edges(db, {"field_of"}, {"field"}, NodeKinds) :
                        /\ x.dst = i.dst
                        /\ Bound(db, i.src, x.src) # None
                        /\ db.kind[Bound(db, i.src, x.src)] \in EntityKinds}} :
           i \in {x \in Edges(db, {"instantiates"}, All, {"class_template"}) : x.src \in db.named}}

Forms == {"value", "temp", "heap", "copy", "move", "factory"}

\* The created or destroyed record: the parent of the constructor or destructor,
\* or the destination itself.
Target(db, d) ==
    IF db.parent[d] # None /\ db.kind[db.parent[d]] \in EntityKinds THEN db.parent[d]
    ELSE IF db.kind[d] \in EntityKinds THEN d ELSE None

CreateRows(db, ctx) ==
    LET sites == {e \in db.edge : /\ e.kind \in Forms \union {"destroy"}
                                  /\ OwnerOf(db, e.src) # None /\ Target(db, e.dst) # None}
        row(e, k) == Plain(Collapse(ctx, OwnerOf(db, e.src)), Collapse(ctx, Target(db, e.dst)), k, e)
        byValue == {e \in Edges(db, {"method_of"}, {"method", "constructor"}, EntityKinds) :
                       EntityOfType(db, db.type[e.src]) # None}
    IN  {IF e.kind = "destroy" THEN row(e, "destroys")
         ELSE [row(e, "creates") EXCEPT !.key.form = e.kind, !.partial = (e.kind = "factory")] :
            e \in sites}
        \union
        {[Plain(Collapse(ctx, e.dst), Collapse(ctx, EntityOfType(db, db.type[e.src])), "creates", e)
            EXCEPT !.key.form = "return", !.partial = TRUE] : e \in byValue}

UseRows(db, ctx) ==
    {[Plain(Collapse(ctx, OwnerOf(db, e.src)), Collapse(ctx, OwnerOf(db, e.dst)), "uses", e)
        EXCEPT !.key.via = e.dst, !.partial = (e.dst \in db.pure)] :
        e \in {x \in Edges(db, {"calls", "uses"}, Callers, Callers) :
                  OwnerOf(db, x.src) # None /\ OwnerOf(db, x.dst) # None}}

FriendRows(db, ctx) ==
    {Plain(Collapse(ctx, e.src), Collapse(ctx, e.dst), "befriends", e) :
        e \in Edges(db, {"friend"}, EntityKinds, EntityKinds)}

DeclareRows(db, nodes) ==
    {Plain(e.src, e.dst, "declares", e) :
        e \in {x \in Edges(db, {"contains"}, {"namespace"}, All) : nodes[x.dst] # None}}

Phases == <<"inheritance", "specializes", "instantiates", "field_relations",
            "instance_composition", "creates_destroys", "uses", "befriends",
            "entity_nodes", "declares">>

Rows(phase, db, ctx, nodes) ==
    Proper(CASE phase = "inheritance" -> InheritanceRows(db, ctx)
             [] phase \in {"specializes", "instantiates"} -> TemplateRows(db, ctx, phase)
             [] phase = "field_relations" -> FieldRows(db, ctx)
             [] phase = "instance_composition" -> InstanceRows(db)
             [] phase = "creates_destroys" -> CreateRows(db, ctx)
             [] phase = "uses" -> UseRows(db, ctx)
             [] phase = "befriends" -> FriendRows(db, ctx)
             [] phase = "entity_nodes" -> {}
             [] phase = "declares" -> DeclareRows(db, nodes))

\* Mutant of Nodes: the phase builds lookup tables of its own.
NodesOfNow(db, ctx) ==
    [s \in Ids |-> IF db.kind[s] \in NodeKinds \union {"namespace"}
                   THEN EntityKind(RollupState(db), s, db.kind[s]) ELSE None]

Nodes(db, ctx) ==
    [s \in Ids |-> IF db.kind[s] \in NodeKinds \union {"namespace"}
                   THEN EntityKind(ctx, s, db.kind[s]) ELSE None]

\* ON CONFLICT: inheritance overwrites access, declares does nothing, the others
\* count, and a partial use stays partial.
Once == {"generalizes", "implements", "declares"}

SumOf(E) == FoldSet(LAMBDA e, n : e.count + n, 0, E)

\* Mutant of Upserted: an inheritance counts like the others.
UpsertedAlways(edges, rows, final) ==
    LET keys == {r.key : r \in rows}
        before(k) == {e \in edges : e.key = k}
        group(k) == {r \in rows : r.key = k}
    IN  {e \in edges : e.key \notin keys}
        \union {[key |-> k, mult |-> final[k].mult, access |-> final[k].access,
                 partial |-> \E r \in group(k) \union before(k) : r.partial,
                 count |-> Cardinality(group(k)) + SumOf(before(k))] : k \in keys}

Upserted(edges, rows, final) ==
    LET keys == {r.key : r \in rows}
        before(k) == {e \in edges : e.key = k}
        group(k) == {r \in rows : r.key = k}
        count(k) == Cardinality(group(k)) + SumOf(before(k))
    IN  {e \in edges : e.key \notin keys}
        \union {[key |-> k, mult |-> final[k].mult, access |-> final[k].access,
                 partial |-> \E r \in group(k) \union before(k) : r.partial,
                 count |-> IF k.kind \in Once THEN 1 ELSE count(k)] : k \in keys}

-----------------------------------------------------------------------------
(* The pass. *)

NoDraft == [edges |-> {}, nodes |-> [s \in Ids |-> None]]
Idle == [pc |-> "idle", n |-> 0, ctx |-> None, draft |-> NoDraft, seen |-> None]

RollupInit ==
    /\ base \in Layer0
    /\ entity = NoDraft
    /\ pass = Idle
    /\ made = None
    /\ refused = FALSE

\* The write lock: from the DELETE to the end of the transaction.
Locked == pass.pc = "phase"

\* _CTX = _RollupState(db._conn), in no transaction.
Precompute ==
    /\ pass.pc = "idle"
    /\ pass' = [Idle EXCEPT !.pc = "begin", !.ctx = RollupState(base), !.seen = base]
    /\ UNCHANGED <<base, entity, made, refused>>

\* DELETE FROM entity_edge opens the transaction; entity_node is cleared by its phase.
Begin ==
    /\ pass.pc = "begin"
    /\ pass' = [pass EXCEPT !.pc = "phase", !.n = 1, !.draft.nodes = entity.nodes]
    /\ UNCHANGED <<base, entity, made, refused>>

\* One phase, its rows in any order: `final` is the last row of each key.  A row whose
\* end is gone violates a foreign key, and the pass rolls back.
Phase ==
    /\ pass.pc = "phase" /\ pass.n <= Len(Phases)
    /\ LET rows == Rows(Phases[pass.n], base, pass.ctx, pass.draft.nodes)
           keys == {r.key : r \in rows}
           dangling == \E k \in keys : {k.src, k.dst} \ Present(base) # {}
       IN  \E final \in [keys -> rows] :
              /\ \A k \in keys : final[k].key = k
              /\ pass' = IF dangling THEN Idle
                         ELSE [pass EXCEPT
                                 !.n = @ + 1,
                                 !.draft.edges = Upserted(@, rows, final),
                                 !.draft.nodes = IF Phases[pass.n] = "entity_nodes"
                                                 THEN Nodes(base, pass.ctx) ELSE @]
    /\ UNCHANGED <<base, entity, made, refused>>

Commit ==
    /\ pass.pc = "phase" /\ pass.n > Len(Phases)
    /\ entity' = pass.draft
    /\ made' = IF pass.seen = base THEN base ELSE None
    /\ pass' = Idle
    /\ UNCHANGED <<base, refused>>

\* A phase raises, the commit finds the database locked, or the process dies: the
\* transaction is rolled back.
Fail ==
    /\ pass.pc # "idle"
    /\ pass' = Idle
    /\ UNCHANGED <<base, entity, made, refused>>

PassStep == Precompute \/ Begin \/ Phase \/ Commit \/ Fail

-----------------------------------------------------------------------------
(* Other processes.  The foreign keys of entity_edge cascade from its ends and  *)
(* set via_member_id to NULL.                                                    *)

\* An index run leaves every symbol row it finds.
Reindex ==
    /\ ~Locked
    /\ \E db \in Layer0 \ {base} : Present(base) \subseteq Present(db) /\ base' = db
    /\ UNCHANGED <<entity, pass, made, refused>>

Without(db, F) ==
    [db EXCEPT !.kind = [s \in Ids |-> IF s \in F THEN None ELSE @[s]],
               !.arg = [s \in Ids |-> IF @[s] \in F THEN None ELSE @[s]],
               !.edge = {e \in @ : e.src \notin F /\ e.dst \notin F}]

Survivors(F) == {e \in entity.edges : e.key.src \notin F /\ e.key.dst \notin F}
Unlinked(e, F) == IF e.key.via \in F THEN [e EXCEPT !.key.via = None] ELSE e

\* Two relations that differ only in members that F removes get one identity:
\* UNIQUE constraint failed, and the statement is undone.
Clash(F) == \E e1, e2 \in Survivors(F) : e1 # e2 /\ Unlinked(e1, F).key = Unlinked(e2, F).key

\* delete_file, delete_directory, delete_component, delete_symbol.
Delete(F) ==
    /\ ~Locked
    /\ F \subseteq Present(base)
    /\ IF Clash(F) THEN refused' = TRUE /\ UNCHANGED <<base, entity, made>>
       ELSE /\ base' = Without(base, F)
            /\ entity' = [edges |-> {Unlinked(e, F) : e \in Survivors(F)},
                          nodes |-> [s \in Ids |-> IF s \in F THEN None ELSE entity.nodes[s]]]
            /\ made' = None
            /\ UNCHANGED refused
    /\ UNCHANGED pass

RollupNext == PassStep \/ Reindex \/ \E F \in Deletions : Delete(F)

-----------------------------------------------------------------------------
(* What the tables say, defined from layer 0 by its meaning. *)

\* The template an instance stands for: where its chain ends.
Primary(db, s) ==
    LET up(S) == S \union ({NextHop(db, x) : x \in S} \ {None})
        chain[n \in 0..Cardinality(Ids)] == IF n = 0 THEN {s} ELSE up(chain[n - 1])
    IN  CHOOSE p \in chain[Cardinality(Ids)] : NextHop(db, p) = None

Members(db, s, K) == {m \in Present(db) : db.parent[m] = s /\ db.kind[m] \in K}

\* "a record is an interface iff it owns >=1 pure method, NO non-pure method [...] and
\* NO data field".
Interface(db, s) ==
    /\ db.kind[s] \in NodeKinds
    /\ Members(db, s, {"method"}) \intersect db.pure # {}
    /\ Members(db, s, {"method"}) \subseteq db.pure
    /\ Members(db, s, {"field"}) = {}

\* Which design entity uses which, and the call edge that shows it.
UsesMeant(db) ==
    {<<Primary(db, c[1].dst), Primary(db, c[2].dst), c[3]>> :
        c \in {x \in Edges(db, {"method_of"}, All, EntityKinds)
                   \X Edges(db, {"method_of"}, All, EntityKinds)
                   \X Edges(db, {"calls", "uses"}, Callers, Callers) :
                 x[3].src = x[1].src /\ x[3].dst = x[2].src}}

\* Which design entity inherits from which record, how, and the access it may have.
InheritanceMeant(db) ==
    {<<Primary(db, e.src), IF Interface(db, e.dst) THEN "implements" ELSE "generalizes",
       e.dst, e.access>> : e \in Edges(db, {"inherits"}, EntityKinds, EntityKinds)}

OfKinds(kinds) == {e \in entity.edges : e.key.kind \in kinds}

\* entity_edge and entity_node are those of one pass over one layer 0, at every
\* moment from its commit on: through the next passes, whether they fail in the
\* middle or die, and whatever is re-indexed meanwhile, until a deletion takes rows out
\* (`made` is None then, and after a pass that read two layer 0s).  A use is counted once per
\* call edge, an inheritance joins the design entities and is an `implements` exactly
\* for a pure interface, and no entity is related to itself.
TablesAreOnePass ==
    made # None =>
        /\ \A s \in Ids :
              /\ (entity.nodes[s] # None) <=> (made.kind[s] \in NodeKinds \union {"namespace"})
              /\ made.kind[s] \in {"class", "struct", "class_template"} =>
                    (entity.nodes[s][1] = "interface") <=> Interface(made, s)
        /\ LET meant == {u \in UsesMeant(made) : u[1] # u[2]}
               ends(x, y) == {u \in meant : u[1] = x /\ u[2] = y}
               stored == OfKinds({"uses"})
           IN  /\ {<<e.key.src, e.key.dst>> : e \in stored} = {<<u[1], u[2]>> : u \in meant}
               /\ \A x, y \in {e.key.src : e \in stored} \union {e.key.dst : e \in stored} :
                     SumOf({e \in stored : e.key.src = x /\ e.key.dst = y})
                        = Cardinality(ends(x, y))
        /\ LET meant == {i \in InheritanceMeant(made) : i[1] # i[3]}
               stored == OfKinds({"implements", "generalizes"})
               ends(e) == <<e.key.src, e.key.kind, e.key.dst>>
           IN  /\ {ends(e) : e \in stored} = {<<i[1], i[2], i[3]>> : i \in meant}
               /\ \A e \in stored : /\ e.count = 1
                                     /\ \E i \in meant : i = ends(e) \o <<e.access>>
        /\ \A e \in entity.edges : e.key.src # e.key.dst

\* entity_edge and entity_node agree whatever happens: the ends of a relation are
\* entities, and what is implemented is an interface to every reader -- also when
\* layer 0 changed while the pass ran and files were deleted since.
EdgesFitNodes ==
    \A e \in entity.edges :
        /\ entity.nodes[e.key.src] # None /\ entity.nodes[e.key.dst] # None
        /\ e.key.kind = "implements" => entity.nodes[e.key.dst][1] = "interface"
        /\ e.key.kind = "generalizes" => entity.nodes[e.key.dst][1] # "interface"

\* "Remove a file and the symbols indexed from it" (delete_file): a delete command does it.
DeletesSucceed == ~refused
=============================================================================
