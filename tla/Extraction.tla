------------------------------ MODULE Extraction ------------------------------
(***************************************************************************)
(* From the AST to the graph tables: what index_source writes for a unit     *)
(* and its headers.  A file is the sequence of its declaration cursors, a     *)
(* function body the sequence of its calls, references and locals.  Which     *)
(* edges are written depends on which symbols the index holds at that moment  *)
(* (most are looked up, some are minted), so on the order in which files come. *)
(*                                                                           *)
(* A whole unit is one step here, or the commits before its death; IndexRun    *)
(* interleaves those commits with other processes.  Files do not change.       *)
(***************************************************************************)
EXTENDS Naturals, FiniteSets, SequencesExt

CONSTANTS
    Units,       \* the translation units
    Owned,       \* the headers a component owns, and the units
    Headers,     \* [Units -> Seq(Owned)]: owned headers, in the order of inclusion
    Cursors,     \* [Owned -> Seq of cursors]
    Decl,        \* what libclang says of a USR: kind, name, owner, template, args, ...
    Nil,         \* no USR, no file
    MaxCount,    \* bound on the counts of edges
    MaxSetbacks  \* bound on the runs that die and the files reset to pending

VARIABLES
    db,          \* the tables
    done,        \* the files marked indexed
    setbacks,    \* the number of runs that died and files that were reset
    rolled       \* nothing was indexed since the last rollup_edge_counts

extractionVars == <<db, done, setbacks, rolled>>

Usrs == DOMAIN Decl

\* The tables after one element of a sequence after the other (FoldLeft, with
\* every intermediate result computed before the next step).
Through(op(_, _), start, seq) ==
    LET reached[i \in 0..Len(seq)] ==
            IF i = 0 THEN start
            ELSE CHOOSE d \in {op(e, seq[i]) : e \in {reached[i - 1]}} : TRUE
    IN  reached[Len(seq)]

NoSymbolYet == [known |-> FALSE, def |-> FALSE, file |-> Nil, inst |-> FALSE, named |-> FALSE]

NoTables ==
    [sym |-> [u \in Usrs |-> NoSymbolYet],
     edge |-> << >>,      \* <<source, kind, target>> -> count
     site |-> {},         \* edge_site: where, under a condition, with which receiver
     arg |-> {},          \* call_arg
     param |-> {},        \* template_param: <<owner, position>>
     targ |-> << >>,      \* template_arg: <<owner, position>> -> the row
     def |-> {},          \* definition: <<file, symbol>>
     defEdge |-> {}]      \* def_edge: <<file, symbol, kind, target>>

-----------------------------------------------------------------------------
(* Kinds of cursors. *)

Functions == {"function", "method", "ctor", "dtor", "function_template"}
MemberFunctions == {"method", "ctor", "dtor", "conversion"}
Records == {"class", "struct", "union", "class_template"}
Aliases == {"typedef", "alias"}
Nested == Records \union Aliases \union {"enum", "function_template"}

\* _KIND_MAP: the kinds that get a row of their own.
Indexable == Functions \union Records \union Aliases
             \union {"field", "variable", "enum", "namespace"}

\* _SCOPE_KINDS: what a namespace reference is charged to.
Scopes == Indexable

KindOf(u) == IF u = Nil THEN "none" ELSE Decl[u].kind
OwnerOf(u) == IF u = Nil THEN Nil ELSE Decl[u].owner

\* clang_getSpecializedCursorTemplate.
TemplateOf(u) == IF u = Nil THEN Nil ELSE Decl[u].template

-----------------------------------------------------------------------------
(* Reading and writing the tables. *)

HasRow(d, u) == u # Nil /\ d.sym[u].known

\* lookup_symbols_by_qual_name.
Named(d, name, kinds) ==
    {u \in Usrs : HasRow(d, u) /\ Decl[u].name = name /\ Decl[u].kind \in kinds}

\* add_symbol: a definition takes the location, a declaration only from another
\* declaration (or a stub).
Store(d, u, file, isDef) ==
    [d EXCEPT !.sym[u] = [@ EXCEPT !.known = TRUE, !.def = @ \/ isDef,
                                   !.file = IF isDef \/ ~d.sym[u].def THEN file ELSE @]]

\* mint_symbol_id: a stub, or flags that only ever rise.
MintRow(d, u, inst, named) ==
    [d EXCEPT !.sym[u] = [@ EXCEPT !.known = TRUE, !.inst = @ \/ inst, !.named = @ \/ named]]

Mint(d, u) == MintRow(d, u, FALSE, FALSE)

Least(m, n) == IF m < n THEN m ELSE n

\* add_edge: a conflict adds to the count.
Edge(d, s, kind, t) ==
    LET e == <<s, kind, t>>
        count == IF e \in DOMAIN d.edge THEN Least(d.edge[e] + 1, MaxCount) ELSE 1
    IN  [d EXCEPT !.edge = [x \in DOMAIN d.edge \union {e} |-> IF x = e THEN count ELSE d.edge[x]]]

\* The common form: no edge unless both ends have a row, and no stub.
Link(d, s, kind, t) == IF HasRow(d, s) /\ HasRow(d, t) THEN Edge(d, s, kind, t) ELSE d

\* add_edge_site: the first row at a place stays.
AddSite(d, s, kind, t, place, cond, recv) ==
    LET row == [edge |-> <<s, kind, t>>, at |-> place, cond |-> cond, recv |-> recv]
        taken == \E r \in d.site : r.edge = row.edge /\ r.at = place
    IN  IF taken THEN d ELSE [d EXCEPT !.site = @ \union {row}]

NoReceiver == [src |-> Nil, type |-> Nil, pos |-> Nil, byValue |-> Nil]

\* `uses` with its place.
UseAt(d, s, t, place, cond) ==
    IF HasRow(d, t) THEN AddSite(Edge(d, s, "uses", t), s, "uses", t, place, cond, NoReceiver) ELSE d

\* _emit_type_use: the named type, if it has a row and is not the source itself.
TypeUse(d, s, type, place, cond) == IF type = s THEN d ELSE UseAt(d, s, type, place, cond)

\* _pick_template_arg_symbol: the only one of the types that have a row; instances are
\* put aside, if there is more.
Pool(d, types) ==
    LET known == {u \in types : HasRow(d, u)}
        declared == {u \in known : ~d.sym[u].inst}
    IN  IF declared = {} THEN known ELSE declared
Pick(pool) == IF \E u \in pool : pool = {u} THEN CHOOSE u \in pool : TRUE ELSE Nil

\* _resolve_template_arg_ref_id: of the names that the spelling may stand for (in the
\* scopes around it, and last of its tail anywhere) the first that gives a choice.  A
\* name is the set of the types that bear it.
ArgByName(d, names) ==
    LET chosen == {i \in DOMAIN names : Pick(Pool(d, names[i])) # Nil}
    IN  IF chosen = {} THEN Nil
        ELSE Pick(Pool(d, names[CHOOSE i \in chosen : \A j \in chosen : i <= j]))

\* add_template_arg replaces the row of (owner, position); the type is the one
\* the cursor refers to or, mostly, the one of that name.
TemplateArg(d, a, byName) ==
    [kind |-> a.kind, literal |-> a.text,
     ref |-> IF a.kind # "type" THEN Nil
             ELSE IF HasRow(d, a.decl) THEN a.decl
             ELSE IF byName THEN ArgByName(d, a.names) ELSE Nil]

TemplateArgs(d, owner, args, byName) ==
    LET new == {<<owner, i>> : i \in DOMAIN args}
    IN  [d EXCEPT !.targ = [x \in DOMAIN d.targ \union new |->
                               IF x \in new THEN TemplateArg(d, args[x[2]], byName)
                               ELSE d.targ[x]]]

TypeArgs(u) == SelectSeq(Decl[u].args, LAMBDA a : a.kind = "type")

-----------------------------------------------------------------------------
(* Pass 1: symbols. *)

\* _to_symbol: a row for an indexable cursor with a USR.
ToSymbol(d, f, c) ==
    IF c.kind \in Indexable /\ c.usr # Nil THEN Store(d, c.usr, f, c.def) ELSE d

\* _body_local_symbols: the local types of a body.
BodyLocals(c) == IF c.kind \in Functions /\ c.def THEN c.locals ELSE << >>

\* _index_file_notxn: every cursor of the file, and the local types of its bodies.
Symbols(d, f) ==
    Through(LAMBDA e, c : Through(LAMBDA x, u : Store(x, u, f, TRUE),
                                  ToSymbol(e, f, c), BodyLocals(c)),
            d, Cursors[f])

-----------------------------------------------------------------------------
(* Pass 2: edges. *)

\* _mint_instance_from_type: X<B>, named by an alias, a member or a variable,
\* unless its template is a system one.
MintInstance(d, type) ==
    LET x == TemplateOf(type) IN
    IF x = Nil \/ Decl[x].system THEN d
    ELSE TemplateArgs(Edge(Mint(MintRow(d, type, TRUE, TRUE), x), type, "instantiates", x),
                      type, TypeArgs(type), TRUE)

\* The class of a specialization m that is called, itself an instance or not.
OwningInstance(d, m, class) ==
    LET whole == TemplateOf(class) IN
    CASE Decl[m].kind \notin MemberFunctions \/ KindOf(class) \notin Records \union {"partial"} -> d
      [] OTHER ->
            IF whole = Nil THEN Link(d, m, "method_of", class)
            ELSE TemplateArgs(Link(Edge(MintRow(d, class, TRUE, FALSE), m, "method_of", class),
                                   class, "instantiates", whole),
                              class, TypeArgs(class), TRUE)

\* _mint_instantiation_nodes: a call of a specialization m of the template p;
\* a method also gets the class it is a member of.
InstantiationNodes(d, m, p) == OwningInstance(Edge(d, m, "instantiates", p), m, OwnerOf(m))

\* `contains`: what stands in a namespace, and the types nested in a record.
Containment(d, c) ==
    IF \/ KindOf(c.parent) = "namespace"
       \/ KindOf(c.parent) \in Records /\ c.kind \in Nested
    THEN Link(d, c.parent, "contains", c.usr) ELSE d

\* The types a signature, a member, a variable or an alias names.  An instance
\* is minted before it is looked up.
Mentions(d, f, c) ==
    LET minted == IF c.kind \in Aliases \union {"field", "variable"} THEN c.types ELSE << >>
        used == IF HasRow(d, c.usr) /\ (c.kind \in Functions \/ minted # << >>) THEN c.types
                ELSE << >>
    IN  Through(LAMBDA e, i : TypeUse(e, c.usr, c.types[i], <<f, c.at, i>>, FALSE),
                Through(MintInstance, d, minted), [i \in DOMAIN used |-> i])

\* A static data member defined out of line is a body of its own; what its
\* initializer calls, it uses.
StaticMember(d, f, c) ==
    IF c.kind = "variable" /\ c.def /\ HasRow(d, c.usr) /\ KindOf(OwnerOf(c.usr)) \in Records
    THEN [d EXCEPT !.def = @ \union {<<f, c.usr>>},
                   !.defEdge = @ \union {<<f, c.usr, "uses", t>> :
                                             t \in {u \in c.inits : HasRow(d, u)}}]
    ELSE d

\* `inherits`: both ends get a row; a template used as a base is an instance of it.
Inheritance(d, c) ==
    IF KindOf(c.parent) \in {"class", "struct", "class_template", "partial"}
    THEN LET base == c.refs[1] IN
         Link(Edge(Mint(IF HasRow(d, c.parent) THEN d ELSE Mint(d, c.parent), base),
                   c.parent, "inherits", base),
              base, "instantiates", TemplateOf(base))
    ELSE d

\* `method_of`, and `overrides` towards methods that get a row if they have none.
Membership(d, c) ==
    LET class == OwnerOf(c.usr) IN
    IF ~HasRow(d, c.usr) \/ ~HasRow(d, class) THEN d
    ELSE Through(LAMBDA e, m : Edge(Mint(e, m), c.usr, "overrides", m),
                 Edge(d, c.usr, "method_of", class),
                 IF c.kind = "method" THEN c.refs ELSE << >>)

\* Friend classes; friend functions are no edges.
Friendship(d, c) ==
    IF KindOf(c.parent) \in {"class", "struct"}
    THEN Through(LAMBDA e, u : IF KindOf(u) \in {"class", "struct", "class_template"}
                               THEN Link(e, c.parent, "friend", u) ELSE e,
                 d, c.refs)
    ELSE d

Template(d, c) ==
    LET class == OwnerOf(c.usr)
        member == /\ c.kind = "function_template"
                  /\ KindOf(class) \in {"class", "struct", "class_template", "partial"}
    IN  IF ~HasRow(d, c.usr) THEN d
        ELSE [(IF member THEN Link(d, c.usr, "method_of", class) ELSE d)
                 EXCEPT !.param = @ \union {<<c.usr, i>> : i \in 1..c.params}]

\* _is_explicit_instantiation: `template class X<int>;` is an instance of X,
\* `template <> class X<bool> {...}` a specialization.
SpecializationKind(c) == IF c.explicit THEN "instantiates" ELSE "specializes"

Specialization(d, c) ==
    LET p == TemplateOf(c.usr) IN
    IF ~c.def \/ p = Nil \/ ~HasRow(d, c.usr) THEN d
    ELSE TemplateArgs(Edge(Mint(d, p), c.usr, SpecializationKind(c), p),
                      c.usr, Decl[c.usr].args, TRUE)

\* What a cursor of each kind adds.
Structure(d, c) ==
    CASE c.kind = "base" -> Inheritance(d, c)
      [] c.kind = "field" -> Link(d, c.usr, "field_of", OwnerOf(c.usr))
      [] c.kind \in {"method", "ctor", "dtor"} -> Membership(d, c)
      [] c.kind = "friend" -> Friendship(d, c)
      [] c.kind \in {"class_template", "function_template"} -> Template(d, c)
      [] c.kind \in {"class", "struct"} -> Specialization(d, c)
      [] OTHER -> d

\* One cursor of the first loop of _index_edges_notxn.
Declaration(d, f, c) == Structure(StaticMember(Mentions(Containment(d, c), f, c), f, c), c)

-----------------------------------------------------------------------------
(* Function bodies. *)

\* _peel_expr gives up after 16 casts and parentheses.
MaxLayers == 16

\* _classify_value_source: where a receiver or an argument comes from.
SourceKind(x) ==
    IF x.layers > MaxLayers THEN "unknown"
    ELSE CASE x.form \in {"parameter", "variable"} -> "local"
           [] x.form \in {"ctor", "new"} -> "construct"
           [] x.form = "field" -> "member"
           [] x.form = "call" -> "call_result"
           [] x.form \in {"this", "global", "literal"} -> x.form
           [] OTHER -> "unknown"

\* _type_is_value: declared as that very record, not a reference to it.
HeldByValue(x, record) == record # Nil /\ x.declared = record

\* _parm_position: which parameter of the caller a receiver is.
ParmPosition(x) == IF SourceKind(x) = "local" /\ x.form = "parameter" THEN x.pos ELSE Nil

\* The receiver columns of a call's site.
Receiver(n, callee) ==
    IF n.recv # << >>
    THEN LET x == n.recv[1]
             src == SourceKind(x)
             class == IF Decl[callee].kind \in MemberFunctions THEN OwnerOf(callee) ELSE Nil
         IN  [src |-> src, type |-> x.type,
              pos |-> ParmPosition(x),
              byValue |-> IF src \in {"member", "global", "call_result"} THEN HeldByValue(x, class)
                          ELSE Nil]
    ELSE IF Decl[callee].kind \in {"method", "ctor", "dtor"}
         THEN [NoReceiver EXCEPT !.src = "this", !.type = OwnerOf(callee)]
         ELSE NoReceiver

\* call_arg: a row for each argument that is no literal.
Arguments(n, edge, place) ==
    {[edge |-> edge, at |-> place, pos |-> i, src |-> SourceKind(n.args[i]),
      type |-> n.args[i].type,
      byValue |-> IF /\ SourceKind(n.args[i]) \in {"member", "global", "call_result", "local"}
                     /\ n.args[i].type # Nil
                  THEN HeldByValue(n.args[i], n.args[i].type) ELSE Nil] :
        i \in {j \in DOMAIN n.args : SourceKind(n.args[j]) # "literal"}}

WithArguments(d, rows) ==
    LET old == {<<r.edge, r.at, r.pos>> : r \in d.arg}
    IN  [d EXCEPT !.arg = @ \union {r \in rows : <<r.edge, r.at, r.pos>> \notin old}]

\* The `calls` edge with its place, receiver and arguments.
CallTo(d, f, s, n, callee) ==
    WithArguments(AddSite(Edge(d, s, "calls", callee), s, "calls", callee, <<f, n.at>>, n.cond,
                          Receiver(n, callee)),
                  Arguments(n, <<s, "calls", callee>>, <<f, n.at>>))

\* A specialization that is called is an instance of its template, and so is
\* its class; the caller instantiates the template.
Instances(d, s, callee) ==
    LET p == TemplateOf(callee) IN
    IF HasRow(d, p) THEN InstantiationNodes(Edge(d, s, "instantiates", p), callee, p) ELSE d

\* The arguments of a called specialization: as the cursor has them, or, of a
\* method, as the call spells them (_index_method_template_args_from_tokens).
CallArgs(n) ==
    IF Decl[n.ref].args # << >> THEN Decl[n.ref].args
    ELSE IF Decl[n.ref].kind = "method" THEN n.spelled ELSE << >>

\* A resolved call mints its target; a specialization brings its arguments.
Specialized(d, n) ==
    IF TemplateOf(n.ref) = Nil THEN d ELSE TemplateArgs(d, n.ref, CallArgs(n), TRUE)

ResolvedCall(d, f, s, n) ==
    LET minted == MintRow(d, n.ref, TemplateOf(n.ref) # Nil, FALSE)
    IN  Instances(CallTo(Specialized(minted, n), f, s, n, n.ref), s, n.ref)

\* A dependent call with one candidate: the candidate, or the one symbol of its
\* name and kind, or a stub (never of a system header).
RecoveredTarget(d, u) ==
    LET alike == Named(d, Decl[u].name, {Decl[u].kind})
    IN  IF HasRow(d, u) THEN u
        ELSE IF Cardinality(alike) = 1 THEN CHOOSE v \in alike : TRUE
        ELSE IF Decl[u].system THEN Nil ELSE u

RecoveredCall(d, f, s, n, t) ==
    IF t = Nil THEN d ELSE CallTo(IF HasRow(d, t) THEN d ELSE Mint(d, t), f, s, n, t)

\* With several candidates the call goes to each of them.
OverloadedCall(d, f, s, n) ==
    LET own == {u \in Range(n.overloads) : HasRow(d, u) \/ ~Decl[u].system}
        first == n.overloads[1]
        targets == IF own # {} THEN own ELSE Named(d, Decl[first].name, {Decl[first].kind})
    IN  Through(LAMBDA e, u : AddSite(Edge(IF HasRow(e, u) THEN e ELSE Mint(e, u), s, "calls", u),
                                      s, "calls", u, <<f, n.at>>, n.cond, NoReceiver),
                d, SetToSeq(targets))

\* construct-value, -temp, -copy or -move: what the constructor takes
\* (_ctor_form_kind), and whether a variable holds what it makes.
CtorForm(n, callee) ==
    IF Decl[callee].form = "construct_value" /\ n.parent # "variable" THEN "construct_temp"
    ELSE Decl[callee].form

\* A `new` is its own form; make_unique and make_shared construct as well.
Construction(d, s, n, callee) ==
    CASE Decl[callee].kind = "ctor" /\ n.parent # "new" -> Link(d, s, CtorForm(n, callee), n.type)
      [] Decl[callee].form = "factory" /\ Decl[callee].system -> Link(d, s, "factory", n.type)
      [] OTHER -> d

Call(d, f, s, n) ==
    IF n.ref # Nil THEN Construction(ResolvedCall(d, f, s, n), s, n, n.ref)
    ELSE IF Len(n.overloads) = 1 THEN RecoveredCall(d, f, s, n, RecoveredTarget(d, n.overloads[1]))
    ELSE IF Len(n.overloads) > 1 THEN OverloadedCall(d, f, s, n)
    ELSE d

\* A body that holds an instance by value instantiates the template.
HeldInstance(d, s, n) ==
    LET p == TemplateOf(n.type)
    IN  IF n.pointer \/ ~HasRow(d, p) THEN d
        ELSE TemplateArgs(Edge(d, s, "instantiates", p), s, TypeArgs(n.type), FALSE)

\* A local variable: unlike a member's, its instance is minted AFTER the type
\* was looked up.
Local(d, f, s, n) ==
    HeldInstance(MintInstance(TypeUse(d, s, n.type, <<f, n.at>>, n.cond), n.type), s, n)

\* _body_descent, one node of the body of s.
BodyNode(d, f, s, class, n) ==
    CASE n.node = "call"     -> Call(d, f, s, n)
      [] n.node = "new"      -> Link(d, s, "construct_heap", n.type)
      [] n.node = "delete"   -> Link(d, s, "destroy", n.type)
      [] n.node = "ref"      -> IF KindOf(n.ref) \in Functions THEN d
                                ELSE UseAt(d, s, n.ref, <<f, n.at>>, n.cond)
      [] n.node = "type_ref" -> IF n.parent = "declaration" \/ n.ref = class THEN d
                                ELSE TypeUse(d, s, n.ref, <<f, n.at>>, n.cond)
      [] n.node = "local"    -> Local(d, f, s, n)

\* copy_body_edges_to_def_edge: the calls and uses the symbol has now.
CopyBody(d, f, s) ==
    [d EXCEPT !.defEdge = @ \union {<<f, s, e[2], e[3]>> :
        e \in {x \in DOMAIN d.edge : x[1] = s /\ x[2] \in {"calls", "uses"}}}]

Body(d, f, c) ==
    LET owner == OwnerOf(c.usr)
        class == IF KindOf(owner) \in Records \union {"partial"} THEN owner ELSE Nil
        defined == [d EXCEPT !.def = @ \union {<<f, c.usr>>}]
    IN  IF c.kind \in Functions /\ c.def /\ HasRow(d, c.usr)
        THEN CopyBody(Through(LAMBDA e, n : BodyNode(e, f, c.usr, class, n), defined, c.body),
                      f, c.usr)
        ELSE d

\* _emit_namespace_uses: each place a namespace is named, charged to the nearest
\* symbol around it.
NamespaceUses(d, f, c) ==
    LET source == IF c.kind \in Scopes /\ HasRow(d, c.usr) THEN c.usr ELSE c.parent
    IN  IF HasRow(d, source)
        THEN Through(LAMBDA e, i : TypeUse(e, source, c.spaces[i], <<f, c.at, "namespace", i>>, FALSE),
                     d, [i \in DOMAIN c.spaces |-> i])
        ELSE d

\* _index_edges_notxn: its three loops.
Declared(d, f) == Through(LAMBDA e, c : Declaration(e, f, c), d, Cursors[f])
Bodies(d, f) == Through(LAMBDA e, c : Body(e, f, c), d, Cursors[f])
SpacesUsed(d, f) == Through(LAMBDA e, c : NamespaceUses(e, f, c), d, Cursors[f])

Edges(d, f) == SpacesUsed(Bodies(Declared(d, f), f), f)

-----------------------------------------------------------------------------
(* A unit. *)

\* delete_edges_for_file and delete_definitions_for_file.
Wipe(d, f) ==
    LET kept == {e \in DOMAIN d.edge : e[2] = "contains" \/ d.sym[e[1]].file # f} IN
    [d EXCEPT !.edge = [e \in kept |-> d.edge[e]],
              !.site = {r \in @ : r.edge \in kept}, !.arg = {r \in @ : r.edge \in kept},
              !.def = {x \in @ : x[1] # f}, !.defEdge = {x \in @ : x[1] # f}]

Commit(op, f) == [op |-> op, file |-> f]

\* Mutant of Commits: the edges of a header are written with its symbols.
CommitsOnePass(t) ==
    LET headers == SelectSeq(Headers[t], LAMBDA h : h \notin done)
        both(seq, h) == seq \o <<Commit("symbols", h), Commit("edges", h)>>
    IN  <<Commit("symbols", t)>> \o Through(both, << >>, headers)
        \o <<Commit("wipe", t), Commit("edges", t)>>

\* index_source: the unit's symbols, the symbols of the pending headers, their
\* edges, and last the unit's edges.
Commits(t) ==
    LET headers == SelectSeq(Headers[t], LAMBDA h : h \notin done)
        all(op) == [i \in DOMAIN headers |-> Commit(op, headers[i])]
    IN  <<Commit("symbols", t)>> \o all("symbols") \o all("edges")
        \o <<Commit("wipe", t), Commit("edges", t)>>

Committed(d, c) ==
    CASE c.op = "symbols" -> Symbols(d, c.file)
      [] c.op = "wipe" -> Wipe(d, c.file)
      [] c.op = "edges" -> Edges(Wipe(d, c.file), c.file)

After(commits) ==
    /\ db' = Through(Committed, db, commits)
    /\ done' = done \union {c.file : c \in {x \in Range(commits) : x.op = "edges"}}
    /\ rolled' = FALSE

\* The run on t comes to its last commit, or dies after an earlier one.
Index(t, n) ==
    /\ t \notin done
    /\ n = Len(Commits(t)) \/ setbacks < MaxSetbacks
    /\ setbacks' = IF n = Len(Commits(t)) THEN setbacks ELSE setbacks + 1
    /\ After(SubSeq(Commits(t), 1, n))

\* `cidx set pending=true`, or an edit that is taken back before the next run.
Reset(f) ==
    /\ f \in done /\ setbacks < MaxSetbacks
    /\ done' = done \ {f}
    /\ setbacks' = setbacks + 1
    /\ UNCHANGED <<db, rolled>>

\* Mutant of Rollup: only calls are recounted.
RollupCalls ==
    /\ db.edge # << >> /\ ~rolled /\ rolled' = TRUE
    /\ db' = [db EXCEPT !.edge = [e \in DOMAIN @ |->
                LET n == Cardinality({r \in db.site : r.edge = e})
                IN  IF e[2] = "calls" /\ n > 0 THEN n ELSE @[e]]]
    /\ UNCHANGED <<done, setbacks>>

\* rollup_edge_counts: calls and uses with places are recounted.
Rollup ==
    /\ db.edge # << >> /\ ~rolled /\ rolled' = TRUE
    /\ db' = [db EXCEPT !.edge = [e \in DOMAIN @ |->
                LET n == Cardinality({r \in db.site : r.edge = e})
                IN  IF e[2] \in {"calls", "uses"} /\ n > 0 THEN n ELSE @[e]]]
    /\ UNCHANGED <<done, setbacks>>

ExtractionInit == db = NoTables /\ done = {} /\ setbacks = 0 /\ rolled = FALSE

ExtractionNext ==
    \/ \E t \in Units : \E n \in DOMAIN Commits(t) : Index(t, n)
    \/ \E f \in Owned : Reset(f)
    \/ Rollup

-----------------------------------------------------------------------------
(* What the tables say, whatever the order. *)

\* The files that any unit reads together with f.
ReadWith(f) ==
    {g \in Owned : \A t \in Units :
        f \in {t} \union Range(Headers[t]) => g \in {t} \union Range(Headers[t])}

SymbolsOf(files) == Through(Symbols, NoTables, SetToSeq(files))

\* What each file writes when the symbols it can see are there.
Written == [f \in Owned |-> Edges(SymbolsOf(ReadWith(f)), f)]

\* What all files write when every symbol and every instance is there.
Everything == Through(Edges, SymbolsOf(Owned), SetToSeq(Owned) \o SetToSeq(Owned))

\* An indexed file's edges of the symbols that are its own (by file_id), or
\* nobody's, and its `contains` edges are all in the table, whatever was indexed,
\* reset and cut short before; and no edge is there that no file writes
\* (index_headers: "every header symbol is in the DB"; delete_edges_for_file:
\* "contains edges ... survive stale re-indexes").
GraphIsOfTheFiles ==
    /\ \A f \in done : \A e \in DOMAIN Written[f].edge :
          e[2] = "contains" \/ db.sym[e[1]].file \in {f, Nil} => e \in DOMAIN db.edge
    /\ DOMAIN db.edge \subseteq DOMAIN Everything.edge

\* The places of an edge in the text of the files.
Places(e) == {r.at : r \in {x \in Everything.site : x.edge = e}}

\* After a resolve the count of a call or use is a number of places in the
\* text: no repeated indexing and no moved symbol inflates it (add_edge).
CountsArePlaces ==
    rolled => \A e \in DOMAIN db.edge :
                 e[2] \in {"calls", "uses"} => db.edge[e] <= Cardinality(Places(e))
===============================================================================
