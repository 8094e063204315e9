--------------------------------- MODULE Cxq ---------------------------------
(***************************************************************************)
(* A cxq query from its text to its rows (cxq/__main__.py, cxq/executor.py):  *)
(* it is parsed by CxqParser and executed over the graph `code` of SymbolGraph *)
(* through the typed model.  The rows of a match are functions from           *)
(* projections to values.  The fan-out limits of 200 and 500 rows per node    *)
(* are left out.                                                              *)
(***************************************************************************)
EXTENDS CallGraph, CxqParser, SequencesExt

CONSTANTS DbKind, \* the kind of each symbol, as the index spells it
          Shortest, \* the symbols, shortest name first
          Attr, \* the attributes of each symbol: << >> is None, <<v>> is v
          Prefixed, \* the symbols whose name or spelling begins with a pattern ...
          Infix, \* ... and those whose name has its segments in order
          Regex \* the values that a regular expression occurs in

VARIABLE cxq \* [stage, text, asked, limit, tree, rows]

cxqVars == <<cxq>>

CallableKinds == {"function", "method", "constructor", "destructor", "function-template"}
IsCallable(s) == DbKind[s] \in CallableKinds

First(n, s) == SubSeq(s, 1, IF n < Len(s) THEN n ELSE Len(s))

-----------------------------------------------------------------------------
(* The model's part: names, kinds, attributes. *)

NamedBy(s, name) == <<name>> \in {Attr[s]["name"], Attr[s]["spelling"]}

\* GraphQuery.find: the exact names, else those with the prefix, else any infix.
Find(pattern, limit) ==
    LET tiers == <<{s \in Sym : NamedBy(s, pattern)}, Prefixed[pattern], Infix[pattern]>>
        hit == CHOOSE i \in 1..3 : /\ i = 3 \/ tiers[i] # {}
                                   /\ \A j \in 1..(i - 1) : tiers[j] = {}
    IN  First(limit, SelectSeq(Shortest, LAMBDA s : s \in tiers[hit]))

OfKind(kind, limit) == First(limit, SelectSeq(Shortest, LAMBDA s : DbKind[s] = kind))

\* _entities_for_kind: the limit is one per kind of the index.
EntitiesForKind(kind, limit) ==
    LET each(kinds) == FlattenSeq([i \in DOMAIN kinds |-> OfKind(kinds[i], limit)])
    IN  CASE kind = "interface" ->
                SelectSeq(OfKind("class", limit), LAMBDA s : Attr[s]["is_interface"] = <<"True">>)
          [] kind = "record" -> each(<<"class", "struct", "union">>)
          [] kind = "callable" ->
                each(<<"function", "method", "constructor", "destructor", "function-template">>)
          [] kind = "any" ->
                each(<<"function", "method", "class", "struct", "enum", "namespace">>)
          [] kind = "field" -> OfKind("member", limit)
          [] OTHER -> OfKind(kind, limit)

Truth(holds) == <<IF holds THEN "True" ELSE "False">>

\* _get_attr; an attribute nothing has is an ExecutorError.
HasAttr(s, attr) == attr \in DOMAIN Attr[s] \union {"fqn", "is_virtual", "is_pure"}
GetAttr(s, attr) ==
    CASE attr = "fqn" -> Attr[s]["name"]
      [] attr = "is_virtual" -> Truth(DbKind[s] = "method" /\ IsVirtual(code, s))
      [] attr = "is_pure" -> Truth(s \in code.pure)
      [] OTHER -> Attr[s][attr]

\* _attr_matches: None differs from everything.
AttrMatches(s, p) ==
    LET value == GetAttr(s, p.attr)
    IN  IF value = << >> THEN p.cmp = "!="
        ELSE CASE p.cmp = "=" -> value[1] = p.value[1]
               [] p.cmp = "!=" -> value[1] # p.value[1]
               [] p.cmp = "~" -> value[1] \in Regex[p.value[1]]
               [] p.cmp = "in" -> value[1] \in Range(p.value)

-----------------------------------------------------------------------------
(* Closures. *)

Itself(s, reflexive) == IF reflexive THEN {s} ELSE {}

\* _calls_closure: what Callable.callgraph surfaces, never its root.
CallsClosure(s, reflexive) ==
    Itself(s, reflexive) \union
    IF IsCallable(s) THEN Reach(LAMBDA x : Callees(code, x), s) \ {s} ELSE {}

\* _callers_closure, which is only asked without `reflexive`: a frontier of callers.
CallersClosure(s) ==
    LET grow[visited \in SUBSET Sym, frontier \in SUBSET Sym] ==
            LET next == (UNION {Callers(code, x) : x \in frontier}) \ visited
            IN  IF next = {} THEN visited ELSE grow[visited \union next, next]
    IN  IF IsCallable(s) THEN grow[{}, {s}] ELSE {}

\* Record.children and Record.parents: subclasses at any depth, but direct bases.
Children(s) == AllSubclasses(code, s)
Parents(s) == Bases(code, s)

\* _inherits_closure.
RECURSIVE InheritsClosure(_, _)
InheritsClosure(s, reflexive) ==
    Itself(s, reflexive) \union Children(s)
    \union UNION {InheritsClosure(child, FALSE) : child \in Children(s)}

\* Mutant of AncestorsClosure: parents are taken to be all of them, as children are.
AncestorsClosureOneHop(s, reflexive) == Itself(s, reflexive) \union Parents(s)

\* _ancestors_closure.
RECURSIVE AncestorsClosure(_, _)
AncestorsClosure(s, reflexive) ==
    Itself(s, reflexive) \union Parents(s)
    \union UNION {AncestorsClosure(parent, FALSE) : parent \in Parents(s)}

-----------------------------------------------------------------------------
(* Conditions: "yes", "no" or the exception. *)

Verdict(holds) == IF holds THEN "yes" ELSE "no"

ClosureUnsupported(p) ==
    \/ ~p.lhs.var /\ ~p.rhs.var
    \/ ~p.lhs.var /\ p.op = "implements+"

\* _eval_closure_pred, its operands bound.
ClosureHolds(p, row) ==
    LET reflexive == p.op \in {"calls*", "inherits*", "implements+"}
        meant(operand) == IF operand.var THEN {row[operand.name]} ELSE Range(Find(operand.name, 20))
    IN  CASE p.op \in {"calls+", "calls*"} ->
                \E l \in meant(p.lhs) : \E s \in CallsClosure(l, reflexive) :
                   IF p.rhs.var THEN s = row[p.rhs.name] ELSE NamedBy(s, p.rhs.name)
          [] p.op \notin {"calls+", "calls*"} /\ p.lhs.var ->
                \E base \in meant(p.rhs) : row[p.lhs.name] \in InheritsClosure(base, reflexive)
          [] OTHER ->
                \E child \in meant(p.lhs) : row[p.rhs.name] \in AncestorsClosure(child, reflexive)

\* _eval_pred: `and` and `or` stop at the operand that decides.
RECURSIVE EvalPred(_, _)
EvalPred(p, row) ==
    CASE p.op = "attr" ->
            IF p.var \notin DOMAIN row \/ ~HasAttr(row[p.var], p.attr) THEN "error"
            ELSE Verdict(AttrMatches(row[p.var], p))
      [] p.op = "not" -> LET v == EvalPred(p.pred, row)
                         IN  IF v = "error" THEN v ELSE Verdict(v = "no")
      [] p.op = "and" -> LET v == EvalPred(p.left, row)
                         IN  IF v = "yes" THEN EvalPred(p.right, row) ELSE v
      [] p.op = "or" -> LET v == EvalPred(p.left, row)
                        IN  IF v = "no" THEN EvalPred(p.right, row) ELSE v
      [] OTHER ->
            IF \/ \E operand \in {p.lhs, p.rhs} : operand.var /\ operand.name \notin DOMAIN row
               \/ ClosureUnsupported(p)
            THEN "error" ELSE Verdict(ClosureHolds(p, row))

-----------------------------------------------------------------------------
(* Matches. *)

Failed == [stage |-> "failed", rows |-> << >>]
Answered(rows) == [stage |-> "answered", rows |-> rows]

\* The candidates of each variable; a variable bound twice has those of its last kind.
Candidates(q, limit) ==
    [v \in {b.var : b \in Range(q.bindings)} |->
        LET last == CHOOSE i \in DOMAIN q.bindings :
                       /\ q.bindings[i].var = v
                       /\ \A j \in DOMAIN q.bindings : q.bindings[j].var = v => j <= i
        IN  EntitiesForKind(q.bindings[last].kind, limit)]

\* _cartesian: an entity for each binding in turn, over the rows so far.
Cartesian(q, limit) ==
    LET lists == Candidates(q, limit)
        extend(rows, v) ==
            FlattenSeq([i \in DOMAIN rows |->
                [j \in DOMAIN lists[v] |-> (v :> lists[v][j]) @@ rows[i]]])
    IN  FoldLeft(LAMBDA rows, b : extend(rows, b.var), <<<< >>>>, q.bindings)

Conditioned(q, row) == IF q.where = << >> THEN "yes" ELSE EvalPred(q.where[1], row)

\* _project.  The count is 1 on every row.
Project(row, select) ==
    [proj \in Range(select) |->
        CASE proj.what = "var" -> <<row[proj.var]>>
          [] proj.what = "attr" -> GetAttr(row[proj.var], proj.attr)
          [] proj.what = "count" -> <<1>>]

\* A row that cannot be projected: a KeyError or an ExecutorError.
Unprojectable(row, select) ==
    \E proj \in Range(select) :
       /\ proj.what # "count"
       /\ proj.var \notin DOMAIN row \/ (proj.what = "attr" /\ ~HasAttr(row[proj.var], proj.attr))

Verdicts(q, rows) == [i \in DOMAIN rows |-> Conditioned(q, rows[i])]

Satisfying(rows, verdict) ==
    FoldLeftDomain(LAMBDA all, i : IF verdict[i] = "yes" THEN Append(all, rows[i]) ELSE all,
                   << >>, rows)

MatchAnswer(q, rows, verdict) ==
    IF \E i \in DOMAIN rows : \/ verdict[i] = "error"
                              \/ verdict[i] = "yes" /\ Unprojectable(rows[i], q.select)
    THEN Failed
    ELSE Answered([i \in DOMAIN Satisfying(rows, verdict) |->
                      Project(Satisfying(rows, verdict)[i], q.select)])

\* _execute_match.
ExecuteMatch(q, limit) ==
    LET rows == Cartesian(q, limit) IN MatchAnswer(q, rows, Verdicts(q, rows))

-----------------------------------------------------------------------------
(* Ranks and paths. *)

\* _compute_metric.
ComputeMetric(s, dir) ==
    CASE dir = "callers+" -> Cardinality(CallersClosure(s))
      [] dir = "callers" -> IF IsCallable(s) THEN Cardinality(Callers(code, s)) ELSE 0
      [] dir = "callees+" -> Cardinality(CallsClosure(s, FALSE))
      [] dir = "callees" -> IF IsCallable(s) THEN Cardinality(Callees(code, s)) ELSE 0

\* _execute_match_entities: each entity that rank_var takes on a matching row, once.
Ranked(var, rows) ==
    FoldLeft(LAMBDA all, row : IF var \notin DOMAIN row \/ row[var] \in Range(all) THEN all
                               ELSE Append(all, row[var]),
             << >>, rows)

\* A stable sort, in either direction.
ByScore(entities, score, desc) ==
    LET before(i, j) == \/ (IF desc THEN score[i] > score[j] ELSE score[i] < score[j])
                        \/ score[i] = score[j] /\ i < j
        order == SortSeq([i \in DOMAIN entities |-> i], before)
    IN  [i \in DOMAIN order |-> [sym |-> entities[order[i]], score |-> score[order[i]]]]

RankAnswer(q, rows, verdict) ==
    LET entities == Ranked(q.var, Satisfying(rows, verdict))
        sorted == ByScore(entities,
                          [i \in DOMAIN entities |-> ComputeMetric(entities[i], q.metric.dir)],
                          q.desc)
    IN  IF "error" \in Range(verdict) THEN Failed
        ELSE Answered(IF q.limit = << >> THEN sorted ELSE First(q.limit[1], sorted))

\* execute_rank.  Whose metric it is goes unread.
ExecuteRank(q, limit) ==
    LET rows == Cartesian(q.inner, limit) IN RankAnswer(q, rows, Verdicts(q.inner, rows))

\* _edge_neighbors.
EdgeNeighbors(s, via) ==
    IF via = "calls" THEN (IF IsCallable(s) THEN Callees(code, s) ELSE {}) ELSE Children(s)

\* _bfs_path: level by level; which of the paths to a node comes first is up to the
\* order of its neighbours.
BfsPaths(src, dst, via) ==
    LET grow[paths \in SUBSET Seq(Sym), visited \in SUBSET Sym] ==
            LET there == {p \in paths : Last(p) = dst}
                longer == UNION {{Append(p, s) : s \in EdgeNeighbors(Last(p), via) \ visited} :
                                    p \in paths}
            IN  IF paths = {} \/ there # {} THEN there
                ELSE grow[longer, visited \union {Last(p) : p \in longer}]
    IN  grow[{<<src>>}, {src}]

\* execute_path: the first pair of the entities found that has a path.
ExecutePath(q) ==
    LET src == Find(q.from, 10)
        dst == Find(q.to, 10)
        pairs == FlattenSeq([i \in DOMAIN src |-> [j \in DOMAIN dst |-> <<src[i], dst[j]>>]])
        linked == SelectSeq(pairs, LAMBDA x : BfsPaths(x[1], x[2], q.via) # {})
    IN  IF src = << >> \/ dst = << >> THEN {Failed}
        ELSE IF linked = << >> THEN {Answered(<< >>)}
        ELSE {Answered(<<p>>) : p \in BfsPaths(linked[1][1], linked[1][2], q.via)}

-----------------------------------------------------------------------------
(* The command. *)

NoQuery == [stage |-> "none", text |-> << >>, asked |-> << >>, limit |-> 0, tree |-> << >>,
            rows |-> << >>]

\* parse: an IndexError is not caught.
ParseText ==
    /\ cxq.stage = "text"
    /\ LET r == Parse(cxq.text)
       IN  cxq' = [cxq EXCEPT !.tree = r.tree,
                              !.stage = CASE r.why = "ok" -> "parsed"
                                          [] r.why = "ParseError" -> "rejected"
                                          [] OTHER -> "crashed"]

\* execute.
Outcomes(q, limit) ==
    CASE q.form = "path" -> ExecutePath(q)
      [] q.form = "rank" -> {ExecuteRank(q, limit)}
      [] q.form = "match" -> {ExecuteMatch(q, limit)}

Execute ==
    /\ cxq.stage = "parsed"
    /\ \E o \in Outcomes(cxq.tree, cxq.limit) :
          cxq' = [cxq EXCEPT !.stage = o.stage, !.rows = o.rows]

CxqNext == ParseText \/ Execute

-----------------------------------------------------------------------------
(* What a query means, without the search that answers it. *)

\* All pairs linked by one or more pairs of R: by way of no symbol, of the first, of the
\* first two ...
Closed(R) ==
    LET via[n \in Nat] ==
            IF n = 0 THEN R
            ELSE LET S == via[n - 1]
                     s == Shortest[n]
                 IN  S \union ({x \in Sym : <<x, s>> \in S} \X {y \in Sym : <<s, y>> \in S})
    IN  via[Len(Shortest)]

CallPairs == {x \in Sym \X Sym : IsCallable(x[1]) /\ x[2] \in Callees(code, x[1])}
BasePairs == {x \in Sym \X Sym : x[2] \in Bases(code, x[1])}

Meaning == [call |-> CallPairs, calls |-> Closed(CallPairs), bases |-> Closed(BasePairs)]

IsOfKind(s, kind) ==
    CASE kind = "interface" -> DbKind[s] = "class" /\ Attr[s]["is_interface"] = <<"True">>
      [] kind = "record" -> DbKind[s] \in {"class", "struct", "union"}
      [] kind = "callable" -> IsCallable(s)
      [] kind = "any" ->
            DbKind[s] \in {"function", "method", "class", "struct", "enum", "namespace"}
      [] kind = "field" -> DbKind[s] = "member"
      [] OTHER -> DbKind[s] = kind

\* A name stands for what is found by it; as a callee, for the symbols of just that name.
Stands(operand, row, exactly) ==
    IF operand.var THEN {row[operand.name]}
    ELSE IF exactly THEN {s \in Sym : NamedBy(s, operand.name)}
    ELSE Range(Find(operand.name, Cardinality(Sym)))

Holds(op, l, r, m) ==
    CASE op = "calls+" -> <<l, r>> \in m.calls /\ l # r
      [] op = "calls*" -> <<l, r>> \in m.calls \/ l = r
      [] op = "inherits+" -> <<l, r>> \in m.bases
      [] op \in {"inherits*", "implements+"} -> <<l, r>> \in m.bases \/ l = r

RECURSIVE Means(_, _, _)
Means(p, row, m) ==
    CASE p.op = "and" -> Means(p.left, row, m) /\ Means(p.right, row, m)
      [] p.op = "or" -> Means(p.left, row, m) \/ Means(p.right, row, m)
      [] p.op = "not" -> ~Means(p.pred, row, m)
      [] p.op = "attr" -> AttrMatches(row[p.var], p)
      [] OTHER -> \E l \in Stands(p.lhs, row, FALSE),
                     r \in Stands(p.rhs, row, p.op \in {"calls+", "calls*"}) :
                     Holds(p.op, l, r, m)

\* Every variable is bound, every attribute known, every form supported.
RECURSIVE Sensible(_, _)
Sensible(p, vars) ==
    CASE p.op \in {"and", "or"} -> Sensible(p.left, vars) /\ Sensible(p.right, vars)
      [] p.op = "not" -> Sensible(p.pred, vars)
      [] p.op = "attr" -> p.var \in vars /\ \A s \in Sym : HasAttr(s, p.attr)
      [] OTHER -> /\ {o.name : o \in {x \in {p.lhs, p.rhs} : x.var}} \subseteq vars
                  /\ ~ClosureUnsupported(p)

VarsOf(q) == {b.var : b \in Range(q.bindings)}

SensibleMatch(q) ==
    /\ q.where = << >> \/ Sensible(q.where[1], VarsOf(q))
    /\ \A proj \in Range(q.select) :
          /\ proj.var \in VarsOf(q)
          /\ proj.what = "attr" => \A s \in Sym : HasAttr(s, proj.attr)

SensibleQuery(q) ==
    CASE q.form = "match" -> SensibleMatch(q)
      [] q.form = "rank" -> SensibleMatch(q.inner)
      [] q.form = "path" -> Find(q.from, 1) # << >> /\ Find(q.to, 1) # << >>

\* The limit leaves some entity of some kind out.
Cut(q, limit) ==
    \E b \in Range(q.bindings) :
       \E kind \in {DbKind[s] : s \in Sym} :
          Cardinality({s \in Sym : DbKind[s] = kind /\ IsOfKind(s, b.kind)}) > limit

\* The assignments that satisfy the condition.
Solutions(q, m) ==
    {row \in [VarsOf(q) -> Sym] :
        /\ \A b \in Range(q.bindings) : IsOfKind(row[b.var], b.kind)
        /\ q.where = << >> \/ Means(q.where[1], row, m)}

MatchIsExact(q, m) ==
    LET shown == SelectSeq(q.select, LAMBDA proj : proj.what # "count")
        row(i) == [proj \in Range(shown) |-> cxq.rows[i][proj]]
        solutions == Solutions(q, m)
    IN  /\ {row(i) : i \in DOMAIN cxq.rows} \subseteq {Project(x, shown) : x \in solutions}
        /\ ~Cut(q, cxq.limit) =>
              /\ {Project(x, shown) : x \in solutions} \subseteq {row(i) : i \in DOMAIN cxq.rows}
              /\ Len(cxq.rows) = Cardinality(solutions)

TrueScore(s, dir, m) ==
    CASE dir = "callers" -> Cardinality({x \in Sym : <<x, s>> \in m.call})
      [] dir = "callers+" -> Cardinality({x \in Sym : <<x, s>> \in m.calls})
      [] dir = "callees" -> Cardinality({x \in Sym : <<s, x>> \in m.call})
      [] dir = "callees+" -> Cardinality({x \in Sym \ {s} : <<s, x>> \in m.calls})

RankIsExact(q, m) ==
    LET shown == {r.sym : r \in Range(cxq.rows)}
        ranked == {x[q.var] : x \in Solutions(q.inner, m)}
        better(n, k) == IF q.desc THEN n > k ELSE n < k
        score == [s \in ranked |-> TrueScore(s, q.metric.dir, m)]
    IN  /\ Cardinality(shown) = Len(cxq.rows) /\ shown \subseteq ranked
        /\ \A i \in DOMAIN cxq.rows : cxq.rows[i].score = score[cxq.rows[i].sym]
        /\ \A i, j \in DOMAIN cxq.rows : i < j => ~better(cxq.rows[j].score, cxq.rows[i].score)
        /\ ~Cut(q.inner, cxq.limit) =>
              /\ \A s \in ranked \ shown, i \in DOMAIN cxq.rows :
                    ~better(score[s], cxq.rows[i].score)
              /\ shown # ranked => q.limit = <<Len(cxq.rows)>>

PathIsShortest(q, m) ==
    LET steps == IF q.via = "calls" THEN m.call ELSE {<<x[2], x[1]>> : x \in m.bases}
        linked == Closed(steps) \union {<<s, s>> : s \in Sym}
        pairs == Range(Find(q.from, 10)) \X Range(Find(q.to, 10))
        after[n \in Nat] ==
            IF n = 0 THEN {<<s, s>> : s \in Sym}
            ELSE UNION {{<<x[1], y[2]>> : y \in {z \in steps : z[1] = x[2]}} : x \in after[n - 1]}
    IN  /\ (cxq.rows = << >>) = (pairs \intersect linked = {})
        /\ cxq.rows # << >> =>
              LET path == cxq.rows[1]
                  ends == <<path[1], Last(path)>>
              IN  /\ ends \in pairs
                  /\ \A i \in 1..(Len(path) - 1) : <<path[i], path[i + 1]>> \in steps
                  /\ \A n \in 0..(Len(path) - 2) : ends \notin after[n]

-----------------------------------------------------------------------------

Accepted == cxq.stage \in {"parsed", "answered", "failed"}

\* A rank may also be written after its match.
Texts(q) == {TextOf(q)} \union IF q.form = "rank" THEN {RankedAfter(q)} ELSE {}

Words(text) == SelectSeq(text, LAMBDA token : token \notin {W(","), W("("), W(")")})

\* Parsing undoes writing, for operators of every precedence; and of a text that has lost a
\* token nothing is accepted but the query that has its words, in that order.  (A list takes
\* any token for a string, commas too: texts that lost a token of one are left out.)
ParsedAsWritten ==
    /\ cxq.stage # "text" /\ cxq.asked # << >> /\ cxq.text \in Texts(cxq.asked[1]) =>
          Accepted /\ cxq.tree = cxq.asked[1]
    /\ Accepted /\ W("[") \notin Range(cxq.text) =>
          Words(cxq.text) \in {Words(text) : text \in Texts(cxq.tree)}

\* The answer is the set of assignments that satisfy the condition, as the transitive
\* closure of calls and bases has it; a rank gives the best with their true scores, a path
\* is shortest and missing only where there is none; only a query without sense fails.
AnswersAreExact ==
    /\ cxq.stage = "failed" => ~SensibleQuery(cxq.tree)
    /\ cxq.stage = "answered" /\ SensibleQuery(cxq.tree) =>
          CASE cxq.tree.form = "match" -> MatchIsExact(cxq.tree, Meaning)
            [] cxq.tree.form = "rank" -> RankIsExact(cxq.tree, Meaning)
            [] cxq.tree.form = "path" -> PathIsShortest(cxq.tree, Meaning)
=============================================================================
