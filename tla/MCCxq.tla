-------------------------------- MODULE MCCxq --------------------------------
(***************************************************************************)
(* Names, graphs and queries for cxq: three functions, a hierarchy a <- b,   *)
(* c and b <- d of three classes and a struct, each with a method m.  Every   *)
(* query is asked of every graph; of one graph it is also asked with a limit  *)
(* that bites, and with any one token missing.                                *)
(***************************************************************************)
EXTENDS Cxq

CONSTANTS main, f, g, a, b, c, d, ma, mb, mc, md

Symbol(kind, name, spelling) ==
    [kind |-> <<kind>>, name |-> <<name>>, spelling |-> <<spelling>>,
     is_interface |-> <<"False">>, return_type |-> << >>]

MCAttr ==
    (main :> [Symbol("function", "main", "main") EXCEPT !.return_type = <<"int">>])
    @@ (f :> Symbol("function", "f", "f"))
    @@ (g :> Symbol("function", "ns::g", "g"))
    @@ (a :> [Symbol("class", "A", "A") EXCEPT !.is_interface = <<"True">>])
    @@ (b :> Symbol("class", "B", "B")) @@ (c :> Symbol("class", "C", "C"))
    @@ (d :> Symbol("struct", "D", "D"))
    @@ (ma :> Symbol("method", "A::m", "m")) @@ (mb :> Symbol("method", "B::m", "m"))
    @@ (mc :> Symbol("method", "C::m", "m")) @@ (md :> Symbol("method", "D::m", "m"))

MCDbKind == [s \in Sym |-> MCAttr[s]["kind"][1]]

MCShortest == <<a, b, c, d, f, ma, mb, mc, md, main, g>>

MCPatterns == {"main", "A", "D", "m", "ns", "::m", "zz", ""}

MCPrefixed ==
    [p \in MCPatterns |-> CASE p = "A" -> {a, ma} [] p = "D" -> {d, md}
                            [] p = "m" -> {ma, mb, mc, md, main} [] p = "ns" -> {g}
                            [] p = "main" -> {main} [] p = "" -> Sym [] OTHER -> {}]

MCInfix ==
    [p \in MCPatterns |-> IF p = "zz" THEN {} ELSE IF p = "" THEN Sym
                          ELSE IF p = "::m" THEN {ma, mb, mc, md, main} ELSE MCPrefixed[p]]

MCRegex == [p \in {"m$", "^.$"} |->
               IF p = "m$" THEN {"m", "A::m", "B::m", "C::m", "D::m"}
               ELSE {"m", "f", "g", "A", "B", "C", "D"}]

-----------------------------------------------------------------------------
(* Graphs. *)

Edges3(pairs, kind) == {[src |-> x[1], kind |-> kind, dst |-> x[2]] : x \in pairs}

QueryGraph(calls, inherits) ==
    [edge |-> Edges3(calls, "calls") \union Edges3(inherits, "inherits")
              \union Edges3({<<x[1], m>> : x \in {y \in calls : y[2] = ma}, m \in {mb, mc, md}},
                            "dispatch_calls")
              \union Edges3({<<mb, ma>>, <<mc, ma>>, <<md, mb>>}, "overrides"),
     pure |-> {ma}, stub |-> {}, owner |-> [s \in Sym |-> NoSym]]

Tree == {<<b, a>>, <<c, a>>, <<d, b>>}
Diamond == Tree \union {<<d, c>>}

\* Dispatch; two ways to one callee; recursion, through dispatch as well.
OneGraph == QueryGraph({<<main, f>>, <<f, ma>>, <<mb, g>>}, Tree)

QueryGraphs ==
    {OneGraph,
     QueryGraph({<<main, f>>, <<main, g>>, <<f, mb>>, <<g, mb>>}, Diamond),
     QueryGraph({<<main, f>>, <<f, g>>, <<g, f>>, <<g, ma>>, <<mc, main>>, <<md, md>>}, Diamond)}

-----------------------------------------------------------------------------
(* Queries. *)

V(name) == [var |-> TRUE, name |-> name]
L(name) == [var |-> FALSE, name |-> name]
P(lhs, op, rhs) == [op |-> op, lhs |-> lhs, rhs |-> rhs]
AttrIs(v, attr, cmp, value) ==
    [op |-> "attr", var |-> v, attr |-> attr, cmp |-> cmp, value |-> value]
NotP(p) == [op |-> "not", pred |-> p]
Both(op, p, q) == [op |-> op, left |-> p, right |-> q]

Atoms ==
    {P(V("x"), "calls+", L("m")), P(L("main"), "calls*", V("x")), P(L("m"), "calls+", V("x")),
     P(V("x"), "inherits+", L("A")), P(V("x"), "implements+", L("A")),
     P(L("D"), "inherits+", V("x")), P(L("D"), "inherits*", V("x")),
     AttrIs("x", "name", "~", <<"m$">>), AttrIs("x", "spelling", "in", <<"f", "m">>),
     AttrIs("x", "return_type", "!=", <<"int">>), AttrIs("x", "is_virtual", "=", <<"True">>)}

Senseless ==
    {P(L("A"), "implements+", V("x")), P(L("A"), "calls+", L("D")), P(V("z"), "calls+", V("x")),
     AttrIs("x", "size", "=", <<"1">>)}

TwoVars ==
    {P(V("x"), op, V("y")) : op \in {"calls+", "calls*", "inherits+", "inherits*", "implements+"}}

Some == {P(L("main"), "calls*", V("x")), P(L("D"), "inherits+", V("x")),
         AttrIs("x", "name", "~", <<"m$">>)}

Compound ==
    {Both(op, p, q) : op \in {"and", "or"}, p \in Some \union {NotP(p) : p \in Some}, q \in Some}
    \union {NotP(Both(op, p, q)) : op \in {"and", "or"}, p \in Some, q \in Some}
    \union {Both("and", p, Both(op, p, NotP(q))) : op \in {"and", "or"}, p \in Some, q \in Some}
    \union {Both("or", Both("and", p, q), p) : p \in Some, q \in Some}
    \union {Both(op, p, q) : op \in {"and", "or"}, p \in Some, q \in Senseless}

Kind1(kind) == <<[kind |-> kind, var |-> "x"]>>
Any2 == <<[kind |-> "callable", var |-> "x"], [kind |-> "record", var |-> "y"]>>
Proj(what, v, attr) == [what |-> what, var |-> v, attr |-> attr]
JustX == <<Proj("var", "x", "")>>

MatchOf(bindings, where, select) ==
    [form |-> "match", bindings |-> bindings, where |-> where, select |-> select]

Matches ==
    {MatchOf(Kind1("any"), <<p>>, JustX) :
        p \in Atoms \union {NotP(p) : p \in Atoms} \union Senseless \union Compound}
    \union {MatchOf(Kind1(kind), where, <<Proj("attr", "x", "fqn"), Proj("count", "x", "")>>) :
        kind \in {"function", "class", "interface", "record", "callable", "field"},
        where \in {<< >>, <<P(V("x"), "calls*", L("m"))>>}}
    \union {MatchOf(<<[kind |-> k, var |-> "x"], [kind |-> k, var |-> "y"]>>, <<p>>,
                    <<Proj("var", "x", ""), Proj("attr", "y", "name")>>) :
        k \in {"callable", "record"}, p \in TwoVars \union {NotP(p) : p \in TwoVars}}
    \union {MatchOf(Kind1("class"), << >>, <<proj>>) :
        proj \in {Proj("var", "y", ""), Proj("attr", "x", "size")}}

Ranks ==
    {[form |-> "rank", inner |-> inner, var |-> "x", metric |-> [dir |-> dir, var |-> "x"],
      desc |-> desc, limit |-> limit] :
        inner \in {MatchOf(Kind1("callable"), << >>, JustX),
                   MatchOf(Any2, <<P(L("main"), "calls+", V("x"))>>, JustX)},
        dir \in MetricDirs, desc \in BOOLEAN, limit \in {<< >>, <<2>>}}

Paths ==
    {[form |-> "path", from |-> x, to |-> y, via |-> via] :
        x \in {"main", "A", "ns", "::m", "zz", ""}, y \in {"main", "m", "D", "A"},
        via \in {"calls", "inherits"}}

Queries == Matches \union Ranks \union Paths

Without(text, i) == SubSeq(text, 1, i - 1) \o SubSeq(text, i + 1, Len(text))

Ask(q, text, limit) ==
    cxq = [NoQuery EXCEPT !.stage = "text", !.asked = <<q>>, !.text = text, !.limit = limit]

CxqInit ==
    \E q \in Queries : \E text \in Texts(q) :
       \/ code \in QueryGraphs /\ Ask(q, text, 20)
       \/ code = OneGraph /\ Ask(q, text, 2)
       \/ code = OneGraph /\ \E i \in DOMAIN text : Ask(q, Without(text, i), 20)
=============================================================================
