------------------------------ MODULE CxqParser ------------------------------
(***************************************************************************)
(* The recursive-descent parser of the query language cxq (cxq/parser.py).   *)
(* A text is the sequence of its tokens; a step of the descent takes the      *)
(* tokens and a position and returns a tree and the position after it, or     *)
(* the exception that ends the parse: ParseError, or the IndexError of        *)
(* reading past the last token.                                               *)
(***************************************************************************)
EXTENDS Naturals, Sequences, FiniteSets

\* Tokens.  A quoted string is no keyword, whatever it says.
W(word) == [quoted |-> FALSE, word |-> word]
Q(word) == [quoted |-> TRUE, word |-> word]
Quote == "\""

\* Words with a hyphen are no tokens, the kinds that are spelt so included.
Hyphenated == {"function-template", "class-template"}

\* _KIND_KEYWORDS, without the hyphenated ones; _KEYWORDS leaves two of them out.
KindKeywords ==
    {"function", "method", "class", "struct", "interface", "record", "namespace", "enum",
     "field", "callable", "any", "constructor", "destructor"}

ClosureOps == {"calls+", "calls*", "inherits+", "inherits*", "implements+"}
MetricDirs == {"callers+", "callers", "callees+", "callees"}

Keywords ==
    (KindKeywords \ {"constructor", "destructor"}) \union ClosureOps \union MetricDirs
    \union {"match", "where", "select", "and", "or", "not", "in", "count", "show", "path",
            "from", "to", "via", "rank", "by", "desc", "limit"}

\* int() of the tokens that are numbers.
Number == [word \in {"0", "1", "2"} |-> IF word = "0" THEN 0 ELSE IF word = "1" THEN 1 ELSE 2]

Got(tree, at) == [why |-> "ok", tree |-> tree, at |-> at]
SyntaxError == [why |-> "ParseError", tree |-> << >>, at |-> 0]
PastTheEnd == [why |-> "IndexError", tree |-> << >>, at |-> 0]

Then(result, Next(_)) == IF result.why = "ok" THEN Next(result) ELSE result

\* _tokenize.
Tokenize(text) ==
    IF \E i \in DOMAIN text : ~text[i].quoted /\ text[i].word \in Hyphenated
    THEN SyntaxError ELSE Got(text, 1)

\* _peek: nothing at the end, and a quote for a string.
Peek(t, i) ==
    IF i > Len(t) THEN "" ELSE IF t[i].quoted THEN Quote ELSE t[i].word

\* One token of a fixed form: one of some words, or any; read with _expect
\* (nothing is not what was expected) or with _advance (nothing is an IndexError).
Expected(words) == [any |-> FALSE, of |-> words, advance |-> FALSE]
Advanced(words) == [any |-> FALSE, of |-> words, advance |-> TRUE]
Anything == [any |-> TRUE, of |-> {}, advance |-> TRUE]

\* A fixed form from position i on: _expect and _advance in a row.
Read(t, i, form) ==
    LET at(k) == i + k - 1
        fits(k) == at(k) <= Len(t) /\ (form[k].any \/ Peek(t, at(k)) \in form[k].of)
        bad == {k \in DOMAIN form : ~fits(k)}
        first == CHOOSE k \in bad : \A j \in bad : k <= j
    IN  IF bad = {} THEN Got(SubSeq(t, i, at(Len(form))), at(Len(form)) + 1)
        ELSE IF at(first) > Len(t) /\ form[first].advance THEN PastTheEnd ELSE SyntaxError

-----------------------------------------------------------------------------
(* Conditions. *)

Operand(token) == [var |-> ~token.quoted, name |-> token.word]

\* _parse_closure_pred.
Closure(t, i) ==
    Then(Read(t, i, <<Anything, Anything, Anything>>),
         LAMBDA r : Got([op |-> r.tree[2].word, lhs |-> Operand(r.tree[1]),
                         rhs |-> Operand(r.tree[3])], r.at))

\* _parse_list_value, after the bracket.
RECURSIVE Strings(_, _, _)
Strings(t, i, words) ==
    IF Peek(t, i) = "]" THEN Got(words, i + 1)
    ELSE Then(Read(t, i, <<Anything>>),
              LAMBDA r : Strings(t, IF Peek(t, r.at) = "," THEN r.at + 1 ELSE r.at,
                                 Append(words, r.tree[1].word)))

\* _parse_attr_pred.
Attribute(t, i) ==
    LET cmp == Peek(t, i + 3)
        pred(words) == [op |-> "attr", var |-> t[i].word, attr |-> t[i + 2].word, cmp |-> cmp,
                        value |-> words]
    IN  CASE cmp \in {"=", "!=", "~"} ->
                Then(Read(t, i + 4, <<Anything>>), LAMBDA r : Got(pred(<<r.tree[1].word>>), r.at))
          [] cmp = "in" ->
                Then(Read(t, i + 4, <<Expected({"["})>>),
                     LAMBDA r : Then(Strings(t, r.at, << >>), LAMBDA s : Got(pred(s.tree), s.at)))
          [] OTHER -> SyntaxError

RECURSIVE OrExpr(_, _)
RECURSIVE AndExpr(_, _)
RECURSIVE OrMore(_, _)
RECURSIVE AndMore(_, _)
RECURSIVE NotExpr(_, _)

\* _parse_primary_pred.
Primary(t, i) ==
    CASE Peek(t, i) = "(" ->
            Then(OrExpr(t, i + 1),
                 LAMBDA e : Then(Read(t, e.at, <<Expected({")"})>>), LAMBDA r : Got(e.tree, r.at)))
      [] Peek(t, i) # "(" /\ Peek(t, i + 1) \in ClosureOps -> Closure(t, i)
      [] Peek(t, i) # "(" /\ Peek(t, i + 1) = "." /\ i + 2 <= Len(t) -> Attribute(t, i)
      [] OTHER -> SyntaxError

\* Mutant of NotExpr: `not` takes the whole conjunction that follows.
NotExprOfAnd(t, i) ==
    IF Peek(t, i) = "not"
    THEN Then(AndExpr(t, i + 1), LAMBDA r : Got([op |-> "not", pred |-> r.tree], r.at))
    ELSE Primary(t, i)

\* _parse_not_expr.
NotExpr(t, i) ==
    IF Peek(t, i) = "not"
    THEN Then(NotExpr(t, i + 1), LAMBDA r : Got([op |-> "not", pred |-> r.tree], r.at))
    ELSE Primary(t, i)

\* _parse_and_expr: operands as long as `and` follows, grouped to the left.
AndMore(t, left) ==
    IF left.why # "ok" \/ Peek(t, left.at) # "and" THEN left
    ELSE Then(NotExpr(t, left.at + 1),
              LAMBDA r : AndMore(t, Got([op |-> "and", left |-> left.tree, right |-> r.tree],
                                        r.at)))
AndExpr(t, i) == AndMore(t, NotExpr(t, i))

\* _parse_or_expr.
OrMore(t, left) ==
    IF left.why # "ok" \/ Peek(t, left.at) # "or" THEN left
    ELSE Then(AndExpr(t, left.at + 1),
              LAMBDA r : OrMore(t, Got([op |-> "or", left |-> left.tree, right |-> r.tree], r.at)))
OrExpr(t, i) == OrMore(t, AndExpr(t, i))

-----------------------------------------------------------------------------
(* Queries. *)

\* _parse_one_binding.
Binding(t, i) ==
    IF \/ Peek(t, i) \notin KindKeywords
       \/ i + 1 > Len(t) \/ Peek(t, i + 1) \in Keywords
    THEN SyntaxError
    ELSE Got([kind |-> t[i].word, var |-> t[i + 1].word], i + 2)

\* _parse_bindings: a comma that no kind follows is swallowed.
RECURSIVE BindingList(_, _, _)
BindingList(t, i, bindings) ==
    Then(Binding(t, i),
         LAMBDA r : CASE Peek(t, r.at) # "," -> Got(Append(bindings, r.tree), r.at)
                      [] Peek(t, r.at) = "," /\ Peek(t, r.at + 1) \in KindKeywords ->
                            BindingList(t, r.at + 1, Append(bindings, r.tree))
                      [] OTHER -> Got(Append(bindings, r.tree), r.at + 1))

\* _parse_one_proj.
Projection(t, i) ==
    CASE Peek(t, i) = "count" ->
            Then(Read(t, i, <<Anything, Expected({"("}), Anything, Expected({")"})>>),
                 LAMBDA r : Got([what |-> "count", var |-> r.tree[3].word, attr |-> ""], r.at))
      [] Peek(t, i) # "count" /\ Peek(t, i + 1) = "." ->
            Then(Read(t, i, <<Anything, Anything, Anything>>),
                 LAMBDA r : Got([what |-> "attr", var |-> r.tree[1].word, attr |-> r.tree[3].word],
                                r.at))
      [] OTHER -> Then(Read(t, i, <<Anything>>),
                       LAMBDA r : Got([what |-> "var", var |-> r.tree[1].word, attr |-> ""], r.at))

\* _parse_proj_list.
RECURSIVE Projections(_, _, _)
Projections(t, i, projections) ==
    Then(Projection(t, i),
         LAMBDA r : IF Peek(t, r.at) = ","
                    THEN Projections(t, r.at + 1, Append(projections, r.tree))
                    ELSE Got(Append(projections, r.tree), r.at))

\* _parse_match_query.
Match(t, i) ==
    LET selected(bindings, where, at) ==
            Then(Read(t, at, <<Expected({"select"})>>),
                 LAMBDA r : Then(Projections(t, r.at, << >>),
                                 LAMBDA p : Got([form |-> "match", bindings |-> bindings,
                                                 where |-> where, select |-> p.tree], p.at)))
    IN  Then(Read(t, i, <<Expected({"match"})>>),
             LAMBDA m : Then(BindingList(t, m.at, << >>),
                LAMBDA b : IF Peek(t, b.at) = "where"
                           THEN Then(OrExpr(t, b.at + 1),
                                     LAMBDA e : selected(b.tree, <<e.tree>>, e.at))
                           ELSE selected(b.tree, << >>, b.at)))

\* _parse_metric.
Metric(t, i) ==
    Then(Read(t, i, <<Advanced({"count"}), Expected({"("}), Advanced(MetricDirs), Anything,
                      Expected({")"})>>),
         LAMBDA r : Got([dir |-> r.tree[3].word, var |-> r.tree[4].word], r.at))

\* _finish_rank.
FinishRank(t, i, var, inner) ==
    LET ranked(metric, desc, at) ==
            LET query(limit) == [form |-> "rank", inner |-> inner, var |-> var, metric |-> metric,
                                 desc |-> desc, limit |-> limit]
            IN  IF Peek(t, at) # "limit" THEN Got(query(<< >>), at)
                ELSE Then(Read(t, at + 1, <<Advanced(DOMAIN Number)>>),
                          LAMBDA r : Got(query(<<Number[r.tree[1].word]>>), r.at))
    IN  Then(Read(t, i, <<Expected({"by"})>>),
             LAMBDA b : Then(Metric(t, b.at),
                LAMBDA m : IF Peek(t, m.at) = "desc" THEN ranked(m.tree, TRUE, m.at + 1)
                           ELSE ranked(m.tree, FALSE, m.at)))

\* _parse_rank_prefix and _parse_rank_postfix.
RankPrefix(t) ==
    Then(Read(t, 1, <<Expected({"rank"}), Anything, Expected({"in"})>>),
         LAMBDA r : Then(Match(t, r.at), LAMBDA m : FinishRank(t, m.at, r.tree[2].word, m.tree)))
RankPostfix(t, match) ==
    Then(Read(t, match.at, <<Expected({"rank"}), Anything>>),
         LAMBDA r : FinishRank(t, r.at, r.tree[2].word, match.tree))

\* _parse_path_query.
PathQuery(t) ==
    Then(Read(t, 1, <<Expected({"show"}), Expected({"path"}), Expected({"from"}),
                      Advanced({Quote}), Expected({"to"}), Advanced({Quote}), Expected({"via"}),
                      Advanced({"calls", "inherits"})>>),
         LAMBDA r : Got([form |-> "path", from |-> r.tree[4].word, to |-> r.tree[6].word,
                         via |-> r.tree[8].word], r.at))

\* parse_query.
ParseQuery(t) ==
    LET body == CASE Peek(t, 1) = "show" -> PathQuery(t)
                  [] Peek(t, 1) = "rank" -> RankPrefix(t)
                  [] OTHER -> Then(Match(t, 1), LAMBDA m : IF Peek(t, m.at) = "rank"
                                                           THEN RankPostfix(t, m) ELSE m)
    IN  Then(body, LAMBDA r : IF r.at <= Len(t) THEN SyntaxError ELSE r)

\* parse.
Parse(text) == Then(Tokenize(text), LAMBDA r : ParseQuery(r.tree))

-----------------------------------------------------------------------------
(* The text of a query, with as few parentheses as the grammar in the         *)
(* docstring of parser.py allows.                                             *)

OperandText(operand) == IF operand.var THEN W(operand.name) ELSE Q(operand.name)

CommaList(seqs) ==
    LET upTo[n \in Nat] ==
            IF n = 0 THEN << >> ELSE IF n = 1 THEN seqs[1] ELSE upTo[n - 1] \o <<W(",")>> \o seqs[n]
    IN  upTo[Len(seqs)]

\* Around or_expr 1, and_expr 2, not_expr 3.
RECURSIVE Clause(_, _)
Clause(p, around) ==
    LET inner == CASE p.op = "or" -> Clause(p.left, 1) \o <<W("or")>> \o Clause(p.right, 2)
                   [] p.op = "and" -> Clause(p.left, 2) \o <<W("and")>> \o Clause(p.right, 3)
                   [] p.op = "not" -> <<W("not")>> \o Clause(p.pred, 3)
                   [] p.op = "attr" -> <<W(p.var), W("."), W(p.attr), W(p.cmp)>> \o
                         (IF p.cmp = "in"
                          THEN <<W("[")>> \o CommaList([i \in DOMAIN p.value |-> <<Q(p.value[i])>>])
                               \o <<W("]")>>
                          ELSE <<Q(p.value[1])>>)
                   [] OTHER -> <<OperandText(p.lhs), W(p.op), OperandText(p.rhs)>>
    IN  IF (p.op = "or" /\ around > 1) \/ (p.op = "and" /\ around > 2)
        THEN <<W("(")>> \o inner \o <<W(")")>> ELSE inner

\* A metric and what follows it.
Metrics(q) ==
    <<W("by"), W("count"), W("("), W(q.metric.dir), W(q.metric.var), W(")")>>
    \o (IF q.desc THEN <<W("desc")>> ELSE << >>)
    \o (IF q.limit = << >> THEN << >>
        ELSE <<W("limit"), W(CHOOSE w \in DOMAIN Number : Number[w] = q.limit[1])>>)

Selected(s) ==
    CASE s.what = "var" -> <<W(s.var)>>
      [] s.what = "attr" -> <<W(s.var), W("."), W(s.attr)>>
      [] s.what = "count" -> <<W("count"), W("("), W(s.var), W(")")>>

MatchText(q) ==
    <<W("match")>>
    \o CommaList([i \in DOMAIN q.bindings |-> <<W(q.bindings[i].kind), W(q.bindings[i].var)>>])
    \o (IF q.where = << >> THEN << >> ELSE <<W("where")>> \o Clause(q.where[1], 1))
    \o <<W("select")>> \o CommaList([i \in DOMAIN q.select |-> Selected(q.select[i])])

TextOf(q) ==
    CASE q.form = "path" ->
            <<W("show"), W("path"), W("from"), Q(q.from), W("to"), Q(q.to), W("via"), W(q.via)>>
      [] q.form = "rank" -> <<W("rank"), W(q.var), W("in")>> \o MatchText(q.inner) \o Metrics(q)
      [] q.form = "match" -> MatchText(q)

\* The other form of a rank.
RankedAfter(q) == MatchText(q.inner) \o <<W("rank"), W(q.var)>> \o Metrics(q)
===============================================================================
