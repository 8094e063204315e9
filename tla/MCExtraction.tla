----------------------------- MODULE MCExtraction -----------------------------
(***************************************************************************)
(* A small code base for Extraction: three units, a header that includes      *)
(* another, classes with bases, overrides, friends and static members, a       *)
(* class template with every kind of instance, overloads and a system header.  *)
(***************************************************************************)
EXTENDS Extraction

\* What libclang says of a symbol.
U(kind, name, owner) ==
    [kind |-> kind, name |-> name, owner |-> owner, template |-> Nil, args |-> << >>,
     system |-> FALSE, form |-> "none"]
Of(u, template, args) == [u EXCEPT !.template = template, !.args = args]
System(u) == [u EXCEPT !.system = TRUE]
Ctor(name, owner, form) == [U("ctor", name, owner) EXCEPT !.form = form]
\* A type argument whose spelling names one type, or none, in full and by its tail.
TypeArg(u, text, types) ==
    [kind |-> "type", decl |-> u, text |-> text, names |-> <<types, types>>]
Integral == [kind |-> "value", decl |-> Nil, text |-> "3", names |-> << >>]

MCDecl ==
    ("N" :> U("namespace", "N", Nil)) @@ ("M" :> U("namespace", "M", Nil))
    @@ ("B" :> U("class", "N::B", "N")) @@ ("B()" :> Ctor("N::B::B", "B", "construct_value"))
    @@ ("B(B&)" :> Ctor("N::B::B", "B", "construct_copy"))
    @@ ("Base" :> U("struct", "N::Base", "N")) @@ ("Base::run" :> U("method", "N::Base::run", "Base"))
    @@ ("Num" :> U("alias", "N::Base::Num", "Base"))
    @@ ("Box" :> U("class_template", "N::Box", "N")) @@ ("Box::get" :> U("method", "N::Box::get", "Box"))
    @@ ("Box<B>" :> Of(U("struct", "N::Box", "N"), "Box", <<TypeArg("B", "B", {"B"})>>))
    @@ ("Box<A>" :> Of(U("struct", "N::Box", "N"), "Box", <<TypeArg("A", "A", {"A"})>>))
    @@ ("Box<F>" :> Of(U("struct", "N::Box", "N"), "Box", <<TypeArg(Nil, "F", {"F"})>>))
    @@ ("Box<int>" :> Of(U("struct", "N::Box", "N"), "Box", <<TypeArg(Nil, "int", {}), Integral>>))
    @@ ("Box<bool>" :> Of(U("class", "N::Box", "N"), "Box", <<TypeArg(Nil, "bool", {})>>))
    @@ ("Box<B>::get" :> Of(U("method", "N::Box::get", "Box<B>"), "Box::get", << >>))
    @@ ("Box<T*>" :> Of(U("partial", "N::Box", "N"), "Box", << >>))
    @@ ("put" :> U("function_template", "N::B::put", "B"))
    @@ ("put<A>" :> Of(U("method", "N::B::put", "B"), "put", << >>))
    @@ ("pick" :> U("function_template", "N::pick", "N"))
    @@ ("pick2" :> U("function_template", "N::pick", "N"))
    @@ ("near" :> U("function_template", "N::near", "N"))
    @@ ("near2" :> U("function_template", "N::near", "N"))
    @@ ("far" :> U("function", "far", Nil))
    @@ ("A" :> U("class", "N::A", "N")) @@ ("F" :> U("class", "N::F", "N"))
    @@ ("A::b" :> U("field", "N::A::b", "A")) @@ ("A::box" :> U("field", "N::A::box", "A"))
    @@ ("A::run" :> U("method", "N::A::run", "A")) @@ ("A::s" :> U("variable", "N::A::s", "A"))
    @@ ("make" :> U("function", "N::make", "N")) @@ ("tmpl" :> U("function_template", "tmpl", Nil))
    @@ ("main" :> U("function", "main", Nil)) @@ ("BA" :> U("alias", "BA", Nil))
    @@ ("Here" :> U("struct", "Here", "make"))
    @@ ("std::move" :> System(U("function_template", "std::move", Nil)))
    @@ ("make_unique" :> [System(U("function", "std::make_unique", Nil)) EXCEPT !.form = "factory"])

\* Cursors.
C(kind, usr, parent) ==
    [kind |-> kind, usr |-> usr, parent |-> parent, def |-> TRUE, types |-> << >>, refs |-> << >>,
     explicit |-> FALSE, params |-> 0, locals |-> << >>, inits |-> {}, body |-> << >>,
     spaces |-> << >>]
Prototype(c) == [c EXCEPT !.def = FALSE]
Types(c, types) == [c EXCEPT !.types = types]
Refs(c, refs) == [c EXCEPT !.refs = refs]
Spaces(c, spaces) == [c EXCEPT !.spaces = spaces]
WithBody(c, body) == [c EXCEPT !.body = body]

\* Nodes of a body.
Node(node) ==
    [node |-> node, cond |-> FALSE, ref |-> Nil, overloads |-> << >>, parent |-> "statement",
     type |-> Nil, pointer |-> FALSE, recv |-> << >>, args |-> << >>, spelled |-> << >>]
Calls(u) == [Node("call") EXCEPT !.ref = u]
Dependent(us) == [Node("call") EXCEPT !.overloads = us, !.cond = TRUE]
OfType(node, t) == [Node(node) EXCEPT !.type = t]
Refers(node, u) == [Node(node) EXCEPT !.ref = u]
Value(form, type) ==
    [form |-> form, type |-> type, layers |-> 1, declared |-> type, pos |-> 0]

BaseHeader ==
    <<C("namespace", "M", Nil), C("namespace", "N", Nil), C("class", "B", "N"),
      C("ctor", "B()", "B"), Prototype(C("ctor", "B(B&)", "B")),
      Types(C("function_template", "put", "B"), << >>),
      C("struct", "Base", "N"), Prototype(C("method", "Base::run", "Base")), C("alias", "Num", "Base"),
      [C("class_template", "Box", "N") EXCEPT !.params = 1], C("method", "Box::get", "Box"),
      C("partial", "Box<T*>", "N"), Refs(C("base", Nil, "Box<T*>"), <<"Base">>),
      C("function_template", "pick", "N"), C("function_template", "pick2", "N"),
      C("function_template", "near", "N")>>

ClassHeader ==
    <<C("namespace", "N", Nil), Prototype(C("class", "F", "N")), C("class", "A", "N"),
      Refs(C("base", Nil, "A"), <<"Base">>), Refs(C("base", Nil, "A"), <<"Box<A>">>),
      Types(C("field", "A::b", "A"), <<"B">>), Types(C("field", "A::box", "A"), <<"Box<B>">>),
      Refs(Prototype(C("method", "A::run", "A")), <<"Base::run">>),
      Prototype(Types(C("variable", "A::s", "A"), <<"B">>)),
      Refs(C("friend", Nil, "A"), <<"F", "make">>),
      Spaces(Prototype(Types(C("function", "make", "N"), <<"B", "A">>)), <<"M">>)>>

RunBody ==
    <<OfType("local", "Box<F>"), [OfType("local", "B") EXCEPT !.cond = TRUE],
      [Calls("B()") EXCEPT !.parent = "variable", !.type = "B"], [Calls("B(B&)") EXCEPT !.type = "B"],
      OfType("new", "B"), [Calls("B()") EXCEPT !.parent = "new", !.type = "B"],
      [Calls("B()") EXCEPT !.type = "B"], OfType("delete", "B"),
      [Calls("Box<B>::get") EXCEPT !.recv = <<Value("field", "Box<B>")>>],
      [Calls("put<A>") EXCEPT !.recv = <<Value("parameter", "B")>>,
                              !.spelled = <<TypeArg(Nil, "A", {"A"})>>],
      [Calls("make") EXCEPT !.args = <<Value("this", "A"), Value("literal", Nil)>>],
      Calls("A::run"), Refers("ref", "A::b"), Refers("ref", "make"), Refers("type_ref", "F"),
      Refers("type_ref", "A"), Calls("far")>>

TemplateBody ==
    <<Dependent(<<"pick">>), Dependent(<<"pick", "pick2">>), Dependent(<<"near2">>),
      Dependent(<<"std::move">>), Dependent(<<"std::move", "far">>)>>

MCCursors ==
    [x \in {"base.hpp"} |-> BaseHeader] @@ [x \in {"a.hpp"} |-> ClassHeader]
    @@ ("a.cpp" :> <<Spaces(C("namespace", "N", Nil), <<"M">>),
                     WithBody(Refs(C("method", "A::run", "N"), <<"Base::run">>), RunBody),
                     [Types(C("variable", "A::s", "N"), <<"B">>) EXCEPT !.inits = {"make", "far"}]>>)
    @@ ("b.cpp" :> <<Spaces(C("namespace", "N", Nil), <<"M">>),
                     [WithBody(Types(C("function", "make", "N"), <<"B", "A">>),
                               <<[Calls("make_unique") EXCEPT !.type = "B"], OfType("local", "Here"),
                                 [OfType("local", "Box<A>") EXCEPT !.pointer = TRUE]>>)
                         EXCEPT !.locals = <<"Here">>],
                     Types(C("alias", "BA", Nil), <<"Box<A>">>),
                     [C("struct", "Box<int>", "N") EXCEPT !.explicit = TRUE],
                     WithBody(C("function_template", "tmpl", Nil), TemplateBody)>>)
    @@ ("c.cpp" :> <<C("class", "Box<bool>", Nil),
                     WithBody(C("function", "main", Nil),
                              <<Calls("Base::run"), OfType("local", "Box<int>"), Calls("far")>>)>>)

Numbered(seq) ==
    [i \in DOMAIN seq |-> [at |-> i] @@ [seq[i] EXCEPT !.body =
        [j \in DOMAIN @ |-> [at |-> <<i, j>>] @@ @[j]]]]

MCNumbered == [f \in DOMAIN MCCursors |-> Numbered(MCCursors[f])]
MCHeaders == ("a.cpp" :> <<"a.hpp", "base.hpp">>) @@ ("b.cpp" :> <<"a.hpp", "base.hpp">>)
             @@ ("c.cpp" :> <<"base.hpp">>)
===============================================================================
