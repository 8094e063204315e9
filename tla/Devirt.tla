------------------------------- MODULE Devirt --------------------------------
(***************************************************************************)
(* devirtualized_callgraph(prune=True) of model.py: _GammaEngine propagates  *)
(* the classes that the receiver of a virtual call may have, from what the   *)
(* extractor recorded of arguments and receivers (clang/ast.py), and the     *)
(* walk of CallGraph then visits only the overrides those classes select.    *)
(* A program is small here: one virtual method, declared by the base class   *)
(* and overridden in some classes, and callables that pass one object on by  *)
(* reference, or call the method on it.                                      *)
(***************************************************************************)
EXTENDS CallGraph

CONSTANTS
    Function, Class,
    Base, \* the class that declares the method
    Parent, \* the base of each other class
    Method, \* the declaration of the method in a class, if it has one
    KLimit, \* K_LIMIT, 3 in the code
    TOP, \* of the receiver nothing is known
    None

ASSUME ProgramIsOfSymbols ==
    /\ Function \union Class \union {Method[c] : c \in Class} \subseteq Sym
    /\ Base \in Class /\ Parent \in [Class \ {Base} -> Class]
    /\ KLimit \in Nat

\* TOP is an object of its own.
ASSUME TopIsNoSet == \A S \in SUBSET Class : TOP # S

\* A class is complete before another is derived from it.
ASSUME BasesComeFirst ==
    \E order \in [Class -> 1..Cardinality(Class)] :
        \A c \in Class \ {Base} : order[Parent[c]] < order[c]

\* A USR names one thing.
ASSUME UsrsAreApart ==
    /\ \A c, d \in Class : Method[c] = Method[d] => c = d
    /\ \A c \in Class : Method[c] \notin Function \union Class
    /\ Function \intersect Class = {}

VARIABLES
    program, \* [owns, pure, body]: body[f][g] lists the object that each call
             \* of g in f passes (or has as receiver), in source order
    closed, \* assume_closed_world
    gamma    \* the engine: [stack, analysed, count, env, done]

devirtVars == <<tourVars, program, closed, gamma>>

Callable == Function \union {Method[c] : c \in Class}
ClassOf(m) == CHOOSE c \in Class : Method[c] = m
IsMethod(f) == f \notin Function

\* An object expression: its kind and its static class.
Ex(kind, type) == [kind |-> kind, type |-> type]

-----------------------------------------------------------------------------
(* What the program does. *)

Ancestors(c) ==
    LET up[n \in 0..Cardinality(Class)] ==
            IF n = 0 THEN <<c>>
            ELSE LET s == up[n - 1]
                 IN  IF s[Len(s)] = Base THEN s ELSE Append(s, Parent[s[Len(s)]])
    IN  up[Cardinality(Class)]

IsA(c, d) == \E i \in DOMAIN Ancestors(c) : Ancestors(c)[i] = d

Declares(c) == c = Base \/ c \in program.owns

\* The class whose method a call on an object of class c runs.
FinalOverrider(c) ==
    LET s == Ancestors(c)
        i == CHOOSE i \in DOMAIN s : Declares(s[i]) /\ \A j \in 1..(i - 1) : ~Declares(s[j])
    IN  s[i]

Objects == {c \in Class : ~(program.pure /\ FinalOverrider(c) = Base)}

ByValue == {"construct", "value", "gvalue", "cvalue"}
OwnObject == {"param", "this"}

\* The classes that expression e may have in a frame whose own object is of class v.
Values(e, v) == CASE e.kind \in ByValue -> {e.type}
                  [] e.kind \in OwnObject -> {v}
                  [] OTHER -> {c \in Objects : IsA(c, e.type)}

Sites(f, g) == {program.body[f][g][i] : i \in DOMAIN program.body[f][g]}

FramesAfter(frame) ==
    UNION {UNION {{<<IF IsMethod(g) THEN Method[FinalOverrider(w)] ELSE g, w>> :
                     w \in Values(e, frame[2])} : e \in Sites(frame[1], g)} : g \in Callable}

\* The callables that some run of the program, started in the root with any object,
\* enters.
Entered ==
    LET grow[S \in SUBSET (Callable \X Class)] ==
            LET more == S \union UNION {FramesAfter(x) : x \in S}
            IN  IF more = S THEN S ELSE grow[more]
    IN  {x[1] : x \in grow[{tour.root} \X Objects]}

\* With T[f] the declared class of the object of f: an object that is passed or is a
\* receiver is of that class or of one derived from it, what is made is of a class that
\* can be, and a call names a method that its class declares.
Typed(T) ==
    \A f \in Function, g \in Callable : \A e \in Sites(f, g) :
        /\ e.kind \in OwnObject => e.type = T[f]
        /\ e.kind \in ByValue => e.type \in Objects
        /\ IsMethod(g) => Declares(ClassOf(g)) /\ IsA(e.type, ClassOf(g))
        /\ ~IsMethod(g) => IsA(e.type, T[g])

\* The compiler accepts the program, and the root takes any object.
Compiles(root) ==
    /\ root \in Function /\ program.pure \in BOOLEAN /\ program.owns \subseteq Class \ {Base}
    /\ program.body \in [Callable -> [Callable -> Seq([kind : STRING, type : Class])]]
    /\ \E T \in [Function -> Class] : T[root] = Base /\ Typed(T)

-----------------------------------------------------------------------------
(* What the extractor stores of it. *)

\* _index_edges and the resolve pass, as far as the walk reads them.
NearestDeclarer(c) == FinalOverrider(Parent[c])

GraphOf(p) ==
    [edge |-> {e \in [src : Callable, kind : {"calls"}, dst : Callable] :
                  p.body[e.src][e.dst] # << >>}
                \union {[src |-> c, kind |-> "inherits", dst |-> Parent[c]] : c \in Class \ {Base}}
                \union {[src |-> Method[c], kind |-> "overrides",
                         dst |-> Method[NearestDeclarer(c)]] : c \in p.owns},
     pure |-> IF p.pure THEN {Method[Base]} ELSE {},
     stub |-> {},
     owner |-> [s \in Sym |-> IF IsMethod(s) /\ s \notin Class THEN ClassOf(s) ELSE NoSym]]

\* _classify_value_source: the kind, the record the static type names, the declaration
\* referred to, and whether its declared type holds the record by value.
Source(f, e) ==
    CASE e.kind = "construct" -> [src |-> "construct", type |-> e.type, decl |-> None, value |-> FALSE]
      [] e.kind = "value" -> [src |-> "local", type |-> e.type, decl |-> <<f, e.type>>, value |-> TRUE]
      [] e.kind \in {"refvar", "param"} ->
            [src |-> "local", type |-> e.type, decl |-> <<f, e.kind>>, value |-> FALSE]
      [] e.kind = "gvalue" -> [src |-> "global", type |-> e.type, decl |-> <<e.type>>, value |-> TRUE]
      [] e.kind = "gref" -> [src |-> "global", type |-> e.type, decl |-> <<"ref">>, value |-> FALSE]
      [] e.kind = "cvalue" -> [src |-> "call_result", type |-> e.type, decl |-> None, value |-> TRUE]
      [] e.kind = "cref" -> [src |-> "call_result", type |-> e.type, decl |-> None, value |-> FALSE]
      [] e.kind = "this" -> [src |-> "this", type |-> e.type, decl |-> e.type, value |-> FALSE]
      [] OTHER -> [src |-> "unknown", type |-> None, decl |-> None, value |-> FALSE]

\* call_arg rows of an edge: the calls of functions pass the object as argument 0, the
\* calls of the method have it as receiver and pass nothing.
Args(f, g) == IF IsMethod(g) THEN {} ELSE {Source(f, e) : e \in Sites(f, g)}

-----------------------------------------------------------------------------
(* _GammaEngine. *)

Look(env, key) == IF key \in DOMAIN env THEN env[key] ELSE {}

\* The key of a binding is <<callable, USR>> or, for its parameter, <<callable, Pos0>>.
Pos0 == <<"@pos", 0>>

ASSUME KeysAreApart ==
    /\ "@pos" \notin Callable
    /\ \A c \in Class : /\ c # Pos0 /\ c \notin {"refvar", "param", "ref"}
                        /\ \A t \in Class \union {"ref"} : c # <<t>>
                        /\ \A f \in Callable, t \in Class \union {"refvar", "param"} : c # <<f, t>>

\* _join, for a set of <<key, classes>> at once.
Join(env, binds) ==
    [key \in DOMAIN env \union {b[1] : b \in binds} |->
        LET sets == {b[2] : b \in {x \in binds : x[1] = key}} \union {Look(env, key)}
        IN  IF TOP \in sets THEN TOP ELSE UNION sets]

\* _seed_locals
Seeds(f) ==
    UNION {{<<<<f, a.type>>, {a.type}>> : a \in {x \in Args(f, g) : x.src = "construct"}}
           \union {<<<<f, a.decl>>, {a.type}>> :
                     a \in {x \in Args(f, g) : x.src \in {"local", "this"}}} : g \in Callable}

\* _resolve_source
Resolved(env, f, a) ==
    CASE a.src = "unknown" -> TOP
      [] a.src = "construct" -> {a.type}
      [] a.src \in {"member", "global", "local", "this"} ->
            IF a.value THEN {a.type}
            ELSE IF <<f, a.decl>> \in DOMAIN env THEN env[<<f, a.decl>>] ELSE TOP
      [] OTHER -> IF a.value THEN {a.type} ELSE TOP

\* Mutant of ArgTypes: an argument nothing is known of is skipped.
ArgTypesKnown(env, f, g) == UNION ({Resolved(env, f, a) : a \in Args(f, g)} \ {TOP})

\* The union over the sites of one edge.
ArgTypes(env, f, g) ==
    LET all == {Resolved(env, f, a) : a \in Args(f, g)}
    IN  IF TOP \in all THEN TOP ELSE UNION all

\* Mutant of Bindings: written under the context of the caller, where no lookup finds
\* them.
BindingsOfCaller(env, f, g) ==
    IF Args(f, g) = {} THEN {} ELSE {<<<<f, Pos0>>, ArgTypes(env, f, g)>>}

\* The bindings of the callee's context that the edge f -> g adds.
Bindings(env, f, g) ==
    IF Args(f, g) = {} THEN {}
    ELSE {<<<<g, Pos0>>, ArgTypes(env, f, g)>>}
         \union {<<<<g, a.decl>>, Resolved(env, f, a)>> : a \in {x \in Args(f, g) : x.decl # None}}
         \union {<<<<g, a.type>>, {a.type}>> : a \in {x \in Args(f, g) : x.src = "construct"}}

\* _visit, on first sight of a callable.
Visited(s, f) ==
    IF f \in s.analysed THEN s
    ELSE [s EXCEPT !.analysed = @ \union {f},
                   !.env = Join(@, Seeds(f)),
                   !.stack = Append(@, [fn |-> f, todo |-> DirectCallees(code, f)])]

Engine(root) ==
    Visited([stack |-> << >>, analysed |-> {}, count |-> [f \in Callable |-> 0],
             env |-> << >>, done |-> FALSE], root)

DevirtInit(programs, root) ==
    /\ program \in programs /\ Compiles(root)
    /\ closed \in BOOLEAN
    /\ code = GraphOf(program)
    /\ tour = StartTour("prune", root, Unbounded)
    /\ kept = << >>
    /\ gamma = Engine(root)

GTop == gamma.stack[Len(gamma.stack)]
Less(g) == [gamma EXCEPT !.stack[Len(gamma.stack)].todo = @ \ {g}]

Bound(s, f, g) == [s EXCEPT !.env = Join(@, Bindings(@, f, g)), !.count[g] = @ + 1]

\* _bind_and_visit for the next edge of the callable on top.
Bind == /\ ~gamma.done
        /\ gamma.stack # << >>
        /\ \E g \in GTop.todo :
              gamma' = IF gamma.count[g] >= KLimit THEN Less(g)
                       ELSE Visited(Bound(Less(g), GTop.fn, g), g)

Return == /\ ~gamma.done
          /\ gamma.stack # << >>
          /\ GTop.todo = {}
          /\ gamma' = [gamma EXCEPT !.stack = SubSeq(@, 1, Len(@) - 1)]

-----------------------------------------------------------------------------
(* Reading the engine at a virtual call. *)

CallersOf(g) == Peers(code, g, {"calls"}, "in")
FirstArg(f, g) == Source(f, program.body[f][g][1])

\* _closed_world_param: the argument of the first site of each caller.
ClosedWorld(env, g) ==
    LET all == {Resolved(env, f, FirstArg(f, g)) : f \in CallersOf(g)}
    IN  IF TOP \in all \/ CallersOf(g) = {} THEN TOP ELSE UNION all

\* gamma_for_site, for the first call of m in f.
ReceiverTypes(env, f, m) ==
    LET e == program.body[f][m][1]
        r == Source(f, e)
        has(k) == k \in DOMAIN env
    IN  CASE r.value /\ r.src \in {"global", "call_result"} /\ r.type = ClassOf(m) -> {r.type}
          [] OTHER ->
             IF r.decl # None /\ has(<<f, r.decl>>) THEN env[<<f, r.decl>>]
             ELSE IF r.type # None /\ has(<<f, r.type>>) THEN env[<<f, r.type>>]
             ELSE IF e.kind = "param" /\ has(<<f, Pos0>>) THEN env[<<f, Pos0>>]
             ELSE IF r.src = "construct" THEN {r.type}
             ELSE IF closed /\ e.kind = "param" THEN ClosedWorld(env, f)
             ELSE TOP

\* decide
Decide(env, f, m) ==
    LET types == ReceiverTypes(env, f, m)
        picks == {c.target : c \in {x \in DispatchSelection(code, m, TRUE).candidates :
                                      x.type \in types}}
    IN  IF ~DispatchSelection(code, m, FALSE).prunable \/ types = TOP \/ picks = {}
        THEN KeepAll
        ELSE picks

\* analyse() has returned; the walk will ask for each virtual call it meets.
Ready ==
    /\ ~gamma.done
    /\ gamma.stack = << >>
    /\ gamma' = [gamma EXCEPT !.done = TRUE]
    /\ kept' = [x \in {y \in Callable \X Callable :
                         /\ y[2] \in DirectCallees(code, y[1])
                         /\ IsVirtual(code, y[2])} |-> Decide(gamma.env, x[1], x[2])]

DevirtNext ==
    \/ (Bind \/ Return) /\ UNCHANGED <<tourVars, program, closed>>
    \/ Ready /\ UNCHANGED <<code, tour, program, closed>>
    \/ gamma.done /\ TourNext /\ UNCHANGED <<program, closed, gamma>>

-----------------------------------------------------------------------------
(* What pruning promises. *)

Handed == UNION {UNION {Sites(f, g) : f \in Callable} : g \in Function}

\* The programs for which pruning is sound.  A callable is called from few others, and
\* passes each callee one object; it makes one virtual call; what it passes by
\* reference is a new object, a variable that holds one by value, or something that
\* nothing is recorded of; no object is made of the very class that a receiver
\* beside it is declared with; the methods call nothing, and nothing calls the root.
FewCallers == \A g \in Callable : Cardinality(CallersOf(g)) <= KLimit
OneSite == \A f, g \in Callable : IsMethod(g) \/ closed => Len(program.body[f][g]) <= 1
NoRefHandedOn == \A e \in Handed : e.kind \notin {"refvar", "param", "this"}
NoTypeKeyHit ==
    \A f \in Function, m \in {x \in Callable : IsMethod(x)} : \A r \in Sites(f, m) :
        \A g \in Function : Ex("construct", r.type) \notin Sites(f, g) \union Sites(g, f)
LeafMethods == \A m, g \in Callable : IsMethod(m) => program.body[m][g] = << >>
RootNotCalled == CallersOf(tour.root) = {}

Supported == /\ FewCallers /\ OneSite /\ NoRefHandedOn
             /\ NoTypeKeyHit /\ LeafMethods /\ RootNotCalled

\* The pruned walk has ended.
Pruned == tour.mode = "prune" /\ Exhausted

\* decide: "Sound: returns KEEP_ALL on every unsound path" (model.py:1497).  For every
\* supported program the pruned walk visits each callable that a run can enter.
PrunesOnlyTheUnreachable ==
    Pruned /\ Supported => Entered \ {tour.root} \subseteq Yielded

\* The same, of every program.
EnteredIsVisited == Pruned => Entered \ {tour.root} \subseteq Yielded

\* Where every object handed on is of a known class, and every receiver is the parameter,
\* pruning is exact: an override that is visited, and that no call names, can run.
Exact ==
    /\ \A e \in Handed : e.kind \in ByValue
    /\ \A f, m \in Callable : IsMethod(m) =>
          \A e \in Sites(f, m) : e.kind = "param" /\ f # tour.root

PrunesTheUnreachable ==
    Pruned /\ Supported /\ Exact =>
        \A m \in Yielded : IsMethod(m) /\ CallersOf(m) = {} => m \in Entered
=============================================================================
