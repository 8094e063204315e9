------------------------------ MODULE CompileDb ------------------------------
(***************************************************************************)
(* From a compile command to the options that libclang is given              *)
(* (indexer/compiledb.py, and the option filters of indexer/pch.py).          *)
(*                                                                         *)
(* A token stands for its class: t names the option ("-I" with its value in  *)
(* the next token, "-I=" with its value glued to it, "word" for a bare word), *)
(* v its value.  A directory is relative, absolute or indirect (it holds a    *)
(* label or a variable).                                                      *)
(***************************************************************************)
EXTENDS Integers, Sequences, FiniteSets, SequencesExt, FiniteSetsExt

VARIABLE
    command     \* a compile command: its arguments

\* What the drop rules drop alone, with the next token, and by its prefix.
Drop == {"-c"}
DropWithArg == {"-o"}
DropPrefix == {"-Wl,"}

IncludeSeparate == {"-I", "-isystem"}
IncludeGlued == {"-I=", "-isystem="}

Launchers == {"ccache"}
Environment == {"NAME="}

Absolute(dir) == IF dir.form = "relative" THEN [dir EXCEPT !.form = "absolute"] ELSE dir

-----------------------------------------------------------------------------
(* Reading a list of options from left to right.                             *)

\* The places of s that hold the value of an option of `taking`, which is in the token
\* before.
ValuesOf(s, taking) ==
    LET isValue[i \in 0..Len(s)] ==
            i > 1 /\ s[i - 1].t \in taking /\ ~isValue[i - 1]
    IN  {i \in DOMAIN s : isValue[i]}

\* The n-th of a set of places, counted from the left.
Nth(places, n) == CHOOSE i \in places : Cardinality({j \in places : j <= i}) = n

\* The tokens of s at `places`, in order.
At(s, places) == [n \in 1..Cardinality(places) |-> s[Nth(places, n)]]

\* The first token that is neither an assignment nor a launcher, or the first of all.
CommandStart(args) ==
    LET compilers == {i \in DOMAIN args : args[i].t \notin Launchers \union Environment}
    IN  IF compilers = {} THEN 1 ELSE Min(compilers)

\* The arguments of the compiler.
Arguments(args) == SubSeq(args, CommandStart(args) + 1, Len(args))

\* Mutant of Undropped: the option goes and its argument stays.
UndroppedAlone(s) ==
    LET values == ValuesOf(s, DropWithArg \union IncludeSeparate)
    IN  {i \in DOMAIN s : i \in values \/ s[i].t \notin Drop \union DropWithArg \union DropPrefix}

\* The places that the drop rules leave.  An include option takes the next token, whatever
\* it is.
Undropped(s) ==
    LET values == ValuesOf(s, DropWithArg \union IncludeSeparate)
    IN  {i \in DOMAIN s :
            IF i \in values THEN s[i - 1].t \notin DropWithArg
            ELSE s[i].t \notin Drop \union DropWithArg \union DropPrefix}

\* sanitize: the drop rules again, on options that an older version stored.
Sanitize(options) ==
    LET prefixed == options # << >> /\ options[1].t \in Launchers \union Environment
        rest == IF prefixed THEN SubSeq(options, CommandStart(options) + 1, Len(options))
                ELSE options
        values == ValuesOf(rest, DropWithArg)
    IN  At(rest, {i \in DOMAIN rest :
                    i \notin values /\ rest[i].t \notin Drop \union DropWithArg \union DropPrefix})

\* The values of the include options, separate or glued, each replaced by F of it.
MapIncludeValues(options, F(_)) ==
    LET values == ValuesOf(options, IncludeSeparate)
    IN  [i \in DOMAIN options |->
            IF i \in values \/ options[i].t \in IncludeGlued
            THEN [options[i] EXCEPT !.v = F(@)] ELSE options[i]]

\* strip_for_libclang: without the prefix, the compiler, the source file and what the drop
\* rules drop, the include directories absolute.
StripForLibclang(args) ==
    LET raw == Arguments(args)
        values == ValuesOf(raw, DropWithArg \union IncludeSeparate)
        kept == {i \in Undropped(raw) : i \in values \/ raw[i].t # "source"}
    IN  MapIncludeValues(At(raw, kept), Absolute)

\* is_cpp: what -x says of the language, or else the suffix of the file.
IsCpp(cppSuffix, options) ==
    LET said == {i \in DOMAIN options : options[i].t = "-x" /\ i < Len(options)}
    IN  IF said = {} THEN cppSuffix ELSE options[Min(said) + 1].v = "c++"

-----------------------------------------------------------------------------
(* The filters of the shared PCH.                                             *)

PchTakesValue == {"-x", "-include", "-isystem"}
PchDropExact == {"-pthread"}
PchDropPrefix == {"-I", "-I=", "-isystem="}

\* pch_relevant: -I is dropped by its prefix, and what follows a separate -I stays.
PchRelevant(options) ==
    LET values == ValuesOf(options, PchTakesValue)
    IN  At(options, {i \in DOMAIN options :
                        /\ i \notin values
                        /\ options[i].t \notin PchDropExact \union PchTakesValue
                                               \union PchDropPrefix})

\* include_dirs: the directories with their options, in order.
IncludeDirs(options) ==
    LET values == ValuesOf(options, IncludeSeparate)
        places == {i \in DOMAIN options : i \in values \/ options[i].t \in IncludeGlued}
    IN  At([i \in DOMAIN options |->
                IF i \in values THEN <<options[i - 1].t, options[i].v>>
                ELSE <<IF options[i].t = "-I=" THEN "-I" ELSE "-isystem", options[i].v>>],
           places)

-----------------------------------------------------------------------------
(* What a compiler makes of a command line: a reference.                      *)

\* Every option that takes a value in the next token.
Taking == {"-o", "-I", "-isystem", "-D", "-x", "-include"}

\* The include directories in order, the macros and forced inputs, and the words that are left
\* over, each of them an input file.
Reading(options) ==
    LET values == ValuesOf(options, Taking)
        Argument(i) == IF options[i].t \in Taking THEN options[i + 1].v ELSE options[i].v
        GivenBy(flags) == {Argument(i) : i \in {j \in DOMAIN options \ values : options[j].t \in flags}}
    IN  [dirs   |-> IncludeDirs(options),
         macros |-> GivenBy({"-D", "-D="}),
         forced |-> GivenBy({"-include", "-x"}),
         inputs |-> GivenBy({"word"})]

\* What a build passes to its compiler: a plain value for every option that takes one, and no
\* other program to run and no variable to set.
WellFormed(options) ==
    \A i \in DOMAIN options :
        /\ options[i].t \notin Launchers \union Environment
        /\ options[i].t \in Taking => i < Len(options) /\ options[i + 1].t = "word"

\* What the build's own compiler reads, seen from the directory of the build.
Built(args) ==
    LET reading == Reading(Arguments(args))
    IN  [reading EXCEPT !.dirs = [i \in DOMAIN @ |-> <<@[i][1], Absolute(@[i][2])>>]]

-----------------------------------------------------------------------------
(* Properties.                                                                *)

\* libclang is given the directories, macros and forced files that the compiler of the build
\* was given, in their order, and no input beside the source: dropping an option drops its
\* argument and nothing else, and the second pass over the stored options, which is there to
\* heal older databases, takes nothing more away (strip_for_libclang, sanitize).
LibclangReadsTheBuild == Reading(Sanitize(StripForLibclang(command))) = Built(command)
=============================================================================
