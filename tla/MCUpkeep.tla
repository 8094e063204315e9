------------------------------ MODULE MCUpkeep -------------------------------
(***************************************************************************)
(* Instances of what happens around an index: registering and moving sources *)
(* (RepoClones), opening an older database (Migration), the shared PCH         *)
(* (PchCache), one compile command (CompileDb), the survey of a corpus for a     *)
(* PCH (PchSurvey), and one process that reads and builds an entry of the AST    *)
(* cache (AstCache).  They share no state, so a behaviour is one of them while   *)
(* the others rest.                                                           *)
(***************************************************************************)
EXTENDS MCRegistry, Migration, PchCache, PchSurvey, TLC

\* The version that brought each column, table, index and conversion (_SCHEMA_VERSION's history).
MCSince ==
    [x \in {"symbol", "component", "file"} |-> 1]
    @@ [x \in {"qual_name", "fill_qual_name"} |-> 3]
    @@ [x \in {"decl_file_id", "decl_line", "decl_col", "fill_decl"} |-> 4]
    @@ [x \in {"is_pure"} |-> 5]
    @@ [x \in {"driver"} |-> 6]
    @@ [x \in {"edge_site"} |-> 7]
    @@ [x \in {"args_overridden"} |-> 8]
    @@ [x \in {"decl_path"} |-> 9]
    @@ [x \in {"recv_src_kind", "recv_type_usr", "recv_decl_usr", "recv_param_pos", "call_arg"} |-> 10]
    @@ [x \in {"recv_type_is_value", "type_is_value"} |-> 11]
    @@ [x \in {"is_static"} |-> 12]
    @@ [x \in {"is_instantiation"} |-> 13]
    @@ [x \in {"version", "label"} |-> 14]
    @@ [x \in {"diagnostic"} |-> 15]
    @@ [x \in {"entity_edge"} |-> 17]
    @@ [x \in {"nests", "realizes"} |-> 19]
    @@ [x \in {"is_named_instance"} |-> 20]
    @@ [x \in {"dedup"} |-> 21]
    @@ [x \in {"entity_node", "entity_nodes"} |-> 22]
    @@ [x \in {"repository", "repository_id"} |-> 23]
    @@ [x \in {"relativize"} |-> 24]
    @@ [x \in {"end_line", "end_col"} |-> 25]
    @@ [x \in {"decl_site"} |-> 26]
    @@ [x \in {"definition", "multi_def"} |-> 27]
    @@ [x \in {"init_text"} |-> 28]

\* The steps before which a death is made good by the next opening.
MCDying ==
    {"qual_name", "decl_file_id", "is_named_instance", "end_line", "multi_def", "init_text",
     "driver", "args_overridden", "recv_src_kind", "recv_param_pos", "recv_type_is_value",
     "type_is_value", "version", "repository_id", "comp_new", "relativize", "nests",
     "realizes", "dedup", "stamp", "schema"}

-----------------------------------------------------------------------------

Word(x) == [t |-> "word", v |-> x]
Token(t) == [t |-> t, v |-> t]
Inc == [form |-> "relative", dir |-> "inc"]
Indirect == [form |-> "indirect", dir |-> "ext"]

\* The options of a command, each with its argument if it takes one.
Options ==
    {<<Token("-c")>>, <<Token("-o"), Word("f.o")>>, <<Token("-Wl,")>>, <<Token("-pthread")>>,
     <<Token("-I"), Word(Inc)>>, <<[t |-> "-isystem=", v |-> Indirect]>>, <<Token("-D"), Word("A")>>,
     <<[t |-> "-D=", v |-> "B"]>>, <<Token("-x"), Word("c++")>>, <<Token("source")>>}

Openings == {<< >>, <<Token("NAME=")>>, <<Token("ccache")>>, <<Token("NAME="), Token("ccache")>>}

MCCommands == {prefix \o <<Token("cc")>> \o a \o b \o c :
                  prefix \in Openings, a \in Options, b \in Options, c \in Options}

\* The commands are such that StrippingKeepsTheReading speaks of them.
ASSUME CommandsAreWellFormed == \A args \in MCCommands : WellFormed(Arguments(args))

Macro(x) == [t |-> "-D=", v |-> x]
Unit(drv, options, headers, direct, fatal) ==
    [cpp |-> FALSE, driver |-> drv, options |-> options, headers |-> headers, direct |-> direct,
     fatal |-> fatal]
CppFlag == <<Token("-x"), Word("c++")>>
MCUnits ==
    {Unit("gcc", CppFlag \o <<Macro("A"), Macro("B"), [t |-> "-I=", v |-> Inc]>>,
          {"vector", "impl", "h"}, {"vector", "h"}, FALSE),
     Unit("gcc", CppFlag \o <<Macro("A"), Token("-pthread")>>, {"vector", "impl"}, {"vector"}, TRUE),
     Unit("cross", <<Macro("A")>> \o CppFlag, {"impl"}, {}, FALSE),
     Unit("gcc", <<Macro("C")>>, {"h"}, {"h"}, FALSE), Unit("gcc", << >>, {}, {}, FALSE)}

\* Three units with a slow one, one whose compiler is missing, or none of either; or one alone.
Surveyed(headers, direct, start) == [headers |-> headers, direct |-> direct, start |-> start]
MCCorpora ==
    {<<Surveyed({"vector", "h"}, {"h"}, s[1]), Surveyed({"vector"}, {"vector"}, s[2]),
       Surveyed({"h"}, {}, s[3])>> :
        s \in {<<"ends", "ends", "ends">>, <<"ends", "hangs", "ends">>,
               <<"hangs", "none", "hangs">>, <<"none", "ends", "hangs">>}}
    \union {<<Surveyed({"h"}, {"h"}, "ends")>>}

-----------------------------------------------------------------------------

\* The AST cache of one process: three versions of a source file, each with a time of its own.
VARIABLES source, astFile, sideFile, caller, failed

warmVars == <<source, astFile, sideFile, caller, failed>>

Warm == INSTANCE AstCache WITH
    Procs <- {"p"}, Versions <- 1..3, Libs <- {18}, LibOf <- [p \in {"p"} |-> 18],
    Mtime <- [v \in 1..3 |-> v], Initial <- 1, EditRel <- {<<1, 2>>, <<2, 3>>},
    EditsDuringSave <- TRUE, Clears <- FALSE, MaxFailures <- 2,
    src <- source, ast <- astFile, side <- sideFile, proc <- caller, failures <- failed

\* When the edits and the failures are over, a cached call parses only finitely often
\* (astcache.py, load_or_parse): whatever entry they left, it heals and then hits.
CacheWarmsUp == Warm!CacheWarmsUp

-----------------------------------------------------------------------------

VARIABLE part       \* which of them the behaviour is of

MigrationRests ==
    disk = Upgraded /\ conn = Closed /\ opened = "yes" /\ deaths = 0

\* A survey of nothing.
SurveyRests ==
    /\ tus = << >> /\ next = 1 /\ child = << >> /\ survey = Empty
    /\ thread = [t \in Threads |-> [Waiting EXCEPT !.pc = "done"]]

UpkeepInit ==
    /\ part \in {"registry", "migration", "pch", "survey", "cache", "command"}
    /\ CloneInit /\ PchInit /\ Warm!Init
    /\ part = "pch" \/ lib = CHOOSE l \in Libs : TRUE
    /\ IF part = "migration" THEN MigrationInit ELSE MigrationRests
    /\ IF part = "survey" THEN SurveyInit ELSE SurveyRests
    /\ IF part = "command" THEN command \in MCCommands ELSE command = << >>

\* One of them goes on and the others stay as they are.
Registering(step) ==
    /\ part = "registry" /\ step
    /\ UNCHANGED <<migrationVars, pchVars, surveyVars, warmVars, command, part>>
Upgrading(step) ==
    /\ part = "migration" /\ step
    /\ UNCHANGED <<cloneVars, pchVars, surveyVars, warmVars, command, part>>
Parsing(step) ==
    /\ part = "pch" /\ step
    /\ UNCHANGED <<cloneVars, migrationVars, surveyVars, warmVars, command, part>>
Surveying(step) ==
    /\ part = "survey" /\ step
    /\ UNCHANGED <<cloneVars, migrationVars, pchVars, warmVars, command, part>>
Caching(step) ==
    /\ part = "cache" /\ step
    /\ UNCHANGED <<cloneVars, migrationVars, pchVars, surveyVars, command, part>>

UpkeepNext ==
    \/ Registering(CloneNext)
    \/ Upgrading(Progress \/ Dies)
    \/ Parsing(PchNext)
    \/ Surveying(SurveyNext)
    \/ Caching(Warm!Next)

UpkeepVars == <<cloneVars, migrationVars, pchVars, surveyVars, warmVars, command, part>>

\* An upgrade, a survey and a call that is running go on; nobody has to start anything.
UpkeepSpec ==
    /\ UpkeepInit /\ [][UpkeepNext]_UpkeepVars
    /\ WF_UpkeepVars(Upgrading(Progress))
    /\ WF_UpkeepVars(Surveying(SurveyNext))
    /\ WF_UpkeepVars(Caching(Warm!Work("p")))
=============================================================================
