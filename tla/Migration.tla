------------------------------ MODULE Migration ------------------------------
(***************************************************************************)
(* Opening an index database of an older schema upgrades it in place         *)
(* (indexer/storage.py, Storage.__init__, _migrate,                          *)
(* _migrate_symbol_kind_to_int, _migrate_component_repo_unique, and           *)
(* `cidx migrate`).  The statements run one by one and the process may die    *)
(* between two; the next opening starts over from what is on disk.            *)
(*                                                                         *)
(* Python's sqlite3 opens a transaction at the first UPDATE or DELETE;        *)
(* outside one, ALTER and a script's statements commit by themselves.         *)
(***************************************************************************)
EXTENDS Integers, Sequences, FiniteSets, SequencesExt

CONSTANTS
    SCHEMA_VERSION, \* the version of this build
    Since,          \* the version that brought each column, table and index
    Oldest,         \* the oldest version opened
    Dying,          \* the steps that the process may die before
    MaxDeaths       \* bound on how often it dies

VARIABLES
    disk,       \* what is on disk
    conn,       \* the connection that opens it, or Closed
    opened,     \* how the last opening ended: "no", "yes" or "error"
    deaths      \* how often the process has died

migrationVars == <<disk, conn, opened, deaths>>

-----------------------------------------------------------------------------
(* The script.  A step names what it does and the column or table that gates   *)
(* it.                                                                        *)

Column(table, gate, col) == [do |-> "column", table |-> table, gate |-> gate, what |-> col]
Do(what) == [do |-> what, table |-> "symbol", gate |-> what, what |-> what]

Script ==
    << Column("symbol", "qual_name", "qual_name"), Do("fill_qual_name"),
       Column("symbol", "decl_file_id", "decl_file_id"),
       Column("symbol", "decl_file_id", "decl_line"),
       Column("symbol", "decl_file_id", "decl_col"), Do("fill_decl"),
       Column("symbol", "is_pure", "is_pure"),
       Column("symbol", "is_static", "is_static"),
       Column("symbol", "is_instantiation", "is_instantiation"),
       Column("symbol", "decl_path", "decl_path"),
       Do("kind_new"), Do("kind_copy"), Do("kind_drop"), Do("kind_rename"),
       Column("symbol", "is_named_instance", "is_named_instance"),
       Column("symbol", "end_line", "end_line"), Column("symbol", "end_line", "end_col"),
       Column("symbol", "multi_def", "multi_def"),
       Column("definition", "init_text", "init_text"),
       Column("file", "driver", "driver"),
       Column("file", "args_overridden", "args_overridden"),
       Column("edge_site", "recv_src_kind", "recv_src_kind"),
       Column("edge_site", "recv_src_kind", "recv_type_usr"),
       Column("edge_site", "recv_src_kind", "recv_decl_usr"),
       Column("edge_site", "recv_param_pos", "recv_param_pos"),
       Column("edge_site", "recv_type_is_value", "recv_type_is_value"),
       Column("call_arg", "type_is_value", "type_is_value"),
       Column("component", "version", "version"),
       Column("component", "repository_id", "repository_id"),
       Do("comp_new"), Do("comp_copy"), Do("comp_drop"), Do("comp_rename"),
       Do("relativize"), Do("nests"), Do("realizes"), Do("dedup"),
       Do("stamp"), Do("schema"), Do("entity_nodes") >>

AllColumns == {s.what : s \in {t \in ToSet(Script) : t.do = "column"}}

TableOf(col) == (CHOOSE s \in ToSet(Script) : s.do = "column" /\ s.what = col).table

\* The tables that the schema script may have to create.
AllTables == {"symbol", "component", "file", "edge_site", "call_arg", "label", "diagnostic",
              "entity_edge", "entity_node", "repository", "decl_site", "definition"}

\* Mutant of RebuiltColumns: one of them is forgotten.
RebuiltColumnsShort == {"qual_name", "decl_file_id", "decl_line", "decl_col", "is_pure", "is_static",
                        "is_instantiation"}

\* Mutant of RebuiltColumns: one of them is younger than the conversion.
RebuiltColumnsNew == {"qual_name", "decl_file_id", "decl_line", "decl_col", "is_pure", "is_static",
                      "is_instantiation", "decl_path", "is_named_instance"}

\* The columns that the kind conversion's new table has, of those added to symbol.
RebuiltColumns == {"qual_name", "decl_file_id", "decl_line", "decl_col", "is_pure", "is_static",
                   "is_instantiation", "decl_path"}

\* The conversions of data.
Conversions == {"fill_qual_name", "fill_decl", "relativize", "nests", "realizes", "dedup",
                "entity_nodes"}

\* The steps that no death may precede.  Each of the others is made good by the next opening;
\* none of these is: rows, a column or a conversion are lost, or every later opening fails.
Fragile ==
    {"fill_qual_name", "decl_line", "decl_col", "fill_decl", "is_pure", "is_static",
     "is_instantiation", "decl_path", "kind_new", "kind_copy", "kind_drop", "kind_rename",
     "end_col", "recv_type_usr", "recv_decl_usr", "comp_copy", "comp_drop", "comp_rename",
     "entity_nodes"}

ASSUME DeathsSpare == Dying \intersect Fragile = {}

\* The history of the schema: symbol and component are older than what is opened, columns that
\* are added together came together, and what fills a column or a table came no later.
ASSUME SchemaHistory ==
    /\ Oldest \in Nat /\ SCHEMA_VERSION \in Nat
    /\ Oldest <= SCHEMA_VERSION /\ 24 <= SCHEMA_VERSION
    /\ \A x \in AllColumns \union AllTables \union Conversions :
          Since[x] \in Nat /\ Since[x] <= SCHEMA_VERSION
    /\ Since["symbol"] <= Oldest /\ Since["component"] <= Oldest
    /\ \A s \in ToSet(Script) : s.do = "column" => Since[s.gate] = Since[s.what]
    /\ Since["fill_qual_name"] <= Since["qual_name"]
    /\ Since["fill_decl"] <= Since["decl_file_id"] /\ Since["decl_file_id"] <= 16
    /\ Since["entity_nodes"] <= Since["entity_node"]

\* A database of version v with symbols and components in it.  `rows` is where the rows of
\* the two rebuilt tables are; `done` is the data conversions it does not need.
Database(v) ==
    [version |-> v,
     tables  |-> {t \in AllTables : Since[t] <= v},
     cols    |-> {c \in AllColumns : Since[c] <= v},
     kindInt |-> v >= 16,
     perRepo |-> v >= 24,
     rows    |-> {"symbol", "component"},
     done    |-> {s \in Conversions : Since[s] <= v}]

\* What this build writes.
Upgraded == Database(SCHEMA_VERSION)

Closed == [pc |-> 0, open |-> FALSE, image |-> Upgraded, seen |-> {},
           tables |-> {}, fresh |-> FALSE, changed |-> FALSE, backfill |-> FALSE]

MigrationInit ==
    /\ disk \in {Database(v) : v \in Oldest..SCHEMA_VERSION}
    /\ conn = Closed
    /\ opened = "no"
    /\ deaths = 0

-----------------------------------------------------------------------------
(* One connection.                                                            *)

View == IF conn.open THEN conn.image ELSE disk

Step == Script[conn.pc]

\* Until an opening has succeeded.  The connection lists the tables and the columns of
\* symbol; without a symbol table the database counts as fresh and only the schema script is
\* run.
Open ==
    /\ conn = Closed /\ opened # "yes"
    /\ conn' = [Closed EXCEPT
                  !.pc = IF "symbol" \in disk.tables THEN 1
                         ELSE CHOOSE i \in DOMAIN Script : Script[i].do = "schema",
                  !.seen = disk.cols, !.tables = disk.tables]
    /\ opened' = "no"
    /\ UNCHANGED <<disk, deaths>>

\* A statement commits by itself, unless a transaction is open or it opens one.
Writes(d, opens, next) ==
    /\ IF conn.open \/ opens
       THEN conn' = [next EXCEPT !.open = TRUE, !.image = d, !.pc = conn.pc + 1] /\ UNCHANGED disk
       ELSE conn' = [next EXCEPT !.pc = conn.pc + 1] /\ disk' = d
    /\ UNCHANGED <<opened, deaths>>

Skips(next) ==
    /\ conn' = [next EXCEPT !.pc = conn.pc + 1]
    /\ UNCHANGED <<disk, opened, deaths>>

\* An operational error: the connection is closed and rolled back.
Errs ==
    /\ conn' = Closed
    /\ opened' = "error"
    /\ UNCHANGED <<disk, deaths>>

Changed == [conn EXCEPT !.changed = TRUE]

\* ALTER TABLE ... ADD COLUMN, when the first column of its group is not there and the table
\* is; a table that is not there gets all its columns from the schema script.
AddColumn ==
    /\ conn.pc > 0 /\ Step.do = "column"
    /\ IF Step.gate \in conn.seen \/ Step.table \notin View.tables THEN Skips(conn)
       ELSE IF Step.what \in View.cols THEN Errs
       ELSE Writes([View EXCEPT !.cols = @ \union {Step.what}], FALSE, Changed)

\* qual_name is filled from the chains of parents, the place of the declaration from the
\* place of the symbol.  A statement that begins with WITH opens no transaction.
FillColumn ==
    /\ conn.pc > 0 /\ Step.do \in {"fill_qual_name", "fill_decl"}
    /\ LET col == IF Step.do = "fill_decl" THEN "decl_file_id" ELSE "qual_name"
       IN  IF col \in conn.seen THEN Skips(conn)
           ELSE Writes([View EXCEPT !.done = @ \union {Step.do}], Step.do = "fill_decl", Changed)

Rebuilds == {"kind_new", "kind_copy", "kind_drop", "kind_rename",
             "comp_new", "comp_copy", "comp_drop", "comp_rename"}

\* The table that a rebuild replaces, and the name of its replacement.
Rebuilt == IF Step.do \in {"kind_new", "kind_copy", "kind_drop", "kind_rename"}
           THEN "symbol" ELSE "component"
NewName == IF Rebuilt = "symbol" THEN "symbol_new" ELSE "component_new"

\* What the open transaction holds is committed first; the script's four statements then
\* commit one by one.
Rebuild ==
    /\ conn.pc > 0 /\ Step.do \in Rebuilds
    /\ LET first == Step.do \in {"kind_new", "comp_new"}
           needed == IF Rebuilt = "symbol" THEN ~View.kindInt
                     ELSE "component" \in View.tables /\ ~View.perRepo
       IN  CASE first /\ ~needed ->
                  /\ conn' = [conn EXCEPT !.pc = @ + 4,
                                          !.seen = IF Rebuilt = "symbol" THEN View.cols ELSE @]
                  /\ UNCHANGED <<disk, opened, deaths>>
             [] first /\ needed /\ NewName \in View.tables -> Errs
             [] first /\ needed /\ NewName \notin View.tables ->
                  /\ disk' = [View EXCEPT !.tables = @ \union {NewName}]
                  /\ conn' = [Changed EXCEPT !.pc = @ + 1, !.open = FALSE]
                  /\ UNCHANGED <<opened, deaths>>
             [] Step.do \in {"kind_copy", "comp_copy"} ->
                  IF Rebuilt = "symbol" /\ ~(RebuiltColumns \subseteq View.cols) THEN Errs
                  ELSE Writes([View EXCEPT !.rows = IF Rebuilt \in @ THEN @ \union {NewName} ELSE @],
                              FALSE, conn)
             [] Step.do \in {"kind_drop", "comp_drop"} ->
                  Writes([View EXCEPT !.tables = @ \ {Rebuilt}, !.rows = @ \ {Rebuilt}], FALSE, conn)
             [] Step.do \in {"kind_rename", "comp_rename"} ->
                  LET rows == IF NewName \in View.rows THEN (View.rows \ {NewName}) \union {Rebuilt}
                                                       ELSE View.rows
                      d == [View EXCEPT !.tables = (@ \ {NewName}) \union {Rebuilt}, !.rows = rows]
                      kept == {c \in View.cols : TableOf(c) # "symbol"} \union RebuiltColumns
                  IN  IF Rebuilt = "symbol"
                      THEN Writes([d EXCEPT !.cols = kept, !.kindInt = TRUE], FALSE,
                                  [conn EXCEPT !.seen = kept])
                      ELSE Writes([d EXCEPT !.perRepo = TRUE], FALSE, conn)

\* Conversions of rows, each gated on the rows that need it, in one transaction.
ConvertRows ==
    /\ conn.pc > 0 /\ Step.do \in {"relativize", "nests", "realizes", "dedup"}
    /\ LET table == IF Step.do = "relativize" THEN "repository" ELSE "entity_edge"
       IN  IF table \notin conn.tables \/ Step.do \in View.done THEN Skips(conn)
           ELSE Writes([View EXCEPT !.done = @ \union {Step.do}], TRUE, Changed)

\* The version is written when anything changed, a table is missing or it is too low, and
\* everything since the transaction began is committed with it.
Stamp ==
    /\ conn.pc > 0 /\ Step.do = "stamp"
    /\ LET tables == {"call_arg", "repository", "label", "diagnostic", "entity_edge",
                      "entity_node", "decl_site", "edge_site"}
           stamps == conn.changed \/ ~(tables \subseteq conn.tables)
                     \/ View.version < SCHEMA_VERSION
       IN  /\ disk' = IF stamps THEN [View EXCEPT !.version = SCHEMA_VERSION] ELSE View
           /\ conn' = [conn EXCEPT !.pc = @ + 1, !.open = FALSE,
                                   !.backfill = "entity_node" \notin conn.tables]
    /\ UNCHANGED <<opened, deaths>>

\* Every table that is not there is created, with all its columns and no rows.
CreateSchema ==
    /\ conn.pc > 0 /\ Step.do = "schema"
    /\ LET missing == AllTables \ View.tables
           d == [View EXCEPT !.tables = @ \union AllTables,
                             !.cols = @ \union {c \in AllColumns : TableOf(c) \in missing},
                             !.kindInt = @ \/ "symbol" \in missing,
                             !.perRepo = @ \/ "component" \in missing,
                             !.done = @ \union (IF "entity_edge" \in missing
                                                THEN {"nests", "realizes", "dedup"} ELSE {})
                                        \union (IF "repository" \in missing
                                                THEN {"relativize"} ELSE {})]
       IN  Writes(d, FALSE, conn)

\* entity_node is filled in a transaction when this opening created it.
FillEntityNodes ==
    /\ conn.pc > 0 /\ Step.do = "entity_nodes"
    /\ disk' = IF conn.backfill THEN [disk EXCEPT !.done = @ \union {"entity_nodes"}] ELSE disk
    /\ conn' = Closed
    /\ opened' = "yes"
    /\ UNCHANGED deaths

\* The process dies and its transaction is lost.
Dies ==
    /\ conn.pc > 0 /\ deaths < MaxDeaths
    /\ (IF Step.do = "column" THEN Step.what ELSE Step.do) \in Dying
    /\ conn' = Closed
    /\ opened' = "no"
    /\ deaths' = deaths + 1
    /\ UNCHANGED disk

Progress ==
    \/ Open \/ AddColumn \/ FillColumn \/ Rebuild \/ ConvertRows \/ Stamp \/ CreateSchema
    \/ FillEntityNodes

MigrationSpec ==
    MigrationInit /\ [][Progress \/ Dies]_migrationVars /\ WF_migrationVars(Progress)

-----------------------------------------------------------------------------
(* Properties.                                                                *)

\* A database that was opened is what this build writes, with every row it had and every
\* conversion made, from whatever version and after whatever interruption.
UpgradeIsComplete == opened = "yes" => disk = Upgraded

\* The upgrade ends: no interruption leaves a database that every later opening refuses.
UpgradeEnds == <>(opened = "yes")

=============================================================================
