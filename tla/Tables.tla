------------------------------- MODULE Tables -------------------------------
(***************************************************************************)
(* How query runners read the schema of a data source (get_schema), while   *)
(* others create, alter and drop its tables. Some ask a catalog once, some  *)
(* list the tables and then ask about one after the other, each time in a   *)
(* request of its own. Tables of another schema than the default one are    *)
(* shown with its name before theirs; as names may have dots in them, two   *)
(* tables may be shown alike. A name is the sequence of its parts. Keys of  *)
(* redis, collections, metrics and indexes are tables here.                 *)
(***************************************************************************)
EXTENDS Naturals, Sequences

CONSTANTS
  Schemas,
  Main,         \* the default schema: public, default, or the configured database
  TableNames,
  ColumnNames,
  MaxChanges    \* bound: the changes that others make during the reading

ASSUME TablesAssumption ==
  /\ Main \in Schemas
  /\ TableNames \subseteq Seq(Schemas \cup STRING)
  /\ MaxChanges \in Nat

VARIABLES
  engine,   \* the type of the data source
  table,    \* the tables: whether they exist, and their columns
  odd,      \* tables that the runner cannot ask about
  reading,  \* get_schema; `kept`, `ever` and `dropped` are history
  changes   \* the changes so far

tableVars == <<engine, table, odd, reading, changes>>

TableIds == Schemas \X TableNames

Catalogs == {"pg", "mysql", "mssql", "db2"}
Walked == {"hive", "sqlite", "mongodb", "redis29"}
Engines == Catalogs \cup Walked \cup {"prometheus", "elasticsearch", "other"}

\* The engines whose runner sees several schemas.
Several == Catalogs \cup {"hive"}
Here == IF engine \in Several THEN TableIds ELSE {Main} \X TableNames

\* Names that would have to be quoted (hive, sqlite), keys that hold no string
\* (redis29), indexes whose mapping has no properties (elasticsearch).
Strict == {"hive", "sqlite", "redis29", "elasticsearch"}

There == {t \in TableIds : table[t].there}
ColumnsOf(t) == table[t].columns

Missing == [there |-> FALSE, columns |-> {}]
Made(columns) == [there |-> TRUE, columns |-> columns]

TablesInit ==
  /\ engine \in Engines
  /\ table \in [TableIds -> {Missing} \cup {Made(S) : S \in SUBSET ColumnNames}]
  /\ There \subseteq Here
  /\ odd \in SUBSET (IF engine \in Strict THEN There ELSE {})
  /\ \E S \in {TableNames} \cup (IF engine = "redis29" THEN {{n} : n \in TableNames} ELSE {}) :
       reading = [pc |-> "ask", match |-> S, todo |-> {}, schema |-> [n \in {} |-> {}],
                  failed |-> FALSE, kept |-> There, dropped |-> {},
                  ever |-> {<<t, ColumnsOf(t)>> : t \in There}]
  /\ changes = 0

-----------------------------------------------------------------------------
(* What others do                                                          *)

Change(t, row) ==
  /\ reading.pc \in {"ask", "describe"}
  /\ t \in Here
  /\ row # table[t]
  /\ changes < MaxChanges
  /\ changes' = changes + 1
  /\ table' = [table EXCEPT ![t] = row]
  /\ reading' = [reading EXCEPT
       !.kept = @ \ {t},
       !.ever = IF row.there THEN @ \cup {<<t, row.columns>>} ELSE @,
       !.dropped = IF row.there THEN @ ELSE @ \cup {t}]
  /\ UNCHANGED <<engine, odd>>

\* CREATE and ALTER; DROP.
Define(t, columns) == Change(t, Made(columns))
Drop(t) == Change(t, Missing)

-----------------------------------------------------------------------------
(* get_schema                                                              *)

\* mssql and db2 compare the schema with a name that it does not have, so that
\* all tables are shown with it.
ElidesMain == engine \notin {"mssql", "db2"}

Shown(t) == IF t[1] = Main /\ ElidesMain THEN t[2] ELSE <<t[1]>> \o t[2]

\* Mutant: an entry is made anew for each row.
CollectedLast(S) == IF \E t \in S : ColumnsOf(t) # {}
                    THEN {CHOOSE c \in UNION {ColumnsOf(t) : t \in S} : TRUE} ELSE {}

\* Each row appends its column to the entry of its table's name.
Collected(S) == UNION {ColumnsOf(t) : t \in S}

Ends(pc, schema) ==
  /\ reading' = [reading EXCEPT !.pc = pc, !.schema = schema]
  /\ UNCHANGED <<engine, table, odd, changes>>

\* _get_tables and _get_definitions: a row for each column of the catalog; a
\* table without columns has none.
AskCatalog ==
  /\ reading.pc = "ask"
  /\ engine \in Catalogs
  /\ LET listed == {t \in There : ColumnsOf(t) # {}}
     IN Ends("done", [n \in {Shown(t) : t \in listed} |-> Collected({t \in listed : Shown(t) = n})])

\* The names of all metrics.
AskMetrics ==
  /\ reading.pc = "ask"
  /\ engine = "prometheus"
  /\ Ends("done", [n \in {Shown(t) : t \in There} |-> {}])

\* parse_doc raises a KeyError for a mapping without properties.
AskMappings ==
  /\ reading.pc = "ask"
  /\ engine = "elasticsearch"
  /\ IF There \cap odd # {} THEN Ends("error", <<>>)
     ELSE Ends("done", [n \in {Shown(t) : t \in There} |->
            Collected({t \in There : Shown(t) = n})])

\* "Data source type does not support retrieving schema"
NotSupported ==
  /\ reading.pc = "ask"
  /\ engine = "other"
  /\ Ends("error", <<>>)

\* The tables are listed: those of all schemas, those of the database, or the
\* keys that begin with the prefix.
List ==
  /\ reading.pc = "ask"
  /\ engine \in Walked
  /\ reading' = [reading EXCEPT !.pc = "describe", !.todo = {t \in There : t[2] \in reading.match}]
  /\ UNCHANGED <<engine, table, odd, changes>>

\* An entry is set; one of the same name is replaced.
Enter(t, columns) ==
  /\ reading' = [reading EXCEPT
       !.todo = @ \ {t},
       !.schema = [n \in DOMAIN @ \cup {Shown(t)} |-> IF n = Shown(t) THEN columns ELSE @[n]]]
  /\ UNCHANGED <<engine, table, odd, changes>>

Asks(t, name) == reading.pc = "describe" /\ engine = name /\ t \in reading.todo

\* "show columns in %s.%s"
DescribeHive(t) ==
  /\ Asks(t, "hive")
  /\ IF t \in There \ odd THEN Enter(t, ColumnsOf(t)) ELSE Ends("error", <<>>)

\* "PRAGMA table_info(%s)" has no rows for a table that is gone, which run_query
\* makes an error of.
DescribeSqlite(t) ==
  /\ Asks(t, "sqlite")
  /\ IF t \in There \ odd THEN Enter(t, ColumnsOf(t)) ELSE Ends("error", <<>>)

\* The properties of the first and the last document, or of two of a view; those
\* of a collection that is gone or empty are none.
DescribeCollection(t) ==
  /\ Asks(t, "mongodb")
  /\ \E S \in SUBSET ColumnsOf(t) : Enter(t, S)

\* GET fails for a key that holds no string; a key that is gone or without data
\* is left out.
DescribeKey(t) ==
  /\ Asks(t, "redis29")
  /\ IF t \in odd /\ t \in There THEN Ends("error", <<>>)
     ELSE IF ColumnsOf(t) # {} THEN Enter(t, ColumnsOf(t))
     ELSE /\ reading' = [reading EXCEPT !.todo = @ \ {t}]
          /\ UNCHANGED <<engine, table, odd, changes>>

Described ==
  /\ reading.pc = "describe"
  /\ reading.todo = {}
  /\ Ends("done", reading.schema)

\* A request fails: an exception, except that elasticsearch answers with nothing,
\* which goes into the cache like any other schema.
RequestFails ==
  /\ reading.pc \in {"ask", "describe"}
  /\ reading' = [reading EXCEPT !.failed = TRUE,
       !.pc = IF engine = "elasticsearch" THEN "done" ELSE "error"]
  /\ UNCHANGED <<engine, table, odd, changes>>

-----------------------------------------------------------------------------
TablesNext ==
  \/ \E t \in TableIds : Drop(t) \/ \E columns \in SUBSET ColumnNames : Define(t, columns)
  \/ AskCatalog \/ AskMetrics \/ AskMappings \/ NotSupported
  \/ List \/ Described \/ RequestFails
  \/ \E t \in TableIds :
       DescribeHive(t) \/ DescribeSqlite(t) \/ DescribeCollection(t) \/ DescribeKey(t)

TablesSpec == TablesInit /\ [][TablesNext]_tableVars

-----------------------------------------------------------------------------
(* Properties                                                              *)

\* The types of the state.
TablesTypeOK ==
  /\ engine \in Engines
  /\ table \in [TableIds -> [there : BOOLEAN, columns : SUBSET ColumnNames]]
  /\ There \subseteq Here /\ odd \subseteq Here
  /\ reading.pc \in {"ask", "describe", "done", "error"}
  /\ reading.todo \subseteq Here /\ reading.kept \subseteq There
  /\ \A n \in DOMAIN reading.schema : reading.schema[n] \subseteq ColumnNames
  /\ changes \in 0..MaxChanges

\* No other table is shown like this one, at any time of the reading.
Alone(t) == \A e \in reading.ever : Shown(e[1]) = Shown(t) => e[1] = t

\* Tables without columns are not shown by some; a prefix hides keys.
Expected(t) ==
  /\ t[2] \in reading.match
  /\ engine \in Catalogs \cup {"redis29"} => ColumnsOf(t) # {}

\* get_schema of the runners: the schema has every table that nobody changed
\* meanwhile, with just its columns (of a collection perhaps not all, of a metric
\* none), and nothing that was not there at some time, unless two are shown alike
\* or elasticsearch has failed; and it is only missing if a request failed, a
\* table was dropped before it was asked about, or there is one of an odd kind.
SchemaIsTrue ==
  /\ reading.pc = "done" =>
       /\ \A t \in reading.kept : Expected(t) /\ Alone(t) /\ ~reading.failed =>
            /\ Shown(t) \in DOMAIN reading.schema
            /\ \/ engine \in {"mongodb", "prometheus"}
               \/ reading.schema[Shown(t)] = ColumnsOf(t)
       /\ \A n \in DOMAIN reading.schema, c \in ColumnNames :
            /\ \E e \in reading.ever : Shown(e[1]) = n
            /\ c \in reading.schema[n] =>
                 \E e \in reading.ever : Shown(e[1]) = n /\ c \in e[2]
  /\ reading.pc = "error" =>
       \/ reading.failed \/ engine = "other"
       \/ engine \in {"hive", "sqlite"} /\ reading.dropped # {}
       \/ \E e \in reading.ever : e[1] \in odd

=============================================================================
