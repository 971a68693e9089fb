---------------------------- MODULE MCSequential ----------------------------
(***************************************************************************)
(* An instance of the modules about code that no other process takes part   *)
(* in, but for the signals, failures and changes that reach it: when a      *)
(* query is due (Schedule), how query runners execute it (Runners), what    *)
(* columns they make of an answer (Columns) and how they read a schema      *)
(* (Tables). They share no variable, so one of them moves in each behaviour. *)
(***************************************************************************)
EXTENDS MCSchedule, Runners, Columns, Tables

\* An empty cell, "a", and the name fetch_columns gives to a second "a".
NamesOfColumns == {<<>>, <<10>>, <<10, 1>>}

\* The table "t", and one whose name begins with that of the other schema.
NamesOfTables == {<<"t">>, <<"other", "t">>}

VARIABLE part  \* the module that moves

\* Of the modules that do not move, one state is enough: a query that runs every
\* second, the drivers' first, an answer without a header, and a data source
\* without tables. Tables have all columns or none at first.
SequentialInit ==
  /\ part \in {"schedule", "runners", "columns", "tables"}
  /\ Init
  /\ part # "schedule" => schedule = Every(1) /\ last = [day |-> 0, minute |-> 0, second |-> 0]
  /\ RunnersInit /\ (part # "runners" => driver = "pg" /\ caller = "executor")
  /\ ColumnsInit /\ (part # "columns" => source = "documents" /\ ~fields)
  /\ TablesInit
  /\ IF part = "tables" THEN \A t \in TableIds : ColumnsOf(t) \in {{}, ColumnNames}
     ELSE engine = "other" /\ There = {}

SequentialNext ==
  /\ \/ part = "schedule" /\ Next /\ UNCHANGED <<runnerVars, columnVars, tableVars>>
     \/ part = "runners" /\ RunnersNext /\ UNCHANGED <<vars, columnVars, tableVars>>
     \/ part = "columns" /\ ColumnsNext /\ UNCHANGED <<vars, runnerVars, tableVars>>
     \/ part = "tables" /\ TablesNext /\ UNCHANGED <<vars, runnerVars, columnVars>>
  /\ UNCHANGED part

SequentialSpec ==
  SequentialInit /\ [][SequentialNext]_<<part, vars, runnerVars, columnVars, tableVars>>

=============================================================================
