------------------------------ MODULE Runners ------------------------------
(***************************************************************************)
(* One execution of a query by the driver of its data source: run_query of  *)
(* each query runner, called by a QueryExecutor or by the command that      *)
(* tests a data source. A signal makes an exception wherever the process is *)
(* (InterruptException when a job is cancelled, KeyboardInterrupt at the     *)
(* command), but within a call to a C library only when the call returns.   *)
(* The drivers differ in what they do before and inside their try statement,*)
(* which exceptions they make an error of, whether they cancel the statement*)
(* and whether they close the connection. Conversion of values is left out. *)
(***************************************************************************)
EXTENDS Naturals

CONSTANT MaxSignals  \* bound: the signals of one execution

ASSUME RunnersAssumption == MaxSignals \in Nat

VARIABLES
  driver,      \* the driver that runs the query
  nested,      \* whether it is Query Results, and runs a query of redis first
  caller,      \* who called it
  step,        \* where run_query is
  connection,  \* as far as run_query closes it itself
  statement,   \* the statement or request, at the server
  file,        \* whether there is a file of a download
  exception,   \* the exception that is handled, and where it came from
  outcome,     \* what run_query returns or raises
  signals,     \* the signals so far
  places,      \* history: where exceptions came from
  lost         \* history: the server was lost while the statement was running, or
               \* could not be told to cancel it

runnerVars ==
  <<driver, nested, caller, step, connection, statement, file, exception, outcome, signals, places, lost>>

\* Where an exception may come from, and its kinds: the database's or the HTTP
\* library's own, any other, and those that a signal makes.
Places == {"first", "query", "answer", "convert"}
Kinds == {"server", "other", "interrupt", "keyboard"}
Inside == Places \ {"first"}

-----------------------------------------------------------------------------
(* The drivers                                                             *)

(* first: what comes before the query; waits: whether it is a C library     *)
(* that waits for the server; try: the places inside the try statement;      *)
(* caught: which kinds of exceptions become an error where; swallows: which   *)
(* may be lost where; broken: where, and with which connection, the clause    *)
(* for a signal raises itself; cancels: whether it cancels the statement;     *)
(* closes: whether the connection is closed; pages: whether there may be      *)
(* further requests; downloads: whether the answer is written to a file.      *)
Plain ==
  [first |-> {"connection"}, waits |-> "python", try |-> Inside, caught |-> {},
   swallows |-> {}, broken |-> {}, cancels |-> FALSE, closes |-> TRUE, pages |-> FALSE,
   downloads |-> FALSE]

\* Mutant: only the interrupt key is thought of.
PgKeyboardOnly == [Plain EXCEPT !.caught = Inside \X {"server", "keyboard"}, !.cancels = TRUE]

\* psycopg2, used asynchronously: select is what waits.
Pg == [Plain EXCEPT !.caught = Inside \X {"server", "interrupt", "keyboard"}, !.cancels = TRUE]

\* `cursor` has no value before there is a connection, and a little longer.
Mysql == [Plain EXCEPT !.waits = "library", !.try = Places,
  !.caught = Places \X {"server", "keyboard"}, !.broken = {"first"} \X {"none", "open"}]

\* `connection` is None before there is one.
Mssql == [Plain EXCEPT !.waits = "library", !.try = Places,
  !.caught = Places \X {"server", "keyboard"}, !.broken = {<<"first", "none">>}, !.cancels = TRUE]

Db2 == [Plain EXCEPT !.waits = "library",
  !.caught = Inside \X {"server", "interrupt", "keyboard"}, !.cancels = TRUE]

\* Other exceptions are raised again with their texts decoded; connections of
\* sqlite3 have no method cancel.
Sqlite == [Plain EXCEPT !.waits = "library", !.caught = Inside \X {"keyboard"},
  !.broken = Inside \X {"open"}]

Hive == [Plain EXCEPT !.try = Places, !.caught = Places \X {"keyboard"}, !.cancels = TRUE]

\* The client has a pool, which nobody closes.
Mongodb == [Plain EXCEPT !.try = {}, !.closes = FALSE]

\* An exception in json.loads, while the query is parsed, leaves the text itself
\* as the key; one in the computation of an extra column, whatever it is, leaves
\* its expression as the value. Elsewhere they are raised.
Redis29 == [Plain EXCEPT !.try = Places, !.caught = Places \X {"keyboard"}, !.closes = FALSE,
  !.swallows = ({"first"} \X {"other", "interrupt"}) \cup ({"convert"} \X Kinds)]

\* The queries it refers to are run first, or their results are read. An error or
\* exception of theirs is raised, but what redis loses is lost here too.
QueryResults == [Plain EXCEPT !.first = {"connection", "request"}, !.waits = "library",
  !.caught = Inside \X {"keyboard"}, !.broken = Inside \X {"open"}]

\* What a query of redis that is run first may lose.
NestedSwallows == {"first"} \X {"other", "interrupt"}

Web == [Plain EXCEPT !.first = {}, !.try = Places, !.closes = FALSE]

\* except Exception: the error is the text of the exception.
Influx == [Web EXCEPT !.caught = Places \X {"server", "other", "interrupt"}]
Graphite == [Web EXCEPT !.caught = Places \X {"server", "other", "interrupt"}]

\* Mutant: a bare except around the conversion of each label.
PrometheusBare == [Web EXCEPT !.caught = Places \X {"server", "keyboard"},
  !.swallows = {"convert"} \X Kinds]

Prometheus == [Web EXCEPT !.caught = Places \X {"server", "keyboard"}]

\* The mappings are asked for first; the clause for KeyboardInterrupt logs `e`,
\* which has no value.
Elasticsearch == [Web EXCEPT !.first = {"request"}, !.caught = Places \X {"server", "keyboard"},
  !.broken = Places \X {"none"}]

\* The definition of the adapter is asked for before the try statement.
Oslc == [Web EXCEPT !.first = {"request"}, !.try = Inside,
  !.caught = (Places \X {"server"}) \cup (Inside \X {"keyboard"})]

\* get_response makes an error of what requests raises.
Url == [Web EXCEPT !.caught = Places \X {"server", "keyboard"}]
Jql == [Web EXCEPT !.caught = Places \X {"server", "keyboard"}, !.pages = TRUE]
Excel == [Web EXCEPT !.caught = Places \X {"server", "keyboard"}, !.downloads = TRUE]
Csv == [Web EXCEPT !.caught = Places \X {"server", "keyboard"}, !.downloads = TRUE]

Driver ==
  [pg |-> Pg, mysql |-> Mysql, mssql |-> Mssql, db2 |-> Db2, sqlite |-> Sqlite, hive |-> Hive,
   mongodb |-> Mongodb, redis29 |-> Redis29, results |-> QueryResults, influxdb |-> Influx,
   graphite |-> Graphite, prometheus |-> Prometheus, elasticsearch |-> Elasticsearch,
   oslc |-> Oslc, url |-> Url, jirajql |-> Jql, excel |-> Excel, csv |-> Csv]

Drivers == DOMAIN Driver
This == Driver[driver]

\* In these the statement runs within the process.
Local == {"sqlite", "results"}

\* The drivers with a query for test_connection to run.
Testable == {"pg", "mysql", "mssql", "db2", "sqlite", "hive", "results", "influxdb", "jirajql"}

RunnersInit ==
  /\ driver \in Drivers
  /\ caller \in {"executor"} \cup (IF driver \in Testable THEN {"command"} ELSE {})
  /\ nested \in BOOLEAN
  /\ nested => driver = "results" /\ caller = "executor"
  /\ step = "first"
  /\ connection = "none"
  /\ statement = "none"
  /\ file = FALSE
  /\ exception = [kind |-> "none", place |-> "none"]
  /\ outcome = "none"
  /\ signals = 0
  /\ places = {}
  /\ lost = FALSE

-----------------------------------------------------------------------------
(* Exceptions                                                              *)

\* What is not closed in a finally clause is left to the garbage collector.
LeaveOpen == connection' = IF connection = "open" THEN "left" ELSE connection

Swallowed == This.swallows \cup (IF nested THEN NestedSwallows ELSE {})

\* An exception at the present step.
Throw(kind) ==
  /\ places' = places \cup {step}
  /\ \/ /\ <<step, kind>> \in Swallowed
        /\ UNCHANGED <<step, connection, exception, outcome>>
     \/ /\ <<step, kind>> \in This.caught
        /\ step' = "except"
        /\ exception' = [kind |-> kind, place |-> step]
        /\ UNCHANGED <<connection, outcome>>
     \/ /\ <<step, kind>> \notin This.caught
        /\ outcome' = "raised"
        /\ IF step \in This.try \cup {"except"}
           THEN step' = "finally" /\ UNCHANGED connection
           ELSE step' = "over" /\ LeaveOpen
        /\ UNCHANGED exception

\* SIGINT from the revocation of the job (signal_handler), or from a terminal.
\* What a C library waits for must come first.
Signal ==
  /\ step # "over"
  /\ signals < MaxSignals
  /\ step = "answer" /\ This.waits = "library" => statement # "running"
  /\ signals' = signals + 1
  /\ Throw(IF caller = "executor" THEN "interrupt" ELSE "keyboard")
  /\ UNCHANGED <<driver, nested, caller, statement, file, lost>>

\* The hard time limit of a job: SIGKILL.
TimeLimit ==
  /\ caller = "executor"
  /\ step # "over"
  /\ step' = "over"
  /\ outcome' = "killed"
  /\ connection' = IF connection = "open" THEN "closed" ELSE connection
  /\ statement' = IF driver \in Local /\ statement = "running" THEN "cancelled" ELSE statement
  /\ UNCHANGED <<driver, nested, caller, file, exception, signals, places, lost>>

-----------------------------------------------------------------------------
(* The server                                                              *)

\* It ends the statement, also one that nobody waits for any more.
ServerEnds(how) ==
  /\ statement = "running"
  /\ statement' = how
  /\ UNCHANGED <<driver, nested, caller, step, connection, file, exception, outcome, signals, places, lost>>

-----------------------------------------------------------------------------
(* run_query                                                               *)

Connect ==
  /\ step = "first"
  /\ "connection" \in This.first
  /\ connection = "none"
  /\ connection' = "open"
  /\ UNCHANGED <<driver, nested, caller, step, statement, file, exception, outcome, signals, places, lost>>

\* The configuration or the text of the query is refused by the driver.
Refuse ==
  /\ step = "first"
  /\ step' = "finally"
  /\ outcome' = "error"
  /\ UNCHANGED <<driver, nested, caller, connection, statement, file, exception, signals, places, lost>>

\* There is no connection, or an answer that is needed before the query.
FirstFails(kind) ==
  /\ step = "first"
  /\ Throw(kind)
  /\ UNCHANGED <<driver, nested, caller, statement, file, signals, lost>>

Prepared ==
  /\ step = "first"
  /\ "connection" \in This.first => connection = "open"
  /\ step' = "query"
  /\ UNCHANGED <<driver, nested, caller, connection, statement, file, exception, outcome, signals, places, lost>>

Send ==
  /\ step = "query"
  /\ step' = "answer"
  /\ statement' = "running"
  /\ UNCHANGED <<driver, nested, caller, connection, file, exception, outcome, signals, places, lost>>

Receive ==
  /\ step = "answer"
  /\ statement = "done"
  /\ step' = "convert"
  /\ file' = This.downloads
  /\ UNCHANGED <<driver, nested, caller, connection, statement, exception, outcome, signals, places, lost>>

AnswerIsError ==
  /\ step = "answer"
  /\ statement = "failed"
  /\ Throw("server")
  /\ UNCHANGED <<driver, nested, caller, statement, file, signals, lost>>

\* The connection is lost, or poll fails, while the statement is running.
Lose ==
  /\ step = "answer"
  /\ statement = "running"
  /\ driver \notin Local
  /\ lost' = TRUE
  /\ Throw("server")
  /\ UNCHANGED <<driver, nested, caller, statement, file, signals>>

\* Jira has more issues than it has sent.
NextPage ==
  /\ step = "convert"
  /\ This.pages
  /\ step' = "query"
  /\ UNCHANGED <<driver, nested, caller, connection, statement, file, exception, outcome, signals, places, lost>>

ConvertFails ==
  /\ step = "convert"
  /\ Throw("other")
  /\ UNCHANGED <<driver, nested, caller, statement, file, signals, lost>>

\* Rows and columns, or "No data was returned".
Converted(result) ==
  /\ step = "convert"
  /\ step' = "finally"
  /\ outcome' = result
  /\ file' = FALSE
  /\ UNCHANGED <<driver, nested, caller, connection, statement, exception, signals, places, lost>>

\* An except clause: an error, after the statement has been cancelled if it was
\* a signal and the driver does so. To cancel is a request of its own (psycopg2
\* opens a connection for it), which may fail and leave the statement alone.
Handle ==
  /\ step = "except"
  /\ step' = "finally"
  /\ IF exception.kind \in {"server", "other"}
     THEN outcome' = "error" /\ UNCHANGED <<statement, lost>>
     ELSE IF <<exception.place, connection>> \in This.broken
     THEN outcome' = "raised" /\ UNCHANGED <<statement, lost>>
     ELSE \/ /\ outcome' = "error"
             /\ statement' = IF This.cancels /\ statement = "running" THEN "cancelled" ELSE statement
             /\ UNCHANGED lost
          \/ /\ This.cancels
             /\ outcome' = "raised"
             /\ lost' = (lost \/ statement = "running")
             /\ UNCHANGED statement
  /\ UNCHANGED <<driver, nested, caller, connection, file, exception, signals, places>>

\* The finally clause, if there is one, and the return.
Finish ==
  /\ step = "finally"
  /\ step' = "over"
  /\ IF This.closes /\ connection = "open" THEN connection' = "closed" ELSE LeaveOpen
  /\ UNCHANGED <<driver, nested, caller, statement, file, exception, outcome, signals, places, lost>>

-----------------------------------------------------------------------------
RunnersNext ==
  \/ Connect \/ Refuse \/ Prepared \/ Send \/ Receive \/ AnswerIsError \/ Lose \/ NextPage
  \/ ConvertFails \/ Handle \/ Finish \/ Signal \/ TimeLimit
  \/ \E kind \in {"server", "other"} : FirstFails(kind)
  \/ \E result \in {"data", "error"} : Converted(result)
  \/ \E how \in {"done", "failed"} : ServerEnds(how)

RunnersSpec == RunnersInit /\ [][RunnersNext]_runnerVars

-----------------------------------------------------------------------------
(* Properties                                                              *)

\* The types of the state.
RunnersTypeOK ==
  /\ driver \in Drivers /\ caller \in {"executor", "command"} /\ nested \in BOOLEAN
  /\ step \in Places \cup {"except", "finally", "over"}
  /\ connection \in {"none", "open", "closed", "left"}
  /\ statement \in {"none", "running", "done", "failed", "cancelled"}
  /\ file \in BOOLEAN
  /\ exception \in [kind : Kinds \cup {"none"}, place : Places \cup {"none"}]
  /\ outcome \in {"none", "data", "error", "raised", "killed"}
  /\ signals \in 0..MaxSignals
  /\ places \subseteq Places \cup {"except", "finally"}
  /\ lost \in BOOLEAN

\* tasks/queries.py:314-335: when a job is cancelled while its query runs, and
\* run_query ends by itself, it has no data and the job fails. Only redis29 may go
\* on to data, if the signal came while it parsed the query (redis29.py:205) or
\* computed an extra column (__init__.py:360), and so may Query Results, if the
\* signal came while it ran such a query first (query_results.py:53).
CancelledHasNoData ==
  step = "over" /\ signals > 0 /\ outcome = "data" =>
    \/ driver = "redis29" /\ places \cap {"first", "convert"} # {}
    \/ driver = "results" /\ nested /\ "first" \in places

\* pg.py:180-213 and the other drivers: once run_query is over, no statement of
\* it is running at a SQL server, unless a second signal came before the first
\* had cancelled it, or the server was lost or could not be told; a connection is
\* left open only if the driver has no finally clause or an exception came outside
\* the try statement; and a download is left only if its conversion was ended. The
\* queries that Query Results runs first end in a run_query of their own.
NothingIsLeftBehind ==
  step = "over" /\ outcome # "killed" =>
    /\ statement = "running" =>
         driver \notin {"pg", "mysql", "mssql", "db2"} \cup Local \/ lost
           \/ "except" \in places
    /\ connection = "left" =>
         ~This.closes \/ "finally" \in places \/ places \cap (Places \ This.try) # {}
    /\ file => "convert" \in places

=============================================================================
