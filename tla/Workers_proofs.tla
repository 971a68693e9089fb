---------------------------- MODULE Workers_proofs ----------------------------
(***************************************************************************)
(* Proofs about what the workers do beside the jobs, for any number of     *)
(* users, tasks, data sources, tables, rows, signals and losses: the types *)
(* of ScheduledRefresh, SchemaCache, Activity, Runners, Tables and         *)
(* Columns, what a cancelled query returns and leaves behind, when         *)
(* active_at may change, that a schema shows the tables that are there and *)
(* that the columns of an answer describe its rows.                        *)
(***************************************************************************)
EXTENDS ScheduledRefresh, SchemaCache, Runners, Activity, Tables, Columns,
        FiniteSetTheorems, WellFoundedInduction, TLAPS

-----------------------------------------------------------------------------
(* Runners: the drivers                                                    *)

Careful == {"pg", "mysql", "mssql", "db2"} \cup Local

\* Where run_query may be while a statement of a careful driver runs, if nothing
\* unusual has happened: it waits for the answer, or is about to cancel.
RunningIsWaitedFor ==
  statement = "running" /\ driver \in Careful /\ ~lost /\ "except" \notin places /\ outcome # "killed"
    => \/ step = "answer"
       \/ driver = "pg" /\ step = "except" /\ exception.kind \in {"interrupt", "keyboard"}

\* Where a signal may have been lost.
SignalLost ==
  \/ driver = "redis29" /\ places \cap {"first", "convert"} # {}
  \/ driver = "results" /\ nested /\ "first" \in places

RunnersInv ==
  /\ RunnersTypeOK
  /\ step \in Places \cup {"except"} => outcome = "none"
  /\ outcome = "killed" => step = "over"
  /\ nested => driver = "results"
  /\ signals > 0 => \/ step \in {"except", "finally", "over"} /\ outcome # "data"
                    \/ SignalLost
  /\ RunningIsWaitedFor
  /\ connection = "left" =>
       ~This.closes \/ "finally" \in places \/ places \cap (Places \ This.try) # {}
  /\ file => This.downloads /\ (step = "convert" \/ "convert" \in places \/ outcome = "killed")

\* What the proofs need to know of the drivers: only that of redis loses exceptions
\* itself, while it parses or converts; the careful ones but psycopg2 wait in a C
\* library, and psycopg2 cancels.
Known(d) ==
  LET D == Driver[d]
  IN /\ D.try \subseteq Places /\ D.caught \subseteq Places \X Kinds
     /\ d # "redis29" => D.swallows = {}
     /\ D.swallows \subseteq {"first", "convert"} \X Kinds
     /\ D.closes \in BOOLEAN /\ D.downloads \in BOOLEAN /\ (D.pages => ~D.downloads)
     /\ d \in Careful \ {"pg"} => D.waits = "library"
     /\ d = "pg" => /\ D.caught = Inside \X {"server", "interrupt", "keyboard"}
                    /\ D.broken = {} /\ D.cancels

LEMMA DriversAreKnown == \A d \in Drivers : Known(d)
<1> USE DEF Known, Driver, Plain, Web, Careful, Local, Places, Kinds, Inside
<1>1. Known("pg")
  BY DEF Pg
<1>2. Known("mysql")
  BY DEF Mysql
<1>3. Known("mssql")
  BY DEF Mssql
<1>4. Known("db2")
  BY DEF Db2
<1>5. Known("sqlite")
  BY DEF Sqlite
<1>6. Known("hive")
  BY DEF Hive
<1>7. Known("mongodb")
  BY DEF Mongodb
<1>8. Known("redis29")
  BY DEF Redis29
<1>9. Known("results")
  BY DEF QueryResults
<1>10. Known("influxdb")
  BY DEF Influx
<1>11. Known("graphite")
  BY DEF Graphite
<1>12. Known("prometheus")
  BY DEF Prometheus
<1>13. Known("elasticsearch")
  BY DEF Elasticsearch
<1>14. Known("oslc")
  BY DEF Oslc
<1>15. Known("url")
  BY DEF Url
<1>16. Known("jirajql")
  BY DEF Jql
<1>17. Known("excel")
  BY DEF Excel
<1>18. Known("csv")
  BY DEF Csv
<1> HIDE DEF Known, Driver
<1>19. Drivers = {"pg", "mysql", "mssql", "db2", "sqlite", "hive", "mongodb", "redis29", "results",
                  "influxdb", "graphite", "prometheus", "elasticsearch", "oslc", "url", "jirajql", "excel", "csv"}
  BY DEF Drivers, Driver
<1> QED
  BY <1>1, <1>2, <1>3, <1>4, <1>5, <1>6, <1>7, <1>8, <1>9, <1>10,
     <1>11, <1>12, <1>13, <1>14, <1>15, <1>16, <1>17, <1>18, <1>19

-----------------------------------------------------------------------------
(* Runners: what each step keeps                                           *)

\* An exception: only redis, or what runs it first, goes on after one, and a
\* statement is given up for it only by psycopg2, which will cancel it, or when its
\* server is lost.
LEMMA ThrowKeepsInv ==
  ASSUME RunnersInv, NEW kind \in Kinds, Throw(kind), step # "over",
         UNCHANGED <<driver, nested, caller, statement, file>>,
         lost' \in BOOLEAN, lost => lost', signals' \in 0..MaxSignals,
         statement = "running" /\ step = "answer" /\ driver \in Careful =>
           lost' \/ (driver = "pg" /\ kind \in {"interrupt", "keyboard"})
  PROVE  RunnersInv'
<1> USE DEF RunnersInv, RunnersTypeOK
<1>1. Known(driver) /\ places' = places \cup {step}
  BY DriversAreKnown DEF Throw
<1>2. CASE <<step, kind>> \in Swallowed /\ UNCHANGED <<step, connection, exception, outcome>>
  <2>1. \/ driver = "redis29" /\ step \in {"first", "convert"}
        \/ driver = "results" /\ nested /\ step = "first"
    BY <1>1, <1>2 DEF Swallowed, NestedSwallows, Known, This, Drivers
  <2>2. RunnersTypeOK' /\ RunningIsWaitedFor'
    BY <1>1, <1>2, <2>1 DEF RunningIsWaitedFor, Careful, Local, Places
  <2>3. SignalLost'
    BY <1>1, <2>1 DEF SignalLost
  <2>4. This' = This
    BY DEF This
  <2> QED
    BY <1>1, <1>2, <2>1, <2>2, <2>3, <2>4
<1>3. CASE /\ <<step, kind>> \in This.caught /\ step' = "except"
           /\ exception' = [kind |-> kind, place |-> step] /\ UNCHANGED <<connection, outcome>>
  <2>1. /\ step' = "except" /\ UNCHANGED <<connection, outcome>>
        /\ exception' = [kind |-> kind, place |-> step]
    BY <1>3
  <2>2. step \in Places
    BY <1>1, <1>3 DEF Known, This
  <2>3. RunnersTypeOK'
    BY <1>1, <2>1, <2>2
  <2>4. outcome = "none"
    BY <2>2
  <2>5. RunningIsWaitedFor'
    BY <1>1, <2>1, <2>2 DEF RunningIsWaitedFor, Places
  <2>6. This' = This
    BY DEF This
  <2> QED
    BY <1>1, <2>1, <2>2, <2>3, <2>4, <2>5, <2>6 DEF Places
<1>4. CASE /\ <<step, kind>> \notin This.caught /\ outcome' = "raised" /\ exception' = exception
           /\ IF step \in This.try \cup {"except"}
              THEN step' = "finally" /\ UNCHANGED connection
              ELSE step' = "over" /\ LeaveOpen
  <2>1. outcome' = "raised" /\ exception' = exception /\ This' = This
    BY <1>4 DEF This
  <2>2. \/ step' = "finally" /\ connection' = connection
        \/ /\ step \notin This.try \cup {"except"} /\ step' = "over"
           /\ connection' = IF connection = "open" THEN "left" ELSE connection
    BY <1>4 DEF LeaveOpen
  <2>3. RunnersTypeOK'
    BY <1>1, <2>1, <2>2 DEF Places
  <2>4. RunningIsWaitedFor'
    <3>1. statement = "running" /\ driver \in Careful /\ ~lost' => "except" \in places'
      <4>1. SUFFICES ASSUME statement = "running", driver \in Careful, ~lost', "except" \notin places'
                     PROVE  FALSE
        OBVIOUS
      <4>2. step = "answer"
        BY <1>1, <4>1 DEF RunningIsWaitedFor
      <4>3. <<step, kind>> \in This.caught
        BY <1>1, <4>1, <4>2 DEF Known, This, Inside, Places
      <4> QED
        BY <1>4, <4>3
    <3> QED
      BY <3>1 DEF RunningIsWaitedFor
  <2>5. connection' = "left" =>
          ~This.closes \/ "finally" \in places' \/ places' \cap (Places \ This.try) # {}
    BY <1>1, <2>2
  <2> QED
    BY <1>1, <2>1, <2>2, <2>3, <2>4, <2>5 DEF Places
<1> QED
  BY <1>2, <1>3, <1>4 DEF Throw

LEMMA RunnerStepsKeepInv ==
  ASSUME RunnersInv, RunnersNext
  PROVE  RunnersInv'
<1> USE DEF RunnersInv, RunnersTypeOK
<1>1. Known(driver)
  BY DriversAreKnown
<1>2. CASE Signal
  <2>1. PICK kind \in {"interrupt", "keyboard"} : Throw(kind)
    BY <1>2 DEF Signal
  <2>2. /\ step # "over" /\ signals' = signals + 1 /\ signals < MaxSignals
        /\ UNCHANGED <<driver, nested, caller, statement, file, lost>>
        /\ step = "answer" /\ This.waits = "library" => statement # "running"
    BY <1>2 DEF Signal
  <2>3. signals' \in 0..MaxSignals
    BY <2>2, RunnersAssumption
  <2>4. statement = "running" /\ step = "answer" /\ driver \in Careful => driver = "pg"
    BY <1>1, <2>2 DEF Known, This
  <2> QED
    BY <2>1, <2>2, <2>3, <2>4, ThrowKeepsInv DEF Kinds
<1>3. ASSUME NEW kind \in {"server", "other"}, FirstFails(kind)
      PROVE  RunnersInv'
  BY <1>3, ThrowKeepsInv DEF FirstFails, Kinds
<1>4. CASE AnswerIsError
  BY <1>4, ThrowKeepsInv DEF AnswerIsError, Kinds
<1>5. CASE Lose
  BY <1>5, ThrowKeepsInv DEF Lose, Kinds
<1>6. CASE ConvertFails
  <2>1. Throw("other") /\ step = "convert" /\ UNCHANGED <<driver, nested, caller, statement, file, signals, lost>>
    BY <1>6 DEF ConvertFails
  <2> QED
    BY <2>1, ThrowKeepsInv DEF Kinds
<1>7. CASE Connect
  BY <1>7 DEF Connect, This, SignalLost, RunningIsWaitedFor, Places
<1>8. CASE Refuse
  BY <1>8 DEF Refuse, This, SignalLost, RunningIsWaitedFor, Places
<1>9. CASE Prepared
  BY <1>9 DEF Prepared, This, SignalLost, RunningIsWaitedFor, Places
<1>10. CASE Send
  BY <1>10 DEF Send, This, SignalLost, RunningIsWaitedFor, Places
<1>11. CASE Receive
  <2>1. This.downloads \in BOOLEAN
    BY <1>1 DEF Known, This
  <2> QED
    BY <1>11, <2>1 DEF Receive, This, SignalLost, RunningIsWaitedFor, Places
<1>12. CASE NextPage
  <2>1. ~This.downloads
    BY <1>1, <1>12 DEF NextPage, Known, This
  <2> QED
    BY <1>12, <2>1 DEF NextPage, This, SignalLost, RunningIsWaitedFor, Places
<1>13. ASSUME NEW result \in {"data", "error"}, Converted(result)
       PROVE  RunnersInv'
  <2>1. /\ step = "convert" /\ step' = "finally" /\ outcome' = result /\ file' = FALSE
        /\ UNCHANGED <<driver, nested, caller, connection, statement, exception, signals, places, lost>>
    BY <1>13 DEF Converted
  <2>2. RunnersTypeOK' /\ RunningIsWaitedFor'
    BY <1>13, <2>1 DEF RunningIsWaitedFor
  <2>3. signals > 0 => SignalLost'
    BY <2>1 DEF SignalLost
  <2> QED
    BY <1>13, <2>1, <2>2, <2>3 DEF This, Places
<1>14. CASE Handle
  <2>1. /\ step = "except" /\ step' = "finally" /\ outcome' \in {"error", "raised"}
        /\ statement' \in {statement, "cancelled"} /\ lost' \in BOOLEAN /\ (lost => lost')
        /\ UNCHANGED <<driver, nested, caller, connection, file, exception, signals, places>>
    BY <1>14 DEF Handle
  <2>2. RunningIsWaitedFor'
    <3>1. driver = "pg" /\ exception.kind \in {"interrupt", "keyboard"} /\ ~lost'
            => statement' # "running"
      BY <1>1, <1>14 DEF Handle, Known, This
    <3> QED
      BY <2>1, <3>1 DEF RunningIsWaitedFor
  <2> QED
    BY <2>1, <2>2 DEF This, Places, SignalLost
<1>15. CASE Finish
  <2>1. /\ step = "finally" /\ step' = "over"
        /\ UNCHANGED <<driver, nested, caller, statement, file, exception, outcome, signals, places, lost>>
        /\ connection' = IF connection = "open" THEN IF This.closes THEN "closed" ELSE "left" ELSE connection
    BY <1>15 DEF Finish, LeaveOpen
  <2> QED
    BY <2>1 DEF This, SignalLost, RunningIsWaitedFor, Places
<1>16. CASE TimeLimit
  BY <1>16 DEF TimeLimit, This, SignalLost, RunningIsWaitedFor, Places
<1>17. ASSUME NEW how \in {"done", "failed"}, ServerEnds(how)
       PROVE  RunnersInv'
  BY <1>17 DEF ServerEnds, This, SignalLost, RunningIsWaitedFor, Places
<1> QED
  BY <1>2, <1>3, <1>4, <1>5, <1>6, <1>7, <1>8, <1>9, <1>10, <1>11, <1>12, <1>13, <1>14, <1>15,
     <1>16, <1>17 DEF RunnersNext

LEMMA RunnersInvHolds == RunnersSpec => []RunnersInv
<1>1. RunnersInit => RunnersInv
  <2> SUFFICES ASSUME RunnersInit PROVE RunnersInv
    OBVIOUS
  <2>1. exception \in [kind : Kinds \cup {"none"}, place : Places \cup {"none"}]
    BY DEF RunnersInit
  <2>2. caller \in {"executor", "command"}
    BY DEF RunnersInit
  <2>3. /\ driver \in Drivers /\ nested \in BOOLEAN /\ (nested => driver = "results") /\ step = "first" /\ connection = "none" /\ statement = "none"
        /\ file = FALSE /\ outcome = "none" /\ signals = 0 /\ places = {} /\ lost = FALSE
    BY DEF RunnersInit
  <2>4. RunnersTypeOK
    <3>1. signals \in 0..MaxSignals /\ step \in Places
      BY <2>3, RunnersAssumption DEF Places
    <3> QED
      BY <2>1, <2>2, <2>3, <3>1 DEF RunnersTypeOK
  <2> QED
    BY <2>3, <2>4 DEF RunnersInv, RunningIsWaitedFor, Places
<1>2. RunnersInv /\ [RunnersNext]_runnerVars => RunnersInv'
  <2>1. CASE UNCHANGED runnerVars
    BY <2>1 DEF runnerVars, RunnersInv, RunnersTypeOK, RunningIsWaitedFor, SignalLost, This
  <2> QED
    BY <2>1, RunnerStepsKeepInv
<1> QED
  BY <1>1, <1>2, PTL DEF RunnersSpec

\* The types of Runners.
THEOREM RunnersTypeCorrect == RunnersSpec => []RunnersTypeOK
<1>1. RunnersInv => RunnersTypeOK
  BY DEF RunnersInv
<1> QED
  BY <1>1, RunnersInvHolds, PTL

\* Whenever a job is cancelled while its query runs, however many signals come,
\* run_query has no data and the job fails, unless an exception came while the
\* driver of redis parsed a query or computed an extra column, be it for this query
\* or for one that Query Results runs first (tasks/queries.py:314-335,
\* redis29.py:205, query_runner/__init__.py:360, query_results.py:53).
THEOREM CancelledQueriesHaveNoData == RunnersSpec => []CancelledHasNoData
<1>1. RunnersInv => CancelledHasNoData
  BY DEF RunnersInv, SignalLost, CancelledHasNoData
<1> QED
  BY <1>1, RunnersInvHolds, PTL

\* Once run_query is over, no statement of it is running at a SQL server, unless a
\* second signal came before the first had cancelled it, or the server was lost or
\* could not be told to cancel it; a connection is left open only if the driver has
\* no finally clause or an exception came outside the try statement; and a download
\* is left only if its conversion was ended (query_runner/pg.py:180-213 and the
\* other drivers).
THEOREM NothingStaysBehind == RunnersSpec => []NothingIsLeftBehind
<1>1. RunnersInv => NothingIsLeftBehind
  BY DEF RunnersInv, RunningIsWaitedFor, Careful, NothingIsLeftBehind
<1> QED
  BY <1>1, RunnersInvHolds, PTL

-----------------------------------------------------------------------------
(* Activity                                                                *)

\* The types of a sync task, with the form of its record.
SyncTyped(x) ==
  /\ x.pc \in {"next", "read", "loaded"}
  /\ x.todo \subseteq People /\ RowsRead(x.rows) /\ x.moved \subseteq DOMAIN x.rows
  /\ x.pc # "next" => x.user \in People \ x.todo /\ x.stamp \in Seconds
  /\ x = IF x.pc = "next" THEN [pc |-> "next", todo |-> x.todo, rows |-> x.rows, moved |-> x.moved]
         ELSE [pc |-> x.pc, todo |-> x.todo, rows |-> x.rows, moved |-> x.moved,
               user |-> x.user, stamp |-> x.stamp]

\* What a sync task will write for a user who is not excused is no earlier than
\* what it has seen in the row, and a second that was in the hash.
SyncOK(x) ==
  /\ x.moved \cap x.todo = {}
  /\ DOMAIN x.rows \subseteq x.moved \cup (IF x.pc = "loaded" THEN {x.user} ELSE {})
  /\ x.pc # "next" => x.user \notin x.moved
  /\ x.pc = "loaded" => x.user \in DOMAIN x.rows /\ x.rows[x.user].stamp = x.stamp
  /\ \A u \in DOMAIN x.rows \ excused : x.rows[u].seen.active <= latest[u]
  /\ \A u \in x.moved \ excused : x.rows[u].seen.active <= x.rows[u].stamp /\ x.rows[u].stamp <= latest[u]

SyncsOK == \A s \in Syncs : sync[s] # Asleep => SyncTyped(sync[s]) /\ SyncOK(sync[s])

\* The rest of the state: the hash and the rows hold what requests have put there.
DataOK ==
  /\ time \in Seconds /\ requests \in 0..MaxRequests /\ losses \in 0..MaxLosses
  /\ arrived \subseteq People \X Seconds
  /\ lastActive \in [People -> 0..MaxTime]
  /\ latest \in [People -> 0..MaxTime]
  /\ details \in [People -> Details]
  /\ excused \subseteq People
  /\ verify \in [Verifiers -> {Asleep} \cup [pc : {"loaded"}, user : People, seen : Details]]
  /\ sync = [s \in Syncs |-> sync[s]]
  /\ \A u \in People : lastActive[u] \in {0, latest[u]}
  /\ \A u \in People \ excused : details[u].active <= latest[u]

ActivityInv == DataOK /\ SyncsOK

\* A task that does nothing is not disturbed by the others.
LEMMA SyncsStayOK ==
  ASSUME ActivityInv, excused \subseteq excused', excused' \subseteq People,
         latest \in [People -> Nat], latest' \in [People -> Nat],
         \A u \in People \ excused' : latest[u] <= latest'[u],
         \A s \in Syncs :
           sync'[s] \in {Asleep, sync[s]} \/ (SyncTyped(sync'[s]) /\ SyncOK(sync[s])')
  PROVE  SyncsOK'
<1> SUFFICES ASSUME NEW s \in Syncs, sync'[s] = sync[s], sync[s] # Asleep
             PROVE  SyncOK(sync[s])'
  BY DEF SyncsOK, ActivityInv, SyncTyped, RowsRead
<1> DEFINE x == sync[s]
<1>1. SyncTyped(x) /\ SyncOK(x)
  BY DEF ActivityInv, SyncsOK
<1>2. \A u \in DOMAIN x.rows : u \in People /\ x.rows[u].seen.active \in Nat /\ x.rows[u].stamp \in Nat
  BY <1>1, ActivityAssumption DEF SyncTyped, RowsRead, Details, Seconds
<1>3. ASSUME NEW u \in DOMAIN x.rows \ excused' PROVE x.rows[u].seen.active <= latest'[u]
  BY <1>1, <1>2, <1>3 DEF SyncOK
<1>4. ASSUME NEW u \in x.moved \ excused'
      PROVE  x.rows[u].seen.active <= x.rows[u].stamp /\ x.rows[u].stamp <= latest'[u]
  BY <1>1, <1>2, <1>4 DEF SyncOK, SyncTyped
<1> QED
  BY <1>1, <1>3, <1>4 DEF SyncOK

LEMMA RequestsKeepActivity ==
  ASSUME ActivityInv,
         \/ SecondPasses \/ \E u \in People : Arrive(u) \/ \E t \in Seconds : HSet(u, t)
  PROVE  ActivityInv' /\ details' = details
<1>1. DataOK /\ MaxTime \in Nat /\ MaxRequests \in Nat
  BY ActivityAssumption DEF ActivityInv
<1>2. CASE SecondPasses
  <2>1. DataOK' /\ UNCHANGED <<sync, excused, latest, details>>
    BY <1>1, <1>2 DEF SecondPasses, DataOK, Seconds
  <2> QED
    BY <2>1 DEF ActivityInv, SyncsOK, SyncOK
<1>3. ASSUME NEW u \in People, Arrive(u)
      PROVE  ActivityInv' /\ details' = details
  <2>1. DataOK' /\ UNCHANGED <<sync, excused, latest, details>>
    BY <1>1, <1>3 DEF Arrive, DataOK
  <2> QED
    BY <2>1 DEF ActivityInv, SyncsOK, SyncOK
<1>4. ASSUME NEW u \in People, NEW t \in Seconds, HSet(u, t)
      PROVE  ActivityInv' /\ details' = details
  <2>1. /\ arrived' = arrived \ {<<u, t>>}
        /\ lastActive' = [lastActive EXCEPT ![u] = t]
        /\ latest' = [latest EXCEPT ![u] = t]
        /\ excused' = IF t < latest[u] THEN excused \cup {u} ELSE excused
        /\ UNCHANGED <<time, details, sync, verify, requests, losses>>
    BY <1>4 DEF HSet
  <2>2. \A p \in People : latest[p] \in 0..MaxTime /\ details[p].active \in 0..MaxTime
    BY <1>1 DEF DataOK, Details
  <2>3. \A p \in People \ excused' : latest[p] <= latest'[p]
    BY <1>1, <2>1, <2>2 DEF DataOK, Seconds
  <2>4. DataOK'
    <3>1. \A p \in People : lastActive'[p] \in {0, latest'[p]}
      BY <1>1, <2>1 DEF DataOK
    <3>2. ASSUME NEW p \in People \ excused' PROVE details'[p].active <= latest'[p]
      <4>1. details[p].active <= latest[p] /\ latest'[p] \in 0..MaxTime
        BY <1>1, <2>1 DEF DataOK, Seconds
      <4> QED
        BY <1>1, <2>1, <2>2, <2>3, <4>1
    <3>3. lastActive' \in [People -> 0..MaxTime] /\ latest' \in [People -> 0..MaxTime]
      BY <1>1, <2>1 DEF DataOK, Seconds
    <3> QED
      BY <1>1, <2>1, <3>1, <3>2, <3>3 DEF DataOK
  <2>5. latest \in [People -> Nat] /\ latest' \in [People -> Nat]
    BY <1>1, <2>4 DEF DataOK
  <2> QED
    BY <2>1, <2>3, <2>4, <2>5, SyncsStayOK DEF DataOK, ActivityInv
<1> QED
  BY <1>2, <1>3, <1>4

\* The steps of a sync task up to its commit.
LEMMA MovesKeepActivity ==
  ASSUME ActivityInv, NEW s \in Syncs,
         HKeys(s) \/ Load(s) \/ HDel(s) \/ (\E u \in People : HGet(s, u))
  PROVE  ActivityInv' /\ details' = details
<1> DEFINE x == sync[s]
           y == sync'[s]
<1>1. DataOK /\ MaxTime \in Nat
  BY ActivityAssumption DEF ActivityInv
<1>2. x # Asleep => SyncTyped(x) /\ SyncOK(x)
  BY DEF ActivityInv, SyncsOK
<1>3. \A p \in People : latest[p] \in 0..MaxTime /\ details[p] \in Details
  BY <1>1 DEF DataOK
<1>4. ASSUME UNCHANGED <<details, latest, time, arrived, verify, requests, losses>>,
             excused \subseteq excused', excused' \subseteq People,
             lastActive' \in [People -> 0..MaxTime],
             \A p \in People : lastActive'[p] \in {0, lastActive[p]},
             sync' = [sync EXCEPT ![s] = y], SyncTyped(y), SyncOK(x)'
      PROVE  ActivityInv' /\ details' = details
  <2>1. DataOK'
    BY <1>1, <1>4 DEF DataOK
  <2>2. latest \in [People -> Nat] /\ latest' \in [People -> Nat]
    BY <1>1, <1>4 DEF DataOK
  <2>3. \A p \in People \ excused' : latest[p] <= latest'[p]
    BY <1>3, <1>4
  <2>4. \A r \in Syncs : sync'[r] \in {Asleep, sync[r]} \/ (SyncTyped(sync'[r]) /\ SyncOK(sync[r])')
    BY <1>1, <1>4 DEF DataOK
  <2> QED
    BY <1>4, <2>1, <2>2, <2>3, <2>4, SyncsStayOK DEF ActivityInv
<1>5. CASE HKeys(s)
  <2>1. /\ y = [pc |-> "next", todo |-> {u \in People : lastActive[u] # 0},
                rows |-> [u \in {} |-> 0], moved |-> {}]
        /\ sync' = [sync EXCEPT ![s] = y]
        /\ UNCHANGED <<time, arrived, lastActive, details, verify, requests, losses, latest, excused>>
    BY <1>1, <1>5 DEF HKeys, DataOK
  <2>2. SyncTyped(y)
    BY <2>1 DEF SyncTyped, RowsRead
  <2>3. SyncOK(x)'
    BY <2>1 DEF SyncOK
  <2> QED
    BY <1>1, <1>4, <2>1, <2>2, <2>3 DEF DataOK
<1>6. ASSUME NEW u \in People, HGet(s, u)
      PROVE  ActivityInv' /\ details' = details
  <2>1. x # Asleep /\ x.pc = "next" /\ u \in x.todo /\ lastActive[u] # 0
    BY <1>6 DEF HGet, Asleep
  <2>2. /\ y = [pc |-> "read", todo |-> x.todo \ {u}, rows |-> x.rows, moved |-> x.moved,
                user |-> u, stamp |-> lastActive[u]]
        /\ sync' = [sync EXCEPT ![s] = y]
        /\ UNCHANGED <<time, arrived, lastActive, details, verify, requests, losses, latest, excused>>
    BY <1>1, <1>6 DEF HGet, DataOK
  <2>3. lastActive[u] \in Seconds
    BY <1>1, <2>1 DEF DataOK, Seconds
  <2>4. SyncTyped(y)
    BY <1>2, <2>1, <2>2, <2>3 DEF SyncTyped
  <2>5. SyncOK(x)'
    BY <1>2, <2>1, <2>2 DEF SyncOK, SyncTyped
  <2> QED
    BY <1>1, <1>4, <2>2, <2>4, <2>5 DEF DataOK
<1>7. CASE Load(s)
  <2> DEFINE u == x.user
  <2>1. x # Asleep /\ x.pc = "read" /\ u \in People \ x.todo /\ x.stamp \in Seconds
    BY <1>2, <1>7 DEF Load, Asleep, SyncTyped
  <2>2. /\ y = [pc |-> "loaded", todo |-> x.todo,
                rows |-> [v \in DOMAIN x.rows \cup {u} |->
                  IF v = u THEN [seen |-> details[u], stamp |-> x.stamp] ELSE x.rows[v]],
                moved |-> x.moved, user |-> u, stamp |-> x.stamp]
        /\ sync' = [sync EXCEPT ![s] = y]
        /\ UNCHANGED <<time, arrived, lastActive, details, verify, requests, losses, latest, excused>>
    BY <1>1, <1>2, <1>7, <2>1 DEF Load, DataOK, SyncTyped
  <2>3. SyncTyped(y)
    <3>1. RowsRead(y.rows)
      BY <1>2, <1>3, <2>1, <2>2 DEF SyncTyped, RowsRead
    <3> QED
      BY <1>2, <2>1, <2>2, <3>1 DEF SyncTyped
  <2>4. SyncOK(x)'
    <3>1. \A v \in DOMAIN y.rows \ excused : y.rows[v].seen.active <= latest[v]
      BY <1>1, <1>2, <2>1, <2>2 DEF SyncOK, DataOK
    <3>2. \A v \in y.moved : v \in DOMAIN x.rows /\ y.rows[v] = x.rows[v]
      BY <1>2, <2>1, <2>2 DEF SyncOK, SyncTyped
    <3>3. \A v \in y.moved \ excused :
             y.rows[v].seen.active <= y.rows[v].stamp /\ y.rows[v].stamp <= latest[v]
      BY <1>2, <2>1, <2>2, <3>2 DEF SyncOK
    <3>4. /\ y.moved \cap y.todo = {} /\ u \notin y.moved
          /\ DOMAIN y.rows \subseteq y.moved \cup {u}
          /\ u \in DOMAIN y.rows /\ y.rows[u].stamp = x.stamp
      BY <1>2, <2>1, <2>2 DEF SyncOK
    <3>5. y.pc = "loaded" /\ y.user = u /\ y.stamp = x.stamp /\ UNCHANGED <<excused, latest>>
      BY <2>2
    <3> QED
      BY <3>1, <3>3, <3>4, <3>5 DEF SyncOK
  <2> QED
    BY <1>1, <1>4, <2>2, <2>3, <2>4 DEF DataOK
<1>8. CASE HDel(s)
  <2> DEFINE u == x.user
  <2>1. x # Asleep /\ x.pc = "loaded" /\ u \in People \ x.todo /\ x.stamp \in Seconds
    BY <1>2, <1>8 DEF HDel, Asleep, SyncTyped
  <2>2. /\ y = [pc |-> "next", todo |-> x.todo, rows |-> x.rows, moved |-> x.moved \cup {u}]
        /\ sync' = [sync EXCEPT ![s] = y]
        /\ lastActive' = [lastActive EXCEPT ![u] = 0]
        /\ excused' = IF lastActive[u] # x.stamp THEN excused \cup {u} ELSE excused
        /\ UNCHANGED <<time, arrived, details, verify, requests, losses, latest>>
    BY <1>1, <1>8, <2>1 DEF HDel, DataOK
  <2>3. SyncTyped(y)
    BY <1>2, <2>1, <2>2 DEF SyncTyped, SyncOK
  <2>4. u \notin excused' => x.rows[u].stamp = latest[u]
    BY <1>1, <1>2, <2>1, <2>2 DEF DataOK, SyncOK, Seconds
  <2>5. SyncOK(x)'
    <3>1. u \in DOMAIN x.rows /\ x.rows[u].stamp = x.stamp /\ u \notin x.moved
      BY <1>2, <2>1 DEF SyncOK
    <3>2. \A v \in DOMAIN x.rows \ excused' : x.rows[v].seen.active <= latest[v]
      BY <1>2, <2>1, <2>2 DEF SyncOK
    <3>3. ASSUME NEW v \in (x.moved \cup {u}) \ excused'
          PROVE  x.rows[v].seen.active <= x.rows[v].stamp /\ x.rows[v].stamp <= latest[v]
      <4>1. CASE v = u
        <5>1. latest[u] \in 0..MaxTime
          BY <1>3, <2>1
        <5> QED
          BY <3>1, <3>2, <2>4, <4>1, <5>1, <1>1
      <4>2. CASE v # u
        BY <1>2, <2>1, <2>2, <3>3, <4>2 DEF SyncOK
      <4> QED
        BY <4>1, <4>2
    <3>4. /\ (x.moved \cup {u}) \cap x.todo = {}
          /\ DOMAIN x.rows \subseteq x.moved \cup {u}
      BY <1>2, <2>1 DEF SyncOK
    <3>5. /\ y.pc = "next" /\ y.todo = x.todo /\ y.rows = x.rows /\ y.moved = x.moved \cup {u}
          /\ latest' = latest
      BY <2>2
    <3> QED
      BY <3>2, <3>3, <3>4, <3>5 DEF SyncOK
  <2>6. excused' \subseteq People /\ excused \subseteq excused'
    BY <1>1, <2>1, <2>2 DEF DataOK
  <2>7. /\ lastActive' \in [People -> 0..MaxTime]
        /\ \A p \in People : lastActive'[p] \in {0, lastActive[p]}
    BY <1>1, <2>1, <2>2 DEF DataOK
  <2> QED
    BY <1>4, <2>2, <2>3, <2>5, <2>6, <2>7
<1> QED
  BY <1>5, <1>6, <1>7, <1>8

\* A sync task that ends without a commit.
LEMMA EndsKeepActivity ==
  ASSUME ActivityInv, NEW s \in Syncs, Kill(s) \/ \E u \in People : HGetNothing(s, u)
  PROVE  ActivityInv' /\ details' = details
<1>1. DataOK /\ MaxLosses \in Nat /\ SyncTyped(sync[s])
  <2>1. sync[s] # Asleep
    BY DEF Kill, HGetNothing, Asleep
  <2> QED
    BY <2>1, ActivityAssumption DEF ActivityInv, SyncsOK
<1>2. /\ sync' = [sync EXCEPT ![s] = Asleep]
      /\ excused' = excused \cup sync[s].moved
      /\ UNCHANGED <<time, arrived, lastActive, details, verify, requests, latest>>
      /\ losses' \in 0..MaxLosses
  BY <1>1 DEF Kill, HGetNothing, DataOK
<1>3. excused' \subseteq People
  BY <1>1, <1>2 DEF DataOK, SyncTyped, RowsRead
<1>4. DataOK'
  BY <1>1, <1>2, <1>3 DEF DataOK
<1>5. latest \in [People -> Nat] /\ latest' \in [People -> Nat]
  BY <1>1, <1>2 DEF DataOK
<1>6. \A p \in People \ excused' : latest[p] <= latest'[p]
  BY <1>5, <1>2
<1>7. \A r \in Syncs : sync'[r] \in {Asleep, sync[r]}
  BY <1>1, <1>2 DEF DataOK
<1> QED
  BY <1>2, <1>3, <1>4, <1>5, <1>6, <1>7, SyncsStayOK DEF ActivityInv

\* Who is not excused after the step has got a later activity, or keeps it.
MovesOn ==
  \A u \in People : details'[u].active # details[u].active =>
    u \in excused' \/ details'[u].active \in (details[u].active + 1)..latest[u]

LEMMA CommitKeepsActivity ==
  ASSUME ActivityInv, NEW s \in Syncs, CommitSync(s)
  PROVE  ActivityInv' /\ MovesOn
<1> DEFINE x == sync[s]
<1>1. DataOK /\ MaxTime \in Nat
  BY ActivityAssumption DEF ActivityInv
<1>2. x # Asleep /\ x.pc = "next"
  BY DEF CommitSync, Asleep
<1>3. SyncTyped(x) /\ SyncOK(x)
  BY <1>2 DEF ActivityInv, SyncsOK
<1>4. /\ details' = [u \in People |->
           IF u \in DOMAIN x.rows THEN [x.rows[u].seen EXCEPT !.active = x.rows[u].stamp]
           ELSE details[u]]
      /\ excused' = excused \cup Overwritten(x.rows)
      /\ sync' = [sync EXCEPT ![s] = Asleep]
      /\ UNCHANGED <<time, arrived, lastActive, verify, requests, losses, latest>>
  BY DEF CommitSync
<1>5. \A u \in DOMAIN x.rows : u \in People /\ x.rows[u].seen \in Details /\ x.rows[u].stamp \in Seconds
  BY <1>3 DEF SyncTyped, RowsRead
<1>6. \A u \in People : details[u] \in Details /\ latest[u] \in 0..MaxTime
  BY <1>1 DEF DataOK
<1>7. ASSUME NEW u \in People \ excused'
      PROVE  /\ details'[u].active <= latest[u]
             /\ details'[u].active # details[u].active =>
                  details'[u].active \in (details[u].active + 1)..latest[u]
  <2>1. CASE u \in DOMAIN x.rows
    <3>1. details[u] = x.rows[u].seen /\ u \notin excused
      BY <1>4, <1>7, <2>1 DEF Overwritten
    <3>2. u \in x.moved
      BY <1>2, <1>3, <2>1 DEF SyncOK
    <3>3. x.rows[u].seen.active <= x.rows[u].stamp /\ x.rows[u].stamp <= latest[u]
      BY <1>3, <3>1, <3>2 DEF SyncOK
    <3>4. details'[u].active = x.rows[u].stamp
      BY <1>4, <1>5, <2>1 DEF Details
    <3>5. details[u].active \in Nat /\ x.rows[u].stamp \in Nat /\ latest[u] \in Nat
      BY <1>1, <1>5, <1>6, <2>1 DEF Details, Seconds
    <3> QED
      BY <3>1, <3>3, <3>4, <3>5
  <2>2. CASE u \notin DOMAIN x.rows
    BY <1>1, <1>4, <1>7, <2>2 DEF DataOK
  <2> QED
    BY <2>1, <2>2
<1>8. details' \in [People -> Details]
  <2>1. ASSUME NEW u \in DOMAIN x.rows
        PROVE  [x.rows[u].seen EXCEPT !.active = x.rows[u].stamp] \in Details
    BY <1>1, <1>5 DEF Details, Seconds
  <2> QED
    BY <1>4, <1>6, <2>1
<1>9. excused' \subseteq People
  BY <1>1, <1>4, <1>5 DEF DataOK, Overwritten
<1>10. DataOK'
  BY <1>1, <1>4, <1>7, <1>8, <1>9 DEF DataOK
<1>11. latest \in [People -> Nat] /\ latest' \in [People -> Nat]
  BY <1>1, <1>4 DEF DataOK
<1>12. \A p \in People \ excused' : latest[p] <= latest'[p]
  BY <1>4, <1>11
<1>13. \A r \in Syncs : sync'[r] \in {Asleep, sync[r]}
  BY <1>1, <1>4 DEF DataOK
<1>14. SyncsOK'
  BY <1>4, <1>9, <1>11, <1>12, <1>13, SyncsStayOK
<1> QED
  BY <1>7, <1>10, <1>14 DEF ActivityInv, MovesOn

\* The request that verifies an address.
LEMMA VerifyingKeepsActivity ==
  ASSUME ActivityInv, NEW v \in Verifiers,
         (\E u \in People : LoadToVerify(v, u)) \/ CommitVerified(v)
  PROVE  ActivityInv' /\ MovesOn
<1>1. DataOK /\ MaxTime \in Nat
  BY ActivityAssumption DEF ActivityInv
<1>2. ASSUME UNCHANGED <<sync, latest>>, DataOK', excused \subseteq excused'
      PROVE  SyncsOK'
  <2>1. latest \in [People -> Nat] /\ latest' \in [People -> Nat] /\ excused' \subseteq People
    BY <1>1, <1>2 DEF DataOK
  <2>2. \A p \in People \ excused' : latest[p] <= latest'[p]
    BY <1>2, <2>1
  <2> QED
    BY <1>2, <2>1, <2>2, SyncsStayOK
<1>3. ASSUME NEW u \in People, LoadToVerify(v, u)
      PROVE  ActivityInv' /\ MovesOn
  <2>1. /\ verify' = [verify EXCEPT ![v] = [pc |-> "loaded", user |-> u, seen |-> details[u]]]
        /\ UNCHANGED <<time, arrived, lastActive, details, sync, requests, losses, latest, excused>>
    BY <1>3 DEF LoadToVerify
  <2>2. DataOK'
    <3>1. verify' \in [Verifiers -> {Asleep} \cup [pc : {"loaded"}, user : People, seen : Details]]
      BY <1>1, <2>1 DEF DataOK
    <3> QED
      BY <1>1, <2>1, <3>1 DEF DataOK
  <2> QED
    BY <1>2, <2>1, <2>2 DEF ActivityInv, MovesOn
<1>4. CASE CommitVerified(v)
  <2> DEFINE u == verify[v].user
             seen == verify[v].seen
  <2>1. /\ verify[v] # Asleep
        /\ details' = [details EXCEPT ![u] = [seen EXCEPT !.verified = TRUE]]
        /\ excused' = IF details[u] # seen THEN excused \cup {u} ELSE excused
        /\ verify' = [verify EXCEPT ![v] = Asleep]
        /\ UNCHANGED <<time, arrived, lastActive, sync, requests, losses, latest>>
    BY <1>4 DEF CommitVerified
  <2>2. u \in People /\ seen \in Details
    BY <1>1, <2>1 DEF DataOK
  <2>3. [seen EXCEPT !.verified = TRUE] \in Details /\ [seen EXCEPT !.verified = TRUE].active = seen.active
    BY <2>2 DEF Details
  <2>4. ASSUME NEW p \in People \ excused' PROVE p \notin excused /\ details'[p].active = details[p].active
    BY <1>1, <2>1, <2>2, <2>3, <2>4 DEF DataOK
  <2>5. details' \in [People -> Details] /\ excused' \subseteq People /\ excused \subseteq excused'
    BY <1>1, <2>1, <2>2, <2>3 DEF DataOK
  <2>6. verify' \in [Verifiers -> {Asleep} \cup [pc : {"loaded"}, user : People, seen : Details]]
    BY <1>1, <2>1 DEF DataOK
  <2>7. DataOK'
    BY <1>1, <2>1, <2>4, <2>5, <2>6 DEF DataOK
  <2> QED
    BY <1>2, <2>1, <2>4, <2>5, <2>7 DEF ActivityInv, MovesOn
<1> QED
  BY <1>3, <1>4

LEMMA StepsKeepActivity ==
  ASSUME ActivityInv, [ActivityNext]_activityVars
  PROVE  ActivityInv' /\ MovesOn
<1>1. ActivityInv' /\ details' = details => MovesOn
  BY DEF MovesOn
<1>2. CASE UNCHANGED activityVars
  BY <1>1, <1>2 DEF activityVars, ActivityInv, DataOK, SyncsOK, SyncOK
<1>3. CASE SecondPasses \/ \E u \in People : Arrive(u) \/ \E t \in Seconds : HSet(u, t)
  BY <1>1, <1>3, RequestsKeepActivity
<1>4. ASSUME NEW s \in Syncs, SyncStep(s) \/ Kill(s)
      PROVE  ActivityInv' /\ MovesOn
  <2>1. CASE HKeys(s) \/ Load(s) \/ HDel(s) \/ (\E u \in People : HGet(s, u))
    BY <1>1, <2>1, MovesKeepActivity
  <2>2. CASE CommitSync(s)
    BY <2>2, CommitKeepsActivity
  <2>3. CASE Kill(s) \/ \E u \in People : HGetNothing(s, u)
    BY <1>1, <2>3, EndsKeepActivity
  <2> QED
    BY <1>4, <2>1, <2>2, <2>3 DEF SyncStep
<1>5. ASSUME NEW v \in Verifiers, (\E u \in People : LoadToVerify(v, u)) \/ CommitVerified(v)
      PROVE  ActivityInv' /\ MovesOn
  BY <1>5, VerifyingKeepsActivity
<1> QED
  BY <1>2, <1>3, <1>4, <1>5 DEF ActivityNext

LEMMA ActivityStarts == ActivityInit => ActivityInv
<1> SUFFICES ASSUME ActivityInit PROVE ActivityInv
  OBVIOUS
<1>1. \A s \in Syncs : sync[s] = Asleep
  BY DEF ActivityInit
<1>2. DataOK
  <2>1. 1 \in Seconds /\ 0 \in 0..MaxTime /\ 0 \in 0..MaxRequests /\ 0 \in 0..MaxLosses
    BY ActivityAssumption DEF Seconds
  <2>2. details \in [People -> Details] /\ \A u \in People : details[u].active = 0
    BY ActivityAssumption DEF ActivityInit, Details
  <2>3. lastActive \in [People -> 0..MaxTime] /\ latest \in [People -> 0..MaxTime]
    BY <2>1 DEF ActivityInit
  <2>4. verify \in [Verifiers -> {Asleep} \cup [pc : {"loaded"}, user : People, seen : Details]]
    BY DEF ActivityInit
  <2> QED
    BY <2>1, <2>2, <2>3, <2>4 DEF ActivityInit, DataOK
<1> QED
  BY <1>1, <1>2 DEF ActivityInv, SyncsOK

\* The types of Activity, with what a task has moved among what it will write.
THEOREM ActivityTypeCorrect == ActivitySpec => []ActivityTypeOK
<1>1. ActivityInv => ActivityTypeOK
  BY DEF ActivityInv, DataOK, SyncsOK, SyncTyped, ActivityTypeOK
<1>2. ActivityInv /\ [ActivityNext]_activityVars => ActivityInv'
  BY StepsKeepActivity
<1> QED
  BY <1>1, <1>2, ActivityStarts, PTL DEF ActivitySpec

\* However many syncs overlap and whatever order requests and address verifications
\* take: active_at only moves on, to a second in which the user was active, unless
\* a stale column was written over it, a request was slow, or the field was replaced
\* or deleted between hget and hdel (models/users.py:27-42).
THEOREM ActivityMovesOn == ActivitySpec => ActiveAtMovesOn
<1>1. ActivityInv /\ [ActivityNext]_activityVars => ActivityInv'
  BY StepsKeepActivity
<1>2. ActivityInv /\ [ActivityNext]_activityVars => [MovesOn]_activityVars
  BY StepsKeepActivity
<1>3. ActivitySpec => [][MovesOn]_activityVars
  BY <1>1, <1>2, ActivityStarts, PTL DEF ActivitySpec
<1> QED
  BY <1>3 DEF ActiveAtMovesOn, MovesOn

-----------------------------------------------------------------------------
(* SchemaCache                                                             *)

\* Nobody asks with options that are still to come.
AsksOK(x) ==
  x # Resting /\ x.pc = "asks" /\ version[x.source] # 0 => x.version <= version[x.source]

SchemaInv ==
  /\ SchemaTypeOK
  /\ \A r \in Readers : AsksOK(reader[r])
  /\ \A t \in Tasks : AsksOK(task[t])

LEMMA SourceStepsKeepInv ==
  ASSUME SchemaInv, NEW d \in DataSources,
         \/ EditSource(d) \/ DeleteSource(d) \/ PauseSource(d) \/ ResumeSource(d)
         \/ Blacklist(d)
  PROVE  SchemaInv'
<1>1. /\ \A r \in Readers : reader[r] = Resting \/ reader[r] \in [pc : {"asks"}, source : DataSources, version : 1..MaxVersion]
      /\ \A t \in Tasks : task[t] = Resting \/ task[t] \in [pc : {"queued"}, source : DataSources]
           \/ task[t] \in [pc : {"asks"}, source : DataSources, version : 1..MaxVersion]
  BY DEF SchemaInv, SchemaTypeOK
<1>2. CASE PauseSource(d) \/ ResumeSource(d)
  BY <1>2 DEF operatorVars, PauseSource, ResumeSource, SchemaInv, SchemaTypeOK, AsksOK
<1>3. CASE EditSource(d) \/ DeleteSource(d)
  <2>1. /\ version' \in [DataSources -> 0..MaxVersion]
        /\ \A e \in DataSources : version'[e] # 0 => version[e] # 0 /\ version[e] <= version'[e]
        /\ UNCHANGED <<operatorVars, paused, schema, reader, task, beat, errors>>
    BY <1>3, SchemaAssumption DEF EditSource, DeleteSource, SchemaInv, SchemaTypeOK
  <2>2. \A e \in DataSources : version[e] \in Nat /\ version'[e] \in Nat /\ schema[e] \in Nat
    BY <2>1, SchemaAssumption DEF SchemaInv, SchemaTypeOK
  <2>3. \A e \in DataSources : version'[e] # 0 => schema[e] <= version'[e]
    BY <2>1, <2>2 DEF SchemaInv, SchemaTypeOK
  <2>4. SchemaTypeOK'
    BY <2>1, <2>3 DEF operatorVars, SchemaInv, SchemaTypeOK
  <2>5. ASSUME NEW r \in Readers PROVE AsksOK(reader[r])'
    BY <1>1, <2>1, <2>2 DEF SchemaInv, AsksOK
  <2>6. ASSUME NEW t \in Tasks PROVE AsksOK(task[t])'
    BY <1>1, <2>1, <2>2 DEF SchemaInv, AsksOK
  <2> QED
    BY <2>4, <2>5, <2>6 DEF SchemaInv
<1>4. CASE Blacklist(d)
  BY <1>4 DEF Blacklist, SchemaInv, SchemaTypeOK, AsksOK
<1> QED
  BY <1>2, <1>3, <1>4

LEMMA DisablingKeepsInv ==
  ASSUME SchemaInv, DisableOrEnable
  PROVE  SchemaInv'
BY DEF DisableOrEnable, SchemaInv, SchemaTypeOK, AsksOK

LEMMA ReadersKeepInv ==
  ASSUME SchemaInv, NEW r \in Readers,
         \/ \E d \in DataSources, fresh \in BOOLEAN : Ask(r, d, fresh)
         \/ Answer(r) \/ AnswerFails(r)
  PROVE  SchemaInv'
<1>1. reader[r] = Resting \/ reader[r] \in [pc : {"asks"}, source : DataSources, version : 1..MaxVersion]
  BY DEF SchemaInv, SchemaTypeOK
<1>2. ASSUME NEW d \in DataSources, NEW fresh \in BOOLEAN, Ask(r, d, fresh)
      PROVE  SchemaInv'
  BY <1>2, SchemaAssumption DEF Ask, SchemaInv, SchemaTypeOK, AsksOK, operatorVars
<1>3. CASE Answer(r)
  <2>1. reader[r] # Resting /\ AsksOK(reader[r])
    BY <1>3 DEF Answer, SchemaInv
  <2>2. schema' = [schema EXCEPT ![reader[r].source] = reader[r].version]
    BY <1>3 DEF Answer
  <2>3. \A d \in DataSources : version[d] # 0 => schema'[d] <= version[d]
    BY <1>1, <2>1, <2>2 DEF SchemaInv, SchemaTypeOK, AsksOK, operatorVars
  <2>4. schema' \in [DataSources -> 0..MaxVersion]
    BY <1>1, <2>1, <2>2, SchemaAssumption DEF SchemaInv, SchemaTypeOK
  <2> QED
    BY <1>3, <2>3, <2>4 DEF Answer, SchemaInv, SchemaTypeOK, AsksOK, operatorVars
<1>4. CASE AnswerFails(r)
  BY <1>4, SchemaAssumption DEF AnswerFails, SchemaInv, SchemaTypeOK, AsksOK, operatorVars
<1> QED
  BY <1>2, <1>3, <1>4

LEMMA TasksKeepInv ==
  ASSUME SchemaInv,
         \/ RefreshSchemas \/ \E d \in DataSources : Consider(d)
         \/ \E t \in Tasks : LoadSource(t) \/ Refresh(t) \/ RefreshFails(t)
  PROVE  SchemaInv'
<1>1. CASE RefreshSchemas
  BY <1>1 DEF RefreshSchemas, NoBeat, SchemaInv, SchemaTypeOK, AsksOK, operatorVars
<1>2. ASSUME NEW d \in DataSources, Consider(d)
      PROVE  SchemaInv'
  <2>0. beat' \in [left : SUBSET DataSources, blacklist : SUBSET DataSources,
                   org : {"unread", "enabled", "disabled"}]
    BY <1>2 DEF Consider, OrgOf, NoBeat, SchemaInv, SchemaTypeOK
  <2>1. CASE UNCHANGED task
    BY <1>2, <2>0, <2>1 DEF Consider, SchemaInv, SchemaTypeOK, AsksOK, operatorVars
  <2>2. ASSUME NEW t \in Tasks, task' = [task EXCEPT ![t] = [pc |-> "queued", source |-> d]]
        PROVE  SchemaInv'
    BY <1>2, <2>0, <2>2 DEF Consider, SchemaInv, SchemaTypeOK, AsksOK, operatorVars
  <2> QED
    BY <1>2, <2>1, <2>2 DEF Consider
<1>3. ASSUME NEW t \in Tasks, LoadSource(t) \/ Refresh(t) \/ RefreshFails(t)
      PROVE  SchemaInv'
  <2>1. \/ task[t] = Resting \/ task[t] \in [pc : {"queued"}, source : DataSources]
        \/ task[t] \in [pc : {"asks"}, source : DataSources, version : 1..MaxVersion]
    BY DEF SchemaInv, SchemaTypeOK
  <2>2. CASE LoadSource(t)
    <3>1. task[t].source \in DataSources
      BY <2>1, <2>2 DEF LoadSource, Resting
    <3> QED
      BY <2>2, <3>1, SchemaAssumption DEF LoadSource, SchemaInv, SchemaTypeOK, AsksOK, operatorVars
  <2>3. CASE Refresh(t)
    <3>1. /\ task[t] \in [pc : {"asks"}, source : DataSources, version : 1..MaxVersion]
          /\ AsksOK(task[t]) /\ task[t] # Resting /\ task[t].pc = "asks"
      BY <2>1, <2>3 DEF Refresh, SchemaInv, Resting
    <3>2. schema' = [schema EXCEPT ![task[t].source] = task[t].version]
      BY <2>3 DEF Refresh
    <3>3. \A d \in DataSources : version[d] # 0 => schema'[d] <= version[d]
      BY <3>1, <3>2 DEF SchemaInv, SchemaTypeOK, AsksOK, operatorVars
    <3>4. schema' \in [DataSources -> 0..MaxVersion]
      BY <3>1, <3>2, SchemaAssumption DEF SchemaInv, SchemaTypeOK
    <3> QED
      BY <2>3, <3>3, <3>4 DEF Refresh, SchemaInv, SchemaTypeOK, AsksOK, operatorVars
  <2>4. CASE RefreshFails(t)
    BY <2>4, SchemaAssumption DEF RefreshFails, SchemaInv, SchemaTypeOK, AsksOK, operatorVars
  <2> QED
    BY <1>3, <2>2, <2>3, <2>4
<1> QED
  BY <1>1, <1>2, <1>3

\* The types of SchemaCache: whatever answers are late, the cache never holds a
\* schema of options that the data source does not have yet (models/__init__.py:
\* 155-170, tasks/queries.py:251-271).
THEOREM SchemaTypeCorrect == SchemaSpec => []SchemaTypeOK
<1>1. SchemaInit => SchemaInv
  BY SchemaAssumption DEF SchemaInit, NoBeat, SchemaInv, SchemaTypeOK, AsksOK
<1>2. SchemaInv /\ [SchemaNext]_schemaVars => SchemaInv'
  <2>1. CASE UNCHANGED schemaVars
    BY <2>1 DEF schemaVars, operatorVars, SchemaInv, SchemaTypeOK, AsksOK
  <2>2. ASSUME SchemaInv, SchemaNext PROVE SchemaInv'
    BY <2>2, SourceStepsKeepInv, ReadersKeepInv, TasksKeepInv, DisablingKeepsInv DEF SchemaNext
  <2> QED
    BY <2>1, <2>2
<1>3. SchemaInv => SchemaTypeOK
  BY DEF SchemaInv
<1> QED
  BY <1>1, <1>2, <1>3, PTL DEF SchemaSpec

-----------------------------------------------------------------------------
(* ScheduledRefresh                                                        *)

\* A job that is put into a free place, or joined.
LEMMA EnqueueKeepsTypes ==
  ASSUME TypeOK, NEW text \in Texts, NEW by \in Queries \cup {NoQuery}, Enqueue(text, by)
  PROVE  job' \in [Slots -> {Free} \cup Waiting \cup Busy]
<1>1. CASE UNCHANGED job
  BY <1>1 DEF TypeOK
<1>2. ASSUME NEW s \in Slots,
             job' = [job EXCEPT ![s] = [phase |-> "queued", text |-> text, by |-> by]]
      PROVE  job' \in [Slots -> {Free} \cup Waiting \cup Busy]
  <2>1. [phase |-> "queued", text |-> text, by |-> by] \in Waiting
    BY DEF Waiting
  <2> QED
    BY <1>2, <2>1 DEF TypeOK
<1> QED
  BY <1>1, <1>2 DEF Enqueue

LEMMA JobStepsKeepTypes ==
  ASSUME TypeOK, NEW s \in Slots, JobStep(s)
  PROVE  TypeOK'
<1>1. /\ Interval \in Nat /\ MaxFailures \in Nat /\ 0 \in 0..MaxAge
      /\ \A n \in 0..MaxFailures : n < MaxFailures => n + 1 \in 0..MaxFailures
  BY BoundsAssumption DEF MaxAge, Backoff
<1>2. job[s] \in {Free} \cup Waiting \cup Busy
  BY DEF TypeOK
<1>3. ASSUME NEW n \in 0..MaxFailures, job[s] \in Busy, SetFailures(s, n)
      PROVE  query' \in [Queries -> Row]
  <2>1. CASE job[s].by = NoQuery
    BY <1>3, <2>1 DEF SetFailures, TypeOK
  <2>2. CASE job[s].by # NoQuery
    BY <1>3, <2>2 DEF SetFailures, TypeOK, Busy, Row
  <2> QED
    BY <2>1, <2>2
<1>4. CASE Start(s)
  <2>1. job[s] \in Waiting
    BY <1>2, <1>4 DEF Start, Free, Busy
  <2> DEFINE q == job[s].by
             busy == [phase |-> "running", text |-> job[s].text, by |-> q,
                      failures |-> IF q = NoQuery THEN 0 ELSE query[q].failures]
  <2>2. busy \in Busy
    BY <1>1, <2>1 DEF Waiting, Busy, TypeOK, Row
  <2>3. job' \in [Slots -> {Free} \cup Waiting \cup Busy]
    BY <1>4, <2>2 DEF Start, TypeOK
  <2>4. age' \in [Queries -> (0 .. MaxAge) \cup {Never}] /\ tracked' \subseteq Queries
    BY <1>1, <1>4, <2>1 DEF Start, TypeOK, Waiting
  <2> QED
    BY <1>4, <2>3, <2>4 DEF Start, TypeOK
<1>5. CASE RunQuery(s)
  <2>1. job[s] \in Busy
    BY <1>2, <1>5 DEF RunQuery, Free, Waiting
  <2>2. [job[s] EXCEPT !.phase = "storing"] \in Busy
    BY <2>1 DEF Busy
  <2> QED
    BY <1>5, <2>2 DEF RunQuery, TypeOK
<1>6. CASE Succeed(s)
  <2>1. job[s] \in Busy
    BY <1>2, <1>6 DEF Succeed, Free, Waiting
  <2>2. query' \in [Queries -> Row]
    BY <1>1, <1>3, <1>6, <2>1 DEF Succeed, TypeOK
  <2>3. age' \in [Queries -> (0 .. MaxAge) \cup {Never}]
    BY <1>1, <1>6 DEF Succeed, TypeOK
  <2> QED
    BY <1>6, <2>2, <2>3 DEF Succeed, TypeOK
<1>7. CASE Fail(s)
  <2>1. job[s] \in Busy
    BY <1>2, <1>7 DEF Fail, Free, Waiting
  <2>2. job[s].failures \in 0..MaxFailures
    BY <2>1 DEF Busy
  <2>3. query' \in [Queries -> Row]
    BY <1>1, <1>3, <1>7, <2>1, <2>2 DEF Fail
  <2> QED
    BY <1>7, <2>3 DEF Fail, TypeOK
<1> QED
  BY <1>4, <1>5, <1>6, <1>7 DEF JobStep

\* The types of ScheduledRefresh, with the ages and the failures within bounds.
THEOREM RefreshTypeCorrect == Spec => []TypeOK
<1>1. Interval \in Nat /\ MaxFailures \in Nat /\ MaxAge \in Nat
  BY BoundsAssumption DEF MaxAge, Backoff
<1>2. Init => TypeOK
  <2> SUFFICES ASSUME Init PROVE TypeOK
    OBVIOUS
  <2>1. query \in [Queries -> Row]
    <3>1. 0 \in 0..MaxFailures
      BY <1>1
    <3>2. [text : Texts, scheduled : {TRUE}, failures : {0}] \subseteq Row
      BY <3>1 DEF Row
    <3> QED
      BY <3>2 DEF Init
  <2>2. age \in [Queries -> (0 .. MaxAge) \cup {Never}] /\ job \in [Slots -> {Free} \cup Waiting \cup Busy]
    BY DEF Init
  <2> QED
    BY <2>1, <2>2 DEF Init, TypeOK
<1>3. TypeOK /\ [Next]_vars => TypeOK'
  <2> SUFFICES ASSUME TypeOK, [Next]_vars PROVE TypeOK'
    OBVIOUS
  <2>1. CASE UNCHANGED vars
    BY <2>1 DEF vars, TypeOK
  <2>2. CASE Tick
    BY <1>1, <2>2 DEF Tick, TypeOK
  <2>3. CASE RefreshStep
    <3>1. CASE RefreshBegin
      <4>1. \A q \in Queries : query[q].text \in Texts
        BY DEF TypeOK, Row
      <4>2. Outdated \subseteq [id : Queries, text : Texts]
        BY <4>1 DEF Outdated
      <4> QED
        BY <3>1, <4>2 DEF RefreshBegin, TypeOK
    <3>2. CASE RefreshOne
      <4>1. PICK o \in refresh : refresh' = refresh \ {o} /\
              IF blocked THEN UNCHANGED job ELSE Enqueue(o.text, o.id)
        BY <3>2 DEF RefreshOne
      <4>2. o.text \in Texts /\ o.id \in Queries \cup {NoQuery}
        BY DEF TypeOK
      <4>3. job' \in [Slots -> {Free} \cup Waiting \cup Busy]
        BY <4>1, <4>2, EnqueueKeepsTypes DEF TypeOK
      <4> QED
        BY <3>2, <4>1, <4>3 DEF RefreshOne, TypeOK
    <3> QED
      BY <2>3, <3>1, <3>2 DEF RefreshStep
  <2>4. CASE Block
    BY <2>4 DEF Block, TypeOK
  <2>5. CASE \E s \in Slots : JobStep(s)
    BY <2>5, JobStepsKeepTypes
  <2>6. ASSUME NEW text \in Texts, ManualRun(text) PROVE TypeOK'
    <3>1. job' \in [Slots -> {Free} \cup Waiting \cup Busy]
      BY <2>6, EnqueueKeepsTypes DEF ManualRun
    <3> QED
      BY <2>6, <3>1 DEF ManualRun, TypeOK
  <2>7. ASSUME NEW q \in Queries, Reschedule(q) PROVE TypeOK'
    BY <2>7 DEF Reschedule, TypeOK, Row
  <2>8. ASSUME NEW q \in Queries, NEW text \in Texts, Edit(q, text) PROVE TypeOK'
    <3>1. 0 \in 0..MaxFailures
      BY <1>1
    <3>2. [query[q] EXCEPT !.text = text, !.failures = 0] \in Row
      BY <3>1 DEF TypeOK, Row
    <3>3. query' = [query EXCEPT ![q] = [query[q] EXCEPT !.text = text, !.failures = 0]]
      BY <2>8 DEF Edit, TypeOK
    <3> QED
      BY <2>8, <3>2, <3>3 DEF Edit, TypeOK
  <2> QED
    BY <2>1, <2>2, <2>3, <2>4, <2>5, <2>6, <2>7, <2>8 DEF Next
<1> QED
  BY <1>2, <1>3, PTL DEF Spec

-----------------------------------------------------------------------------
(* Tables: how a schema is read                                            *)

Rows == {Missing} \cup {Made(S) : S \in SUBSET ColumnNames}
ShownNames == {Shown(t) : t \in TableIds}

Readings ==
  [pc : {"ask", "describe", "done", "error"}, match : SUBSET TableNames, todo : SUBSET TableIds,
   schema : UNION {[S -> SUBSET ColumnNames] : S \in SUBSET ShownNames}, failed : BOOLEAN,
   kept : SUBSET TableIds, dropped : SUBSET TableIds,
   ever : SUBSET (TableIds \X SUBSET ColumnNames)]

WasThere(t) == \E e \in reading.ever : e[1] = t

\* What a walk has asked about is in the schema; of a collection, its name.
InSchema(t, shown) ==
  /\ Shown(t) \in DOMAIN shown
  /\ engine \in {"mongodb", "prometheus"} \/ shown[Shown(t)] = ColumnsOf(t)

\* Nothing is shown that was not there.
Grounded(shown) ==
  \A n \in DOMAIN shown, c \in ColumnNames :
    /\ \E e \in reading.ever : Shown(e[1]) = n
    /\ c \in shown[n] => \E e \in reading.ever : Shown(e[1]) = n /\ c \in e[2]

\* The reasons for an exception.
ErrorOnlyIf ==
  \/ reading.failed \/ engine = "other"
  \/ engine \in {"hive", "sqlite"} /\ reading.dropped # {}
  \/ \E e \in reading.ever : e[1] \in odd

\* Between two requests of a walk: what is still to be asked about is there or was
\* dropped, and what has been asked about, is alone and did not change is known.
WalkOK ==
  /\ reading.todo \ There \subseteq reading.dropped
  /\ \A t \in reading.todo : WasThere(t)
  /\ \A t \in reading.kept :
       Expected(t) /\ Alone(t) /\ t \notin reading.todo => InSchema(t, reading.schema)

\* The inductive invariant: `ever` has what is there now.
TablesInv ==
  /\ TablesTypeOK
  /\ reading \in Readings
  /\ table \in [TableIds -> Rows]
  /\ \A t \in There : <<t, ColumnsOf(t)>> \in reading.ever
  /\ \A t \in odd : WasThere(t)
  /\ Grounded(reading.schema)
  /\ reading.pc = "describe" => WalkOK
  /\ SchemaIsTrue

LEMMA HereAreTables == Here \in SUBSET TableIds
BY TablesAssumption DEF Here, TableIds

\* A table that is not there has no columns.
LEMMA RowsAreTyped ==
  ASSUME NEW row \in Rows
  PROVE  /\ row \in [there : BOOLEAN, columns : SUBSET ColumnNames]
         /\ row.there \in BOOLEAN /\ row.columns \in SUBSET ColumnNames
         /\ row.columns # {} => row.there
<1>1. CASE row = Missing
  BY <1>1 DEF Missing
<1>2. ASSUME NEW S \in SUBSET ColumnNames, row = Made(S)
      PROVE  /\ row \in [there : BOOLEAN, columns : SUBSET ColumnNames]
             /\ row.there /\ row.columns = S
  BY <1>2 DEF Made
<1> QED
  BY <1>1, <1>2 DEF Rows, Missing

LEMMA RowsOfTables ==
  ASSUME table \in [TableIds -> Rows], NEW t \in TableIds
  PROVE  /\ ColumnsOf(t) \in SUBSET ColumnNames
         /\ ColumnsOf(t) # {} => t \in There
BY RowsAreTyped DEF ColumnsOf, There

\* CREATE, ALTER and DROP: what nobody has changed so far and is alone stays known.
LEMMA ChangesKeepTables ==
  ASSUME TablesInv, NEW t \in TableIds, NEW row \in Rows, Change(t, row)
  PROVE  TablesInv'
<1>1. /\ reading.pc \in {"ask", "describe"} /\ t \in Here /\ row # table[t]
      /\ changes < MaxChanges /\ changes' = changes + 1
      /\ table' = [table EXCEPT ![t] = row]
      /\ reading' = [reading EXCEPT
           !.kept = reading.kept \ {t},
           !.ever = IF row.there THEN reading.ever \cup {<<t, row.columns>>} ELSE reading.ever,
           !.dropped = IF row.there THEN reading.dropped ELSE reading.dropped \cup {t}]
      /\ engine' = engine /\ odd' = odd
  BY DEF Change
<1>2. reading \in Readings /\ table \in [TableIds -> Rows]
  BY DEF TablesInv
<1>3. row \in [there : BOOLEAN, columns : SUBSET ColumnNames]
  BY RowsAreTyped
<1>4. /\ UNCHANGED <<reading.pc, reading.match, reading.todo, reading.schema, reading.failed>>
      /\ reading'.kept = reading.kept \ {t}
      /\ reading'.ever = IF row.there THEN reading.ever \cup {<<t, row.columns>>} ELSE reading.ever
      /\ reading'.dropped = IF row.there THEN reading.dropped ELSE reading.dropped \cup {t}
  BY <1>1, <1>2 DEF Readings
<1>5. /\ table'[t] = row /\ \A u \in TableIds \ {t} : table'[u] = table[u]
      /\ table' \in [TableIds -> Rows]
  BY <1>1, <1>2
<1>6. /\ \A u \in TableIds : u # t => (u \in There' <=> u \in There) /\ ColumnsOf(u)' = ColumnsOf(u)
      /\ ColumnsOf(t)' = row.columns /\ (t \in There' <=> row.there)
  BY <1>5 DEF There, ColumnsOf
<1>7. Here' = Here /\ (\A u : Shown(u)' = Shown(u)) /\ ShownNames' = ShownNames
  BY <1>1 DEF Here, Shown, ElidesMain, ShownNames
<1>8. reading' \in Readings'
  <2>1. reading' \in Readings
    <3>1. row.columns \in SUBSET ColumnNames
      BY RowsAreTyped
    <3> DEFINE kept == reading.kept \ {t}
               ever == IF row.there THEN reading.ever \cup {<<t, row.columns>>} ELSE reading.ever
               dropped == IF row.there THEN reading.dropped ELSE reading.dropped \cup {t}
    <3>2. /\ kept \in SUBSET TableIds /\ dropped \in SUBSET TableIds
          /\ ever \in SUBSET (TableIds \X SUBSET ColumnNames)
      BY <1>2, <3>1 DEF Readings
    <3>3. reading' = [reading EXCEPT !.kept = kept, !.ever = ever, !.dropped = dropped]
      BY <1>1
    <3> HIDE DEF kept, ever, dropped
    <3> QED
      BY <1>2, <3>2, <3>3 DEF Readings
  <2> QED
    BY <2>1, <1>7 DEF Readings
<1>9. Grounded(reading.schema)'
  BY <1>4, <1>7 DEF TablesInv, Grounded
<1>10. \A u \in There' : <<u, ColumnsOf(u)'>> \in reading'.ever
  <2>1. There' \in SUBSET TableIds
    BY DEF There
  <2> QED
    BY <2>1, <1>4, <1>6 DEF TablesInv
<1>11. \A u \in odd' : WasThere(u)'
  BY <1>1, <1>4 DEF TablesInv, WasThere
<1>12. reading.pc = "describe" => WalkOK'
  <2> SUFFICES ASSUME reading.pc = "describe" PROVE WalkOK'
    OBVIOUS
  <2>1. WalkOK
    BY DEF TablesInv
  <2>2. reading'.todo \ There' \subseteq reading'.dropped
    BY <1>2, <1>4, <1>6, <2>1 DEF WalkOK, Readings
  <2>3. \A u \in reading'.todo : WasThere(u)'
    BY <1>4, <2>1 DEF WalkOK, WasThere
  <2>4. ASSUME NEW u \in reading'.kept, Expected(u)', Alone(u)', u \notin reading'.todo
        PROVE  InSchema(u, reading.schema)'
    <3>1. u \in reading.kept /\ u # t /\ u \in TableIds
      BY <1>2, <1>4, <2>4 DEF Readings
    <3>2. ColumnsOf(u)' = ColumnsOf(u)
      BY <1>6, <3>1
    <3>3. Expected(u) /\ Alone(u)
      BY <1>1, <1>4, <1>7, <2>4, <3>2 DEF Expected, Alone
    <3>4. InSchema(u, reading.schema)
      BY <1>4, <2>1, <2>4, <3>1, <3>3 DEF WalkOK
    <3> QED
      BY <1>1, <1>4, <1>7, <3>2, <3>4 DEF InSchema
  <2> QED
    BY <2>2, <2>3, <2>4 DEF WalkOK
<1>13. TablesTypeOK'
  <2>1. table' \in [TableIds -> [there : BOOLEAN, columns : SUBSET ColumnNames]]
    BY <1>5, RowsAreTyped
  <2>2. There' \subseteq Here' /\ reading'.kept \subseteq There'
    <3>1. There' \subseteq TableIds /\ reading.kept \subseteq TableIds
      BY <1>2 DEF There, Readings
    <3> QED
      BY <1>1, <1>4, <1>6, <1>7, <3>1 DEF TablesInv, TablesTypeOK
  <2>3. changes' \in 0..MaxChanges
    BY <1>1, TablesAssumption DEF TablesInv, TablesTypeOK
  <2> QED
    BY <1>1, <1>4, <1>7, <2>1, <2>2, <2>3 DEF TablesInv, TablesTypeOK
<1>14. SchemaIsTrue'
  BY <1>1, <1>4 DEF SchemaIsTrue
<1> QED
  BY <1>4, <1>5, <1>8, <1>9, <1>10, <1>11, <1>12, <1>13, <1>14 DEF TablesInv

Schemata == UNION {[S -> SUBSET ColumnNames] : S \in SUBSET ShownNames}

\* What a step of the runner has to keep.
LEMMA RunnersKeepTables ==
  ASSUME TablesInv, UNCHANGED <<engine, table, odd, changes>>,
         UNCHANGED <<reading.kept, reading.ever>>,
         reading' \in Readings, reading'.todo \subseteq reading.todo \cup There,
         Grounded(reading'.schema), reading'.pc = "describe" => WalkOK', SchemaIsTrue'
  PROVE  TablesInv'
<1>1. reading \in Readings /\ table \in [TableIds -> Rows] /\ TablesTypeOK
  BY DEF TablesInv
<1>2. Readings' = Readings /\ ShownNames' = ShownNames /\ Here' = Here /\ There' = There
  BY DEF Readings, ShownNames, Shown, ElidesMain, Here, There
<1>3. /\ \A t \in There' : <<t, ColumnsOf(t)>>' \in reading'.ever
      /\ \A t \in odd' : WasThere(t)'
  BY <1>2 DEF TablesInv, ColumnsOf, WasThere
<1>4. Grounded(reading.schema)'
  BY DEF Grounded, Shown, ElidesMain
<1>5. reading'.schema \in Schemata
  BY DEF Readings, Schemata
<1>6. \A n \in DOMAIN reading'.schema : reading'.schema[n] \subseteq ColumnNames
  BY <1>5 DEF Schemata
<1>7. TablesTypeOK'
  BY <1>1, <1>2, <1>6 DEF TablesTypeOK, Readings
<1> QED
  BY <1>1, <1>2, <1>3, <1>4, <1>7 DEF TablesInv

LEMMA EndsKeepTables ==
  ASSUME TablesInv, NEW pc \in {"done", "error"}, NEW shown \in Schemata, Ends(pc, shown),
         Grounded(shown), pc = "error" => ErrorOnlyIf,
         pc = "done" => \A t \in reading.kept :
                          Expected(t) /\ Alone(t) /\ ~reading.failed => InSchema(t, shown)
  PROVE  TablesInv'
<1>1. /\ reading \in Readings
      /\ reading' = [reading EXCEPT !.pc = pc, !.schema = shown]
      /\ UNCHANGED <<engine, table, odd, changes>>
  BY DEF TablesInv, Ends
<1>2. reading' \in Readings
  BY <1>1 DEF Readings, Schemata
<1>3. /\ UNCHANGED <<reading.match, reading.todo, reading.kept, reading.ever, reading.dropped,
                     reading.failed>>
      /\ reading'.pc = pc /\ reading'.schema = shown
  BY <1>1 DEF Readings
<1>4. SchemaIsTrue'
  <2>1. ASSUME pc = "done"
        PROVE  /\ \A t \in reading.kept : Expected(t)' /\ Alone(t)' /\ ~reading.failed =>
                    /\ Shown(t)' \in DOMAIN shown
                    /\ \/ engine' \in {"mongodb", "prometheus"}
                       \/ shown[Shown(t)'] = ColumnsOf(t)'
               /\ \A n \in DOMAIN shown, c \in ColumnNames :
                    /\ \E e \in reading.ever : Shown(e[1])' = n
                    /\ c \in shown[n] => \E e \in reading.ever : Shown(e[1])' = n /\ c \in e[2]
    BY <1>1, <1>3, <2>1
    DEF Expected, Alone, InSchema, Grounded, Shown, ElidesMain, ColumnsOf
  <2>2. pc = "error" => ErrorOnlyIf'
    BY <1>1, <1>3 DEF ErrorOnlyIf
  <2> QED
    BY <1>3, <2>1, <2>2 DEF SchemaIsTrue, ErrorOnlyIf
<1> QED
  BY <1>1, <1>2, <1>3, <1>4, RunnersKeepTables

\* An exception leaves no schema.
LEMMA ErrorsKeepTables ==
  ASSUME TablesInv, Ends("error", <<>>), ErrorOnlyIf
  PROVE  TablesInv'
<1>1. <<>> \in Schemata /\ DOMAIN <<>> = {}
  <2>1. <<>> \in [{} -> SUBSET ColumnNames]
    OBVIOUS
  <2> QED
    BY <2>1 DEF Schemata
<1>2. Grounded(<<>>)
  BY <1>1 DEF Grounded
<1> QED
  BY <1>1, <1>2, EndsKeepTables

\* One request for all tables: those that are there, under the names that they are
\* shown with, each with the columns of all that have its name.
LEMMA ListsAreTrue ==
  ASSUME TablesInv, NEW listed \in SUBSET There, NEW shown,
         shown = [n \in {Shown(t) : t \in listed} |-> Collected({t \in listed : Shown(t) = n})]
  PROVE  /\ shown \in Schemata /\ Grounded(shown)
         /\ \A t \in listed : Alone(t) => InSchema(t, shown)
<1>1. listed \in SUBSET TableIds /\ table \in [TableIds -> Rows]
  BY DEF There, TablesInv
<1>2. DOMAIN shown = {Shown(t) : t \in listed}
  OBVIOUS
<1>3. ASSUME NEW n \in DOMAIN shown
      PROVE  \A c : c \in shown[n] <=> \E t \in listed : Shown(t) = n /\ c \in ColumnsOf(t)
  <2>1. shown[n] = UNION {ColumnsOf(t) : t \in {u \in listed : Shown(u) = n}}
    BY DEF Collected
  <2> QED
    BY <2>1
<1>4. \A t \in listed : ColumnsOf(t) \in SUBSET ColumnNames /\ <<t, ColumnsOf(t)>> \in reading.ever
  BY <1>1, RowsOfTables DEF TablesInv
<1>5. shown \in Schemata
  <2>1. DOMAIN shown \in SUBSET ShownNames
    BY <1>1, <1>2 DEF ShownNames
  <2>2. \A n \in DOMAIN shown : shown[n] \in SUBSET ColumnNames
    BY <1>3, <1>4
  <2>3. shown \in [DOMAIN shown -> SUBSET ColumnNames]
    BY <2>2
  <2> QED
    BY <2>1, <2>3 DEF Schemata
<1>6. Grounded(shown)
  <2>1. ASSUME NEW n \in DOMAIN shown
        PROVE  \E e \in reading.ever : Shown(e[1]) = n
    <3>1. PICK t \in listed : Shown(t) = n
      BY <1>2
    <3> QED
      BY <1>4, <3>1
  <2>2. ASSUME NEW n \in DOMAIN shown, NEW c \in shown[n]
        PROVE  \E e \in reading.ever : Shown(e[1]) = n /\ c \in e[2]
    <3>1. PICK t \in listed : Shown(t) = n /\ c \in ColumnsOf(t)
      BY <1>3, <2>2
    <3>2. <<t, ColumnsOf(t)>> \in reading.ever
      BY <1>4
    <3> QED
      BY <3>1, <3>2
  <2> QED
    BY <2>1, <2>2 DEF Grounded
<1>7. ASSUME NEW t \in listed, Alone(t) PROVE InSchema(t, shown)
  <2>1. \A u \in listed : Shown(u) = Shown(t) => u = t
    BY <1>4, <1>7 DEF Alone
  <2>2. \A c : c \in shown[Shown(t)] <=> c \in ColumnsOf(t)
    BY <1>2, <1>3, <2>1
  <2>3. shown[Shown(t)] = ColumnsOf(t)
    <3> DEFINE n == Shown(t)
    <3>2. n \in DOMAIN shown
      BY <1>2
    <3>3. shown[n] \in SUBSET ColumnNames
      BY <1>5, <3>2 DEF Schemata
    <3>1. shown[Shown(t)] \in SUBSET ColumnNames /\ ColumnsOf(t) \in SUBSET ColumnNames
      BY <1>4, <3>3
    <3> QED
      BY <2>2, <3>1
  <2> QED
    BY <1>2, <2>3 DEF InSchema
<1> QED
  BY <1>5, <1>6, <1>7

LEMMA AsksKeepTables ==
  ASSUME TablesInv, AskCatalog \/ AskMetrics \/ AskMappings \/ NotSupported
  PROVE  TablesInv'
<1>1. reading.kept \subseteq There
  BY DEF TablesInv, TablesTypeOK
<1>2. CASE AskCatalog
  <2> DEFINE listed == {t \in There : ColumnsOf(t) # {}}
             shown == [n \in {Shown(t) : t \in listed} |->
                          Collected({t \in listed : Shown(t) = n})]
  <2>1. engine \in Catalogs /\ Ends("done", shown)
    BY <1>2 DEF AskCatalog
  <2>2. /\ shown \in Schemata /\ Grounded(shown)
        /\ \A t \in listed : Alone(t) => InSchema(t, shown)
    BY ListsAreTrue
  <2>3. \A t \in reading.kept : Expected(t) => t \in listed
    BY <1>1, <2>1 DEF Expected
  <2> HIDE DEF listed, shown
  <2> QED
    BY <2>1, <2>2, <2>3, EndsKeepTables
<1>3. CASE AskMetrics
  <2> DEFINE shown == [n \in {Shown(t) : t \in There} |-> {}]
  <2>1. engine = "prometheus" /\ Ends("done", shown)
    BY <1>3 DEF AskMetrics
  <2>2. There \in SUBSET TableIds /\ \A t \in There : <<t, ColumnsOf(t)>> \in reading.ever
    BY DEF There, TablesInv
  <2>3. DOMAIN shown \in SUBSET ShownNames
    BY <2>2 DEF ShownNames
  <2>4. shown \in Schemata
    <3>1. shown \in [DOMAIN shown -> SUBSET ColumnNames]
      OBVIOUS
    <3> HIDE DEF shown
    <3> QED
      BY <2>3, <3>1 DEF Schemata
  <2>5. Grounded(shown)
    BY <2>2 DEF Grounded
  <2>6. \A t \in reading.kept : InSchema(t, shown)
    BY <1>1, <2>1 DEF InSchema
  <2> HIDE DEF shown
  <2> QED
    BY <2>1, <2>4, <2>5, <2>6, EndsKeepTables
<1>4. CASE AskMappings
  <2> DEFINE shown == [n \in {Shown(t) : t \in There} |-> Collected({t \in There : Shown(t) = n})]
  <2>1. CASE There \cap odd # {}
    <3>1. Ends("error", <<>>)
      BY <1>4, <2>1 DEF AskMappings
    <3>2. ErrorOnlyIf
      BY <2>1 DEF ErrorOnlyIf, TablesInv, WasThere
    <3> QED
      BY <3>1, <3>2, ErrorsKeepTables
  <2>2. CASE There \cap odd = {}
    <3>1. Ends("done", shown)
      BY <1>4, <2>2 DEF AskMappings
    <3>2. /\ shown \in Schemata /\ Grounded(shown)
          /\ \A t \in There : Alone(t) => InSchema(t, shown)
      BY ListsAreTrue
    <3> HIDE DEF shown
    <3> QED
      BY <1>1, <3>1, <3>2, EndsKeepTables
  <2> QED
    BY <2>1, <2>2
<1>5. CASE NotSupported
  BY <1>5, ErrorsKeepTables DEF NotSupported, ErrorOnlyIf
<1> QED
  BY <1>2, <1>3, <1>4, <1>5

\* The entry of a table goes in; one of the same name is that of another table.
LEMMA EntriesKeepTables ==
  ASSUME TablesInv, reading.pc = "describe", NEW t \in reading.todo,
         NEW entered \in SUBSET ColumnsOf(t), entered = ColumnsOf(t) \/ engine = "mongodb",
         Enter(t, entered)
  PROVE  TablesInv'
<1>1. /\ reading \in Readings /\ WalkOK /\ t \in TableIds /\ table \in [TableIds -> Rows]
      /\ UNCHANGED <<engine, table, odd, changes>>
  BY DEF TablesInv, Enter, Readings
<1> DEFINE n == Shown(t)
           shown == [m \in DOMAIN reading.schema \cup {n} |->
                        IF m = n THEN entered ELSE reading.schema[m]]
<1>2. reading' = [reading EXCEPT !.todo = reading.todo \ {t}, !.schema = shown]
  BY DEF Enter
<1>3. ColumnsOf(t) \in SUBSET ColumnNames /\ (ColumnsOf(t) # {} => t \in There)
  BY <1>1, RowsOfTables
<1>4. /\ DOMAIN shown = DOMAIN reading.schema \cup {n}
      /\ shown[n] = entered
      /\ \A m \in DOMAIN reading.schema : m # n => shown[m] = reading.schema[m]
  OBVIOUS
<1>5. shown \in Schemata
  <2>1. DOMAIN reading.schema \in SUBSET ShownNames /\ n \in ShownNames
    BY <1>1 DEF Readings, ShownNames
  <2>2. \A m \in DOMAIN reading.schema : reading.schema[m] \in SUBSET ColumnNames
    BY <1>1 DEF Readings
  <2>3. shown \in [DOMAIN shown -> SUBSET ColumnNames]
    BY <1>3, <2>2
  <2> QED
    BY <1>4, <2>1, <2>3 DEF Schemata
<1> HIDE DEF shown
<1>6. reading' \in Readings
  BY <1>1, <1>2, <1>5 DEF Readings, Schemata
<1>7. /\ UNCHANGED <<reading.pc, reading.match, reading.kept, reading.ever, reading.dropped,
                     reading.failed>>
      /\ reading'.todo = reading.todo \ {t} /\ reading'.schema = shown
  BY <1>1, <1>2 DEF Readings
<1>8. Grounded(shown)
  <2>1. \E e \in reading.ever : Shown(e[1]) = n
    BY <1>1 DEF WalkOK, WasThere
  <2>2. ASSUME NEW c \in entered
        PROVE  \E e \in reading.ever : Shown(e[1]) = n /\ c \in e[2]
    <3>1. <<t, ColumnsOf(t)>> \in reading.ever
      BY <1>3, <2>2 DEF TablesInv
    <3> QED
      BY <2>2, <3>1
  <2>3. Grounded(reading.schema)
    BY DEF TablesInv
  <2> HIDE DEF n
  <2> QED
    BY <1>4, <2>1, <2>2, <2>3 DEF Grounded
<1>9. /\ \A u : Shown(u)' = Shown(u) /\ ColumnsOf(u)' = ColumnsOf(u)
      /\ There' = There
  BY <1>1 DEF Shown, ElidesMain, ColumnsOf, There
<1>10. WalkOK'
  <2>1. ASSUME NEW u \in reading.kept, Expected(u)', Alone(u)', u \notin reading'.todo
        PROVE  InSchema(u, shown)
    <3>1. Expected(u) /\ Alone(u)
      BY <1>1, <1>7, <1>9, <2>1 DEF Expected, Alone
    <3>2. CASE u = t
      BY <1>4, <3>2 DEF InSchema
    <3>3. CASE u # t
      <4>1. InSchema(u, reading.schema)
        BY <1>1, <1>7, <2>1, <3>1, <3>3 DEF WalkOK
      <4>2. Shown(u) # n
        BY <1>1, <3>1, <3>3 DEF Alone, WalkOK, WasThere
      <4> QED
        BY <1>4, <4>1, <4>2 DEF InSchema
    <3> QED
      BY <3>2, <3>3
  <2>2. \A u \in reading.kept : InSchema(u, shown) => InSchema(u, reading.schema)'
    BY <1>1, <1>7, <1>9 DEF InSchema
  <2>3. \A u \in reading'.todo : WasThere(u)'
    BY <1>1, <1>7 DEF WalkOK, WasThere
  <2> QED
    BY <1>1, <1>7, <1>9, <2>1, <2>2, <2>3 DEF WalkOK
<1> QED
  BY <1>1, <1>6, <1>7, <1>8, <1>10, RunnersKeepTables DEF SchemaIsTrue

LEMMA WalksKeepTables ==
  ASSUME TablesInv,
         \/ List \/ Described \/ RequestFails
         \/ \E t \in TableIds :
              DescribeHive(t) \/ DescribeSqlite(t) \/ DescribeCollection(t) \/ DescribeKey(t)
  PROVE  TablesInv'
<1>1. reading \in Readings /\ table \in [TableIds -> Rows] /\ reading.kept \subseteq There
  BY DEF TablesInv, TablesTypeOK
<1>2. reading.pc = "describe" => WalkOK
  BY DEF TablesInv
<1>3. CASE List
  <2>1. /\ engine \in Walked /\ UNCHANGED <<engine, table, odd, changes>>
        /\ reading' = [reading EXCEPT !.pc = "describe",
                         !.todo = {t \in There : t[2] \in reading.match}]
    BY <1>3 DEF List
  <2>2. There \in SUBSET TableIds
    BY DEF There
  <2>3. reading' \in Readings
    BY <1>1, <2>1, <2>2 DEF Readings
  <2>4. /\ UNCHANGED <<reading.match, reading.kept, reading.ever, reading.dropped, reading.schema,
                       reading.failed>>
        /\ reading'.pc = "describe" /\ reading'.todo = {t \in There : t[2] \in reading.match}
    BY <1>1, <2>1 DEF Readings
  <2>5. There' = There
    BY <2>1 DEF There
  <2>6. WalkOK'
    <3>1. \A t \in reading'.kept : Expected(t)' => t \in reading'.todo
      BY <1>1, <2>4 DEF Expected
    <3>3. \A t \in There : <<t, ColumnsOf(t)>> \in reading'.ever
      BY <2>4 DEF TablesInv
    <3>2. \A t \in reading'.todo : WasThere(t)'
      BY <2>4, <3>3 DEF WasThere
    <3> QED
      BY <2>4, <2>5, <3>1, <3>2 DEF WalkOK
  <2>7. Grounded(reading'.schema) /\ SchemaIsTrue'
    BY <2>4 DEF TablesInv, SchemaIsTrue
  <2> QED
    BY <2>1, <2>3, <2>4, <2>6, <2>7, RunnersKeepTables
<1>4. CASE Described
  <2>1. reading.pc = "describe" /\ reading.todo = {} /\ Ends("done", reading.schema)
    BY <1>4 DEF Described
  <2>2. reading.schema \in Schemata
    BY <1>1 DEF Readings, Schemata
  <2> QED
    BY <1>2, <2>1, <2>2, EndsKeepTables DEF WalkOK, TablesInv
<1>5. CASE RequestFails
  <2>1. /\ reading.pc \in {"ask", "describe"} /\ UNCHANGED <<engine, table, odd, changes>>
        /\ reading' = [reading EXCEPT !.failed = TRUE,
                         !.pc = IF engine = "elasticsearch" THEN "done" ELSE "error"]
    BY <1>5 DEF RequestFails
  <2>2. reading' \in Readings
    BY <1>1, <2>1 DEF Readings
  <2>3. /\ UNCHANGED <<reading.match, reading.todo, reading.kept, reading.ever, reading.dropped,
                       reading.schema>>
        /\ reading'.pc \in {"done", "error"} /\ reading'.failed
    BY <1>1, <2>1 DEF Readings
  <2>4. Grounded(reading'.schema)
    BY <2>3 DEF TablesInv
  <2>5. SchemaIsTrue'
    <3>1. Grounded(reading.schema)'
      BY <2>1, <2>3, <2>4 DEF Grounded, Shown, ElidesMain
    <3> QED
      BY <2>3, <3>1 DEF SchemaIsTrue, Grounded
  <2> QED
    BY <2>1, <2>2, <2>3, <2>4, <2>5, RunnersKeepTables
<1>6. ASSUME NEW t \in TableIds, DescribeHive(t) \/ DescribeSqlite(t)
      PROVE  TablesInv'
  <2>1. reading.pc = "describe" /\ engine \in {"hive", "sqlite"} /\ t \in reading.todo
    BY <1>6 DEF DescribeHive, DescribeSqlite, Asks
  <2>2. CASE t \in There \ odd
    <3>1. Enter(t, ColumnsOf(t))
      BY <1>6, <2>2 DEF DescribeHive, DescribeSqlite
    <3> QED
      BY <2>1, <3>1, EntriesKeepTables
  <2>3. CASE t \notin There \ odd
    <3>1. Ends("error", <<>>)
      BY <1>6, <2>3 DEF DescribeHive, DescribeSqlite
    <3>2. ErrorOnlyIf
      BY <1>2, <2>1, <2>3 DEF ErrorOnlyIf, WalkOK, TablesInv, WasThere
    <3> QED
      BY <3>1, <3>2, ErrorsKeepTables
  <2> QED
    BY <2>2, <2>3
<1>7. ASSUME NEW t \in TableIds, DescribeCollection(t)
      PROVE  TablesInv'
  <2>1. reading.pc = "describe" /\ engine = "mongodb" /\ t \in reading.todo
    BY <1>7 DEF DescribeCollection, Asks
  <2>2. PICK S \in SUBSET ColumnsOf(t) : Enter(t, S)
    BY <1>7 DEF DescribeCollection
  <2> QED
    BY <2>1, <2>2, EntriesKeepTables
<1>8. ASSUME NEW t \in TableIds, DescribeKey(t)
      PROVE  TablesInv'
  <2>1. reading.pc = "describe" /\ engine = "redis29" /\ t \in reading.todo
    BY <1>8 DEF DescribeKey, Asks
  <2>2. CASE t \in odd /\ t \in There
    <3>1. Ends("error", <<>>)
      BY <1>8, <2>2 DEF DescribeKey
    <3>2. ErrorOnlyIf
      BY <2>2 DEF ErrorOnlyIf, TablesInv, WasThere
    <3> QED
      BY <3>1, <3>2, ErrorsKeepTables
  <2>3. CASE ~(t \in odd /\ t \in There) /\ ColumnsOf(t) # {}
    <3>1. Enter(t, ColumnsOf(t))
      BY <1>8, <2>3 DEF DescribeKey
    <3> QED
      BY <2>1, <3>1, EntriesKeepTables
  <2>4. CASE ~(t \in odd /\ t \in There) /\ ColumnsOf(t) = {}
    <3>1. /\ reading' = [reading EXCEPT !.todo = reading.todo \ {t}]
          /\ UNCHANGED <<engine, table, odd, changes>>
      BY <1>8, <2>4 DEF DescribeKey
    <3>2. reading' \in Readings
      BY <1>1, <3>1 DEF Readings
    <3>3. /\ UNCHANGED <<reading.pc, reading.match, reading.kept, reading.ever, reading.dropped,
                         reading.schema, reading.failed>>
          /\ reading'.todo = reading.todo \ {t}
      BY <1>1, <3>1 DEF Readings
    <3>4. /\ \A u : Shown(u)' = Shown(u) /\ ColumnsOf(u)' = ColumnsOf(u)
          /\ There' = There
      BY <3>1 DEF Shown, ElidesMain, ColumnsOf, There
    <3>5. ~Expected(t)
      BY <2>1, <2>4 DEF Expected
    <3>6. ASSUME NEW u \in reading'.kept, Expected(u)', Alone(u)', u \notin reading'.todo
          PROVE  InSchema(u, reading.schema)'
      <4>1. Expected(u) /\ Alone(u)
        BY <3>1, <3>3, <3>4, <3>6 DEF Expected, Alone
      <4>2. InSchema(u, reading.schema)
        BY <1>2, <2>1, <3>3, <3>5, <3>6, <4>1 DEF WalkOK
      <4> QED
        BY <3>1, <3>3, <3>4, <4>2 DEF InSchema
    <3>7. \A u \in reading'.todo : WasThere(u)'
      BY <1>2, <2>1, <3>3 DEF WalkOK, WasThere
    <3>8. WalkOK'
      BY <1>2, <2>1, <3>3, <3>4, <3>6, <3>7 DEF WalkOK
    <3>9. Grounded(reading'.schema) /\ SchemaIsTrue'
      BY <2>1, <3>3 DEF TablesInv, SchemaIsTrue
    <3> QED
      BY <3>1, <3>2, <3>3, <3>8, <3>9, RunnersKeepTables
  <2> QED
    BY <2>2, <2>3, <2>4
<1> QED
  BY <1>3, <1>4, <1>5, <1>6, <1>7, <1>8

LEMMA TablesInvHolds == TablesSpec => []TablesInv
<1>1. ASSUME TablesInit PROVE TablesInv
  <2> DEFINE shown == [n \in {} |-> {}]
             ever == {<<t, ColumnsOf(t)>> : t \in There}
  <2>1. PICK S \in SUBSET TableNames :
          reading = [pc |-> "ask", match |-> S, todo |-> {}, schema |-> shown,
                     failed |-> FALSE, kept |-> There, dropped |-> {}, ever |-> ever]
    BY <1>1 DEF TablesInit
  <2>2. /\ engine \in Engines /\ table \in [TableIds -> Rows] /\ There \subseteq Here
        /\ odd \subseteq There /\ changes = 0
    BY <1>1 DEF TablesInit, Rows
  <2>3. shown \in [{} -> SUBSET ColumnNames] /\ DOMAIN shown = {}
    OBVIOUS
  <2>4. shown \in Schemata
    BY <2>3 DEF Schemata
  <2>5. There \in SUBSET TableIds
    BY DEF There
  <2>6. ever \in SUBSET (TableIds \X SUBSET ColumnNames)
    BY <2>2, <2>5, RowsOfTables
  <2>7. /\ \A t \in There : <<t, ColumnsOf(t)>> \in ever
        /\ reading.ever = ever
    BY <2>1
  <2>8. /\ reading.pc = "ask" /\ reading.todo = {} /\ reading.kept = There
        /\ reading.schema = shown
    BY <2>1
  <2> HIDE DEF shown, ever
  <2>9. reading \in Readings
    BY <2>1, <2>4, <2>5, <2>6 DEF Readings, Schemata
  <2>10. Grounded(reading.schema)
    BY <2>3, <2>8 DEF Grounded
  <2>11. SchemaIsTrue
    BY <2>8 DEF SchemaIsTrue
  <2>12. TablesTypeOK
    <3>1. table \in [TableIds -> [there : BOOLEAN, columns : SUBSET ColumnNames]]
      BY <2>2, RowsAreTyped
    <3> QED
      BY <2>2, <2>3, <2>8, <3>1, TablesAssumption DEF TablesTypeOK
  <2> QED
    BY <2>2, <2>7, <2>8, <2>9, <2>10, <2>11, <2>12 DEF TablesInv, WasThere
<1>2. ASSUME TablesInv, TablesNext PROVE TablesInv'
  <2>1. Missing \in Rows /\ \A S \in SUBSET ColumnNames : Made(S) \in Rows
    BY DEF Rows
  <2>2. CASE \E t \in TableIds : Drop(t) \/ \E S \in SUBSET ColumnNames : Define(t, S)
    BY <1>2, <2>1, <2>2, ChangesKeepTables DEF Drop, Define
  <2>3. CASE AskCatalog \/ AskMetrics \/ AskMappings \/ NotSupported
    BY <1>2, <2>3, AsksKeepTables
  <2>4. CASE \/ List \/ Described \/ RequestFails
             \/ \E t \in TableIds :
                  DescribeHive(t) \/ DescribeSqlite(t) \/ DescribeCollection(t) \/ DescribeKey(t)
    BY <1>2, <2>4, WalksKeepTables
  <2> QED
    BY <1>2, <2>2, <2>3, <2>4 DEF TablesNext
<1>3. ASSUME TablesInv, UNCHANGED tableVars PROVE TablesInv'
  <2>1. UNCHANGED <<engine, table, odd, reading, changes>>
    BY <1>3 DEF tableVars
  <2>2. WalkOK => WalkOK'
    BY <2>1 DEF WalkOK, There, WasThere, Expected, Alone, InSchema, Shown, ElidesMain, ColumnsOf
  <2>3. SchemaIsTrue'
    BY <1>3, <2>1
    DEF TablesInv, SchemaIsTrue, Expected, Alone, Shown, ElidesMain, ColumnsOf
  <2> QED
    BY <1>3, <2>1, <2>2, <2>3, RunnersKeepTables DEF TablesInv
<1> QED
  BY <1>1, <1>2, <1>3, PTL DEF TablesSpec

\* The types of Tables.
THEOREM TablesTypeCorrect == TablesSpec => []TablesTypeOK
<1>1. TablesInv => TablesTypeOK
  BY DEF TablesInv
<1> QED
  BY <1>1, TablesInvHolds, PTL

\* A schema has every table that nobody has changed meanwhile, and nothing that was
\* not there at some time, unless two are shown alike or a request has failed
\* (_get_tables of the runners, as pg.py:127-165 and hive_ds.py:75-95).
THEOREM SchemasAreTrue == TablesSpec => []SchemaIsTrue
<1>1. TablesInv => SchemaIsTrue
  BY DEF TablesInv
<1> QED
  BY <1>1, TablesInvHolds, PTL

-----------------------------------------------------------------------------
(* Columns: names                                                          *)

\* Every set of naturals that is not empty has a least element.
LEMMA Least ==
  ASSUME NEW T \in SUBSET Nat, T # {}
  PROVE  \E least \in T : \A n \in T : least <= n
<1>1. PICK least \in T : \A n \in T : ~(<<n, least>> \in OpToRel(<, Nat))
  BY WFMin, NatLessThanWellFounded
<1>2. \A n \in T : ~(n < least)
  BY <1>1 DEF OpToRel
<1> QED
  BY <1>2

\* Induction up to n, of a set.
LEMMA Induction ==
  ASSUME NEW n \in Nat, NEW T, 0 \in T, \A k \in 1..n : k - 1 \in T => k \in T
  PROVE  \A k \in 0..n : k \in T
<1> SUFFICES ASSUME NEW m \in 0..n, m \notin T PROVE FALSE
  OBVIOUS
<1> DEFINE U == {k \in 0..n : k \notin T}
<1>1. PICK least \in U : \A k \in U : least <= k
  <2>1. U \in SUBSET Nat /\ m \in U
    OBVIOUS
  <2> HIDE DEF U
  <2> QED
    BY <2>1, Least
<1>2. least \in 1..n /\ least - 1 \in 0..n /\ least - 1 \notin U
  BY <1>1
<1> QED
  BY <1>1, <1>2

\* A function can be defined by recursion on 0..n.
Recursive(g, n, S, base, F) ==
  /\ g \in [0..n -> S] /\ g[0] = base
  /\ \A k \in 1..n : g[k] = F[<<k, g[k - 1]>>]

LEMMA Recursion ==
  ASSUME NEW n \in Nat, NEW S, NEW base \in S, NEW F \in [(1..n) \X S -> S]
  PROVE  \E g : Recursive(g, n, S, base, F)
<1> DEFINE Good(g, m) ==
             g \in [0..m -> S] /\ g[0] = base /\ \A k \in 1..m : g[k] = F[<<k, g[k - 1]>>]
           T == {m \in 0..n : \E g : Good(g, m)}
<1>1. 0 \in T
  <2>1. Good([i \in 0..0 |-> base], 0)
    OBVIOUS
  <2>2. \E g : Good(g, 0)
    BY <2>1
  <2> QED
    BY <2>2
<1>2. ASSUME NEW k \in 1..n, k - 1 \in T PROVE k \in T
  <2>1. PICK g : Good(g, k - 1)
    BY <1>2
  <2> DEFINE h == [i \in 0..k |-> IF i = k THEN F[<<k, g[k - 1]>>] ELSE g[i]]
  <2>2. g[k - 1] \in S /\ F[<<k, g[k - 1]>>] \in S
    BY <2>1
  <2>3. h \in [0..k -> S] /\ h[0] = base
    BY <2>1, <2>2
  <2>4. \A i \in 1..k : h[i] = F[<<i, h[i - 1]>>]
    <3> SUFFICES ASSUME NEW i \in 1..k PROVE h[i] = F[<<i, h[i - 1]>>]
      OBVIOUS
    <3>1. h[i - 1] = g[i - 1]
      OBVIOUS
    <3>2. CASE i = k
      BY <3>1, <3>2
    <3>3. CASE i # k
      <4>1. i \in 1..k - 1 /\ h[i] = g[i]
        BY <3>3
      <4>2. g[i] = F[<<i, g[i - 1]>>]
        BY <2>1, <4>1
      <4> QED
        BY <3>1, <4>1, <4>2
    <3> QED
      BY <3>2, <3>3
  <2> HIDE DEF h
  <2> QED
    BY <2>3, <2>4
<1> HIDE DEF T
<1>3. n \in T
  BY <1>1, <1>2, Induction
<1>4. PICK g : Good(g, n)
  BY <1>3 DEF T
<1>5. Recursive(g, n, S, base, F)
  BY <1>4 DEF Recursive
<1> QED
  BY <1>5

\* A name that is another, which comes twice, with a number.
Clashing(names) ==
  \E i, j, m \in 1..Len(names) : names[i] = Append(names[j], m) /\ Twice(names, names[j])

\* fetch_columns up to the k-th name: a name is as it comes, or has a number that
\* no other has got.
NamedUpTo(names, k, made) ==
  /\ made \in [names : Seq(Seq(Nat)), count : Nat]
  /\ Len(made.names) = k
  /\ made.count >= 1 /\ made.count <= (IF k = 0 THEN 1 ELSE k)
  /\ \A i \in 1..k : \/ made.names[i] = names[i]
                     \/ \E m \in 1..made.count - 1 : made.names[i] = Append(names[i], m)
  /\ \A i \in 1..k : made.names[i] = names[i] \/ Clashing(names) \/ Twice(names, names[i])
  /\ Clashing(names) \/ \A i, j \in 1..k : made.names[i] = made.names[j] => i = j

LEMMA AppendsDiffer ==
  ASSUME NEW s \in Seq(Nat), NEW t \in Seq(Nat), NEW a \in Nat, NEW b \in Nat,
         Append(s, a) = Append(t, b)
  PROVE  a = b
<1>1. Len(s) = Len(t)
  <2>1. Len(Append(s, a)) = Len(s) + 1 /\ Len(Append(t, b)) = Len(t) + 1
    OBVIOUS
  <2> QED
    BY <2>1
<1>2. Append(s, a)[Len(s) + 1] = a /\ Append(t, b)[Len(t) + 1] = b
  OBVIOUS
<1> QED
  BY <1>1, <1>2

LEMMA NamedNextOf ==
  ASSUME NEW ns, NEW c, NEW name
  PROVE  NamedNext([names |-> ns, count |-> c], name) =
           IF Contains(ns, name)
           THEN [names |-> Append(ns, Append(name, c)), count |-> c + 1]
           ELSE [names |-> Append(ns, name), count |-> c]
BY DEF NamedNext

LEMMA NamesStayApart ==
  ASSUME NEW names \in Seq(Seq(Nat)), NEW k \in 1..Len(names), NEW made,
         NamedUpTo(names, k - 1, made)
  PROVE  NamedUpTo(names, k, NamedNext(made, names[k]))
<1> DEFINE name == names[k]
           ns == made.names
           c == made.count
           Clash == Clashing(names)
<1>1. /\ ns \in Seq(Seq(Nat)) /\ c \in Nat /\ Len(ns) = k - 1 /\ name \in Seq(Nat)
      /\ made = [names |-> ns, count |-> c]
      /\ c >= 1 /\ c <= k
      /\ k # 1 => c <= k - 1
  BY DEF NamedUpTo
<1>2. \A i \in 1..k - 1 : \/ ns[i] = names[i]
                          \/ \E m \in 1..c - 1 : ns[i] = Append(names[i], m)
  BY DEF NamedUpTo
<1>3. Clash \/ \A i, j \in 1..k - 1 : ns[i] = ns[j] => i = j
  BY DEF NamedUpTo
<1>8. \A i \in 1..k - 1 : ns[i] = names[i] \/ Clash \/ Twice(names, names[i])
  BY DEF NamedUpTo
<1>9. 1..k - 1 \subseteq 1..Len(names) /\ DOMAIN names = 1..Len(names)
  OBVIOUS
<1>4. names[k] = name
  OBVIOUS
<1>5. NamedNext(made, name) =
        IF Contains(ns, name)
        THEN [names |-> Append(ns, Append(name, c)), count |-> c + 1]
        ELSE [names |-> Append(ns, name), count |-> c]
  BY <1>1, NamedNextOf
<1> HIDE DEF name, ns, c, Clash
<1>6. CASE ~Contains(ns, name)
  <2>1. /\ Append(ns, name) \in Seq(Seq(Nat)) /\ Len(Append(ns, name)) = k
        /\ Append(ns, name)[k] = name
        /\ \A i \in 1..k - 1 : Append(ns, name)[i] = ns[i]
    BY <1>1
  <2>2. \A i \in 1..k - 1 : ns[i] # name
    BY <1>1, <1>6 DEF Contains
  <2>3. \A i \in 1..k : \/ Append(ns, name)[i] = names[i]
                        \/ \E m \in 1..c - 1 : Append(ns, name)[i] = Append(names[i], m)
    <3>1. ASSUME NEW i \in 1..k - 1
          PROVE  \/ Append(ns, name)[i] = names[i]
                 \/ \E m \in 1..c - 1 : Append(ns, name)[i] = Append(names[i], m)
      BY <1>2, <2>1
    <3>2. \A i \in 1..k : i = k \/ i \in 1..k - 1
      OBVIOUS
    <3> QED
      BY <1>4, <2>1, <3>1, <3>2
  <2>4. Clash \/ \A i, j \in 1..k : Append(ns, name)[i] = Append(ns, name)[j] => i = j
    <3>1. ASSUME ~Clash, NEW i \in 1..k, NEW j \in 1..k,
                 Append(ns, name)[i] = Append(ns, name)[j]
          PROVE  i = j
      <4>1. (i = k \/ i \in 1..k - 1) /\ (j = k \/ j \in 1..k - 1)
        OBVIOUS
      <4> QED
        BY <1>3, <2>1, <2>2, <3>1, <4>1
    <3> QED
      BY <3>1
  <2> DEFINE next == [names |-> Append(ns, name), count |-> c]
  <2>5. NamedNext(made, names[k]) = next
    BY <1>4, <1>5, <1>6
  <2>6. next.names = Append(ns, name) /\ next.count = c /\ next \in [names : Seq(Seq(Nat)), count : Nat]
    BY <1>1, <2>1
  <2> HIDE DEF next
  <2>7. k # 0 /\ k \in Nat
    OBVIOUS
  <2>8. NamedUpTo(names, k, next)
    <3>1. /\ next \in [names : Seq(Seq(Nat)), count : Nat] /\ Len(next.names) = k
          /\ next.count >= 1 /\ next.count <= (IF k = 0 THEN 1 ELSE k)
      BY <1>1, <2>1, <2>6, <2>7
    <3>2. \A i \in 1..k : \/ next.names[i] = names[i]
                          \/ \E m \in 1..next.count - 1 : next.names[i] = Append(names[i], m)
      BY <2>3, <2>6
    <3>3. Clash \/ \A i, j \in 1..k : next.names[i] = next.names[j] => i = j
      BY <2>4, <2>6
    <3>4. \A i \in 1..k : next.names[i] = names[i] \/ Clash \/ Twice(names, names[i])
      <4>1. \A i \in 1..k : i = k \/ i \in 1..k - 1
        OBVIOUS
      <4> QED
        BY <1>4, <1>8, <2>1, <2>6, <4>1
    <3> QED
      BY <3>1, <3>2, <3>3, <3>4 DEF NamedUpTo, Clash
  <2> QED
    BY <2>5, <2>8
<1>7. CASE Contains(ns, name)
  <2> DEFINE new == Append(name, c)
  <2>1. new \in Seq(Nat)
    BY <1>1
  <2>2. c <= k - 1 /\ c \in 1..Len(names)
    BY <1>1, <1>7 DEF Contains
  <2>13. Clash \/ Twice(names, names[k])
    <3>1. PICK i \in 1..k - 1 : ns[i] = names[k]
      BY <1>1, <1>4, <1>7 DEF Contains
    <3>2. i # k /\ i \in DOMAIN names /\ k \in DOMAIN names
      BY <1>9
    <3>3. CASE ns[i] = names[i]
      BY <3>1, <3>2, <3>3 DEF Twice
    <3>4. ASSUME NEW m \in 1..c - 1, ns[i] = Append(names[i], m), ns[i] # names[i]
          PROVE  Clash
      <4>1. Clash \/ Twice(names, names[i])
        BY <1>8, <3>4
      <4>2. m \in 1..Len(names) /\ names[k] = Append(names[i], m)
        BY <1>1, <2>2, <3>1, <3>4
      <4> QED
        BY <1>9, <4>1, <4>2 DEF Clash, Clashing
    <3> QED
      BY <1>2, <3>3, <3>4
  <2>3. ASSUME NEW i \in 1..k - 1, ns[i] = new PROVE Clash
    <3>1. CASE ns[i] = names[i]
      <4>1. i \in 1..Len(names) /\ names[i] = Append(names[k], c)
        BY <1>4, <2>3, <3>1
      <4> QED
        BY <2>2, <2>13, <4>1 DEF Clash, Clashing
    <3>2. ASSUME NEW m \in 1..c - 1, ns[i] = Append(names[i], m) PROVE FALSE
      <4>1. names[i] \in Seq(Nat) /\ m \in Nat
        OBVIOUS
      <4>2. m = c
        BY <1>1, <2>3, <3>2, <4>1, AppendsDiffer
      <4> QED
        BY <1>1, <4>2
    <3> QED
      BY <1>2, <3>1, <3>2
  <2>4. new = Append(names[k], c)
    BY <1>4
  <2> HIDE DEF new
  <2>5. /\ Append(ns, new) \in Seq(Seq(Nat)) /\ Len(Append(ns, new)) = k
        /\ Append(ns, new)[k] = new
        /\ \A i \in 1..k - 1 : Append(ns, new)[i] = ns[i]
    BY <1>1, <2>1
  <2>6. \A i \in 1..k : \/ Append(ns, new)[i] = names[i]
                        \/ \E m \in 1..c : Append(ns, new)[i] = Append(names[i], m)
    <3>1. c \in 1..c /\ Append(ns, new)[k] = Append(names[k], c)
      BY <1>1, <2>4, <2>5
    <3>2. ASSUME NEW i \in 1..k - 1
          PROVE  \/ Append(ns, new)[i] = names[i]
                 \/ \E m \in 1..c : Append(ns, new)[i] = Append(names[i], m)
      <4>1. 1..c - 1 \subseteq 1..c
        BY <1>1
      <4>2. ns[i] = names[i] \/ \E m \in 1..c : ns[i] = Append(names[i], m)
        BY <1>2, <4>1
      <4> QED
        BY <2>5, <4>2
    <3>3. \A i \in 1..k : i = k \/ i \in 1..k - 1
      OBVIOUS
    <3> QED
      BY <3>1, <3>2, <3>3
  <2>7. Clash \/ \A i, j \in 1..k : Append(ns, new)[i] = Append(ns, new)[j] => i = j
    <3>1. ASSUME ~Clash, NEW i \in 1..k, NEW j \in 1..k,
                 Append(ns, new)[i] = Append(ns, new)[j]
          PROVE  i = j
      <4>1. (i = k \/ i \in 1..k - 1) /\ (j = k \/ j \in 1..k - 1)
        OBVIOUS
      <4> QED
        BY <1>3, <2>3, <2>5, <3>1, <4>1
    <3> QED
      BY <3>1
  <2> DEFINE next == [names |-> Append(ns, new), count |-> c + 1]
  <2>8. NamedNext(made, names[k]) = next
    BY <1>4, <1>5, <1>7 DEF new
  <2>9. /\ next.names = Append(ns, new) /\ next.count = c + 1
        /\ next \in [names : Seq(Seq(Nat)), count : Nat]
    <3>1. c + 1 \in Nat
      BY <1>1
    <3>2. Append(ns, new) \in Seq(Seq(Nat))
      BY <2>5
    <3> QED
      BY <3>1, <3>2
  <2>10. (c + 1) - 1 = c /\ c + 1 <= k
    BY <1>1, <2>2
  <2> HIDE DEF next
  <2>11. k # 0 /\ k \in Nat
    OBVIOUS
  <2>12. NamedUpTo(names, k, next)
    <3>1. /\ next \in [names : Seq(Seq(Nat)), count : Nat] /\ Len(next.names) = k
          /\ next.count >= 1 /\ next.count <= (IF k = 0 THEN 1 ELSE k)
      BY <1>1, <2>5, <2>9, <2>10, <2>11
    <3>2. \A i \in 1..k : \/ next.names[i] = names[i]
                          \/ \E m \in 1..next.count - 1 : next.names[i] = Append(names[i], m)
      BY <2>6, <2>9, <2>10
    <3>3. Clash \/ \A i, j \in 1..k : next.names[i] = next.names[j] => i = j
      BY <2>7, <2>9
    <3>4. \A i \in 1..k : next.names[i] = names[i] \/ Clash \/ Twice(names, names[i])
      <4>1. \A i \in 1..k : i = k \/ i \in 1..k - 1
        OBVIOUS
      <4> QED
        BY <1>8, <2>5, <2>9, <2>13, <4>1
    <3> QED
      BY <3>1, <3>2, <3>3, <3>4 DEF NamedUpTo, Clash
  <2> QED
    BY <2>8, <2>12
<1> QED
  BY <1>6, <1>7

\* fetch_columns keeps the number of names, and makes them different unless one is
\* another, which comes twice, with a number.
LEMMA FetchedNames ==
  ASSUME NEW names \in Seq(Seq(Nat))
  PROVE  /\ Fetched(names) \in Seq(Seq(Nat)) /\ Len(Fetched(names)) = Len(names)
         /\ \/ Clashing(names)
            \/ \A i, j \in 1..Len(names) : Fetched(names)[i] = Fetched(names)[j] => i = j
<1> DEFINE n == Len(names)
           S == [names : Seq(Seq(Nat)), count : Nat]
           base == [names |-> <<>>, count |-> 1]
           F == [p \in (1..n) \X S |-> NamedNext(p[2], names[p[1]])]
           f == CHOOSE made : made = [k \in 0..n |->
                  IF k = 0 THEN base ELSE NamedNext(made[k - 1], names[k])]
<1>1. n \in Nat /\ base \in S
  OBVIOUS
<1>2. ASSUME NEW k \in 1..n, NEW made \in S PROVE NamedNext(made, names[k]) \in S
  <2>1. names[k] \in Seq(Nat) /\ made.names \in Seq(Seq(Nat)) /\ made.count \in Nat
    OBVIOUS
  <2>2. made = [names |-> made.names, count |-> made.count]
    OBVIOUS
  <2> DEFINE ns == made.names
             c == made.count
             name == names[k]
  <2>3. NamedNext(made, name) =
          IF Contains(ns, name)
          THEN [names |-> Append(ns, Append(name, c)), count |-> c + 1]
          ELSE [names |-> Append(ns, name), count |-> c]
    BY <2>2, NamedNextOf
  <2>4. ns \in Seq(Seq(Nat)) /\ c \in Nat /\ name \in Seq(Nat)
    BY <2>1
  <2> HIDE DEF ns, c, name
  <2>5. Append(name, c) \in Seq(Nat)
    BY <2>4
  <2>6. NamedNext(made, name) \in S
    BY <2>3, <2>4, <2>5
  <2> QED
    BY <2>6 DEF name
<1>3. F \in [(1..n) \X S -> S]
  BY <1>2
<1> HIDE DEF F, S, base, n
<1>4. PICK g : Recursive(g, n, S, base, F)
  BY <1>1, <1>3, Recursion
<1>5. \A k \in 1..n : g[k] = NamedNext(g[k - 1], names[k])
  <2> SUFFICES ASSUME NEW k \in 1..n PROVE g[k] = NamedNext(g[k - 1], names[k])
    OBVIOUS
  <2>1. k - 1 \in 0..n
    BY <1>1
  <2>2. <<k, g[k - 1]>> \in (1..n) \X S
    BY <1>4, <2>1 DEF Recursive
  <2> QED
    BY <1>4, <2>2 DEF F, Recursive
<1>6. g = [k \in 0..n |-> IF k = 0 THEN base ELSE NamedNext(g[k - 1], names[k])]
  <2>1. \A k \in 0..n : k = 0 \/ k \in 1..n
    BY <1>1
  <2>2. \A k \in 0..n : g[k] = IF k = 0 THEN base ELSE NamedNext(g[k - 1], names[k])
    BY <1>1, <1>4, <1>5, <2>1 DEF Recursive
  <2> QED
    BY <1>4, <2>2 DEF Recursive
<1>7. f = [k \in 0..n |-> IF k = 0 THEN base ELSE NamedNext(f[k - 1], names[k])]
  BY <1>6
<1>8. Fetched(names) = f[n].names
  BY DEF Fetched, base, n
<1> HIDE DEF f
<1> DEFINE T == {k \in 0..n : NamedUpTo(names, k, f[k])}
<1>9. 0 \in T
  BY <1>1, <1>7 DEF NamedUpTo, base, S
<1>10. ASSUME NEW k \in 1..n, k - 1 \in T PROVE k \in T
  <2>1. f[k] = NamedNext(f[k - 1], names[k])
    BY <1>1, <1>7
  <2> QED
    BY <1>10, <2>1, NamesStayApart DEF n
<1> HIDE DEF T
<1>11. n \in T
  <2>1. n \in Nat /\ n \in 0..n
    BY <1>1
  <2> QED
    BY <1>9, <1>10, <2>1, Induction
<1>12. NamedUpTo(names, n, f[n])
  BY <1>11 DEF T
<1> QED
  BY <1>8, <1>12 DEF NamedUpTo, n

\* The columns that are selected among the first k of cs.
KeptUpTo(S, cs, selected, k, kept) ==
  /\ kept \in Seq(S)
  /\ \A i \in 1..Len(kept) : \E j \in 1..k : kept[i] = cs[j] /\ cs[j].name \in selected
  /\ \A j \in 1..k : cs[j].name \in selected => \E i \in 1..Len(kept) : kept[i] = cs[j]
  /\ (\A i, j \in 1..Len(cs) : cs[i].name = cs[j].name => i = j) =>
       \A i, j \in 1..Len(kept) : kept[i].name = kept[j].name => i = j

LEMMA KeptNext ==
  ASSUME NEW S, NEW cs \in Seq(S), NEW selected, NEW k \in 1..Len(cs), NEW kept,
         KeptUpTo(S, cs, selected, k - 1, kept)
  PROVE  KeptUpTo(S, cs, selected, k,
           IF cs[k].name \in selected THEN Append(kept, cs[k]) ELSE kept)
<1>1. /\ kept \in Seq(S) /\ cs[k] \in S
      /\ \A i \in 1..Len(kept) : \E j \in 1..k - 1 : kept[i] = cs[j] /\ cs[j].name \in selected
      /\ \A j \in 1..k - 1 : cs[j].name \in selected => \E i \in 1..Len(kept) : kept[i] = cs[j]
      /\ (\A i, j \in 1..Len(cs) : cs[i].name = cs[j].name => i = j) =>
           \A i, j \in 1..Len(kept) : kept[i].name = kept[j].name => i = j
  <2>1. cs[k] \in S
    OBVIOUS
  <2> QED
    BY <2>1, Zenon DEF KeptUpTo
<1>2. 1..k - 1 \subseteq 1..k /\ k \in 1..k /\ \A j \in 1..k : j = k \/ j \in 1..k - 1
  OBVIOUS
<1>3. CASE cs[k].name \notin selected
  BY <1>1, <1>2, <1>3 DEF KeptUpTo
<1>4. CASE cs[k].name \in selected
  <2> DEFINE new == Append(kept, cs[k])
  <2>1. /\ new \in Seq(S) /\ Len(new) = Len(kept) + 1 /\ Len(kept) \in Nat
        /\ new[Len(new)] = cs[k]
        /\ \A i \in 1..Len(kept) : new[i] = kept[i]
    BY <1>1
  <2>2. 1..Len(kept) \subseteq 1..Len(new) /\ \A i \in 1..Len(new) : i = Len(new) \/ i \in 1..Len(kept)
    BY <2>1
  <2> HIDE DEF new
  <2>3. \A i \in 1..Len(new) : \E j \in 1..k : new[i] = cs[j] /\ cs[j].name \in selected
    <3>1. ASSUME NEW i \in 1..Len(kept)
          PROVE  \E j \in 1..k : new[i] = cs[j] /\ cs[j].name \in selected
      <4>1. PICK j \in 1..k - 1 : kept[i] = cs[j] /\ cs[j].name \in selected
        BY <1>1
      <4> QED
        BY <1>2, <2>1, <4>1
    <3>2. \E j \in 1..k : new[Len(new)] = cs[j] /\ cs[j].name \in selected
      BY <1>2, <1>4, <2>1
    <3> QED
      BY <2>2, <3>1, <3>2
  <2>4. \A j \in 1..k : cs[j].name \in selected => \E i \in 1..Len(new) : new[i] = cs[j]
    <3>1. Len(new) \in 1..Len(new)
      BY <2>1
    <3> QED
      BY <1>1, <1>2, <2>1, <2>2, <3>1
  <2>5. ASSUME \A i, j \in 1..Len(cs) : cs[i].name = cs[j].name => i = j,
               NEW i \in 1..Len(new), NEW j \in 1..Len(new), new[i].name = new[j].name
        PROVE  i = j
    <3>1. \A l \in 1..Len(kept) : kept[l].name # cs[k].name
      <4> SUFFICES ASSUME NEW l \in 1..Len(kept), kept[l].name = cs[k].name PROVE FALSE
        OBVIOUS
      <4>1. PICK m \in 1..k - 1 : kept[l] = cs[m]
        BY <1>1
      <4>2. m \in 1..Len(cs) /\ m # k
        OBVIOUS
      <4> QED
        BY <2>5, <4>1, <4>2
    <3> QED
      BY <1>1, <2>1, <2>2, <2>5, <3>1
  <2> QED
    BY <1>4, <2>1, <2>3, <2>4, <2>5 DEF KeptUpTo, new
<1> QED
  BY <1>3, <1>4

\* The comprehension of handle_select_and_ordering has the columns that are
\* selected, each once if it was there once.
LEMMA KeptColumns ==
  ASSUME NEW S, NEW cs \in Seq(S), NEW selected
  PROVE  KeptUpTo(S, cs, selected, Len(cs), Kept(cs, selected))
<1> DEFINE n == Len(cs)
           F == [p \in (1..n) \X Seq(S) |->
                  IF cs[p[1]].name \in selected THEN Append(p[2], cs[p[1]]) ELSE p[2]]
           f == CHOOSE kept : kept = [k \in 0..n |->
                  IF k = 0 THEN <<>>
                  ELSE IF cs[k].name \in selected THEN Append(kept[k - 1], cs[k]) ELSE kept[k - 1]]
<1>1. n \in Nat /\ <<>> \in Seq(S)
  OBVIOUS
<1>2. F \in [(1..n) \X Seq(S) -> Seq(S)]
  OBVIOUS
<1> HIDE DEF F, n
<1>3. PICK g : Recursive(g, n, Seq(S), <<>>, F)
  BY <1>1, <1>2, Recursion
<1>4. \A k \in 1..n : g[k] = IF cs[k].name \in selected THEN Append(g[k - 1], cs[k]) ELSE g[k - 1]
  <2> SUFFICES ASSUME NEW k \in 1..n
               PROVE  g[k] = IF cs[k].name \in selected THEN Append(g[k - 1], cs[k]) ELSE g[k - 1]
    OBVIOUS
  <2>1. k - 1 \in 0..n
    BY <1>1
  <2>2. <<k, g[k - 1]>> \in (1..n) \X Seq(S)
    BY <1>3, <2>1 DEF Recursive
  <2> QED
    BY <1>3, <2>2 DEF F, Recursive
<1>5. g = [k \in 0..n |->
             IF k = 0 THEN <<>>
             ELSE IF cs[k].name \in selected THEN Append(g[k - 1], cs[k]) ELSE g[k - 1]]
  <2>1. \A k \in 0..n : k = 0 \/ k \in 1..n
    BY <1>1
  <2>2. \A k \in 0..n : g[k] =
          IF k = 0 THEN <<>>
          ELSE IF cs[k].name \in selected THEN Append(g[k - 1], cs[k]) ELSE g[k - 1]
    BY <1>1, <1>3, <1>4, <2>1 DEF Recursive
  <2> QED
    BY <1>3, <2>2 DEF Recursive
<1>6. f = [k \in 0..n |->
             IF k = 0 THEN <<>>
             ELSE IF cs[k].name \in selected THEN Append(f[k - 1], cs[k]) ELSE f[k - 1]]
  BY <1>5
<1>7. Kept(cs, selected) = f[n]
  BY DEF Kept, n
<1> HIDE DEF f
<1> DEFINE T == {k \in 0..n : KeptUpTo(S, cs, selected, k, f[k])}
<1>8. 0 \in T
  BY <1>1, <1>6 DEF KeptUpTo
<1>9. ASSUME NEW k \in 1..n, k - 1 \in T PROVE k \in T
  <2>1. f[k] = IF cs[k].name \in selected THEN Append(f[k - 1], cs[k]) ELSE f[k - 1]
    <3>1. k \in 0..n /\ k # 0
      BY <1>1
    <3> QED
      BY <1>6, <3>1
  <2>2. k \in 1..Len(cs) /\ k \in 0..n
    BY <1>1 DEF n
  <2> QED
    BY <1>9, <2>1, <2>2, KeptNext
<1> HIDE DEF T
<1>10. n \in T
  <2>1. n \in 0..n
    BY <1>1
  <2> QED
    BY <1>1, <1>8, <1>9, <2>1, Induction
<1> QED
  BY <1>7, <1>10 DEF T, n

-----------------------------------------------------------------------------
(* Columns: columns and rows                                               *)

ColumnRows == [name : Seq(Nat), type : Types \cup {"string"}]
Values == Types \cup {"string", "integer"}
Lines == UNION {[S -> Values] : S \in SUBSET Seq(Nat)}

Apart(cs) == \A i, j \in DOMAIN cs : cs[i].name = cs[j].name => i = j

ColumnNamesOf == [i \in DOMAIN columns |-> columns[i].name]

\* What ColumnsDescribeRows says of one value, unless it is a document's.
Suited(r, c) == c.name \in DOMAIN r =>
  \/ Fits(r[c.name], c.type)
  \/ source = "objects" /\ c.type \in {"datetime", "boolean"} /\ r[c.name] = "string"
  \/ source = "sheet" /\ Twice(ColumnNamesOf, c.name)

\* A column of documents has the type of one of its values.
Founded(c) == \E i \in DOMAIN rows : c.name \in DOMAIN rows[i] /\ rows[i][c.name] = c.type

WellTyped(c) == IF source = "documents" THEN Founded(c) ELSE \A i \in DOMAIN rows : Suited(rows[i], c)

Describing ==
  /\ NamedTwice \/ Apart(columns)
  /\ \/ source = "issues" /\ twice
     \/ fields /\ stage = "done"
     \/ \A i \in DOMAIN rows : DOMAIN rows[i] \subseteq NamesOf(columns)
  /\ \A j \in DOMAIN columns : WellTyped(columns[j])

\* The inductive invariant: until the columns get their types, they are of
\* strings, which every value fits, unless they are of documents.
ColumnsInv ==
  /\ ColumnsTypeOK
  /\ columns \in Seq(ColumnRows) /\ rows \in Seq(Lines)
  /\ IF source \in WithHeader THEN header \in Seq(Names) /\ Len(header) <= MaxColumns
     ELSE header = <<>>
  /\ stage = "header" => columns = <<>> /\ rows = <<>>
  /\ stage = "extra" => source = "objects"
  /\ twice => source = "issues" \/ (source = "objects" /\ stage = "done")
  /\ fields => source = "documents"
  /\ stage \in {"header", "rows"} =>
       /\ \A i \in DOMAIN rows : \A name \in DOMAIN rows[i] : rows[i][name] \in Types \cup {"string"}
       /\ source # "documents" => \A i \in DOMAIN columns : columns[i].type = "string"
  /\ Describing

LEMMA DescribingSuffices == ColumnsInv => ColumnsDescribeRows
<1> SUFFICES ASSUME ColumnsInv PROVE ColumnsDescribeRows
  OBVIOUS
<1>1. Apart(columns) => IsInjective([i \in DOMAIN columns |-> columns[i].name])
  BY DEF Apart, IsInjective
<1>2. ASSUME NEW i \in DOMAIN rows, NEW j \in DOMAIN columns, columns[j].name \in DOMAIN rows[i],
             source = "documents", ~Fits(rows[i][columns[j].name], columns[j].type)
      PROVE  \E q \in ToSet(rows) : columns[j].name \in DOMAIN q
               /\ q[columns[j].name] # rows[i][columns[j].name]
  <2>1. PICK k \in DOMAIN rows : /\ columns[j].name \in DOMAIN rows[k]
                                 /\ rows[k][columns[j].name] = columns[j].type
    BY <1>2 DEF ColumnsInv, Describing, WellTyped, Founded
  <2> QED
    BY <1>2, <2>1 DEF Fits, ToSet
<1>3. ASSUME NEW i \in DOMAIN rows, NEW j \in DOMAIN columns, source # "documents"
      PROVE  Suited(rows[i], columns[j])
  BY <1>3 DEF ColumnsInv, Describing, WellTyped
<1> QED
  <2> SUFFICES ASSUME stage = "done" PROVE ColumnsDescribeRows
    BY DEF ColumnsDescribeRows
  <2>1. NamedTwice \/ IsInjective([i \in DOMAIN columns |-> columns[i].name])
    BY <1>1 DEF ColumnsInv, Describing
  <2>2. \A r \in ToSet(rows) : (source = "issues" /\ twice) \/ fields \/ DOMAIN r \subseteq NamesOf(columns)
    BY DEF ColumnsInv, Describing, ToSet
  <2>3. ASSUME NEW r \in ToSet(rows), NEW c \in ToSet(columns), c.name \in DOMAIN r
        PROVE  \/ Fits(r[c.name], c.type)
               \/ source = "documents" /\ \E q \in ToSet(rows) :
                    c.name \in DOMAIN q /\ q[c.name] # r[c.name]
               \/ source = "objects" /\ c.type \in {"datetime", "boolean"} /\ r[c.name] = "string"
               \/ source = "sheet" /\ Twice([i \in DOMAIN columns |-> columns[i].name], c.name)
    <3>1. PICK i \in DOMAIN rows, j \in DOMAIN columns : r = rows[i] /\ c = columns[j]
      BY DEF ToSet
    <3>2. CASE source = "documents"
      BY <1>2, <2>3, <3>1, <3>2
    <3>3. CASE source # "documents"
      BY <1>3, <2>3, <3>1, <3>3 DEF Suited, ColumnNamesOf
    <3> QED
      BY <3>2, <3>3
  <2> QED
    BY <2>1, <2>2, <2>3 DEF ColumnsDescribeRows

\* Lines and columns.
LEMMA ColumnShape ==
  ASSUME NEW cs \in Seq(ColumnRows), NEW i \in DOMAIN cs
  PROVE  /\ cs[i] \in ColumnRows
         /\ cs[i].name \in Seq(Nat) /\ cs[i].type \in Types \cup {"string"}
         /\ cs[i] = Column(cs[i].name, cs[i].type)
<1>1. cs[i] \in ColumnRows
  OBVIOUS
<1> QED
  BY <1>1 DEF ColumnRows, Column

LEMMA LineShape ==
  /\ \A r \in Lines : DOMAIN r \subseteq Seq(Nat) /\ \A name \in DOMAIN r : r[name] \in Values
  /\ \A S \in SUBSET Seq(Nat) : \A r \in [S -> Values] : r \in Lines
BY DEF Lines

\* The title of a header is names, different ones unless NamedTwice says so.
LEMMA TitleNames ==
  ASSUME ColumnsInv
  PROVE  /\ Title \in Seq(Seq(Nat))
         /\ NamedTwice \/ IsInjective(Title)
         /\ source \notin WithHeader => IsInjective(Title)
<1>1. header \in Seq(Seq(Nat)) /\ Len(header) \in Nat /\ DOMAIN header = 1..Len(header)
  <2>1. CASE source \in WithHeader
    <3>1. header \in Seq(Names)
      BY <2>1 DEF ColumnsInv
    <3>2. Len(header) \in Nat /\ DOMAIN header = 1..Len(header) /\ header \in [1..Len(header) -> Names]
      BY <3>1
    <3>3. header \in [1..Len(header) -> Seq(Nat)]
      BY <3>2, ColumnsAssumption
    <3> QED
      BY <3>2, <3>3
  <2>2. CASE source \notin WithHeader
    <3>1. header = <<>>
      BY <2>2 DEF ColumnsInv
    <3> QED
      BY <3>1
  <2> QED
    BY <2>1, <2>2
<1>2. CASE source = "cursor"
  <2>1. Title = Fetched(header)
    BY <1>2 DEF Title
  <2>2. Len(header) <= MaxColumns
    BY <1>2 DEF ColumnsInv, WithHeader
  <2>3. Len(header) \in 0..MaxColumns /\ 1..Len(header) \subseteq 1..MaxColumns
    BY <1>1, <2>2, ColumnsAssumption
  <2>4. DOMAIN Title = 1..Len(header)
    BY <1>1, <2>1, FetchedNames
  <2>5. NamedTwice \/ \A i, j \in DOMAIN Title : Title[i] = Title[j] => i = j
    <3>1. \/ Clashing(header)
          \/ \A i, j \in 1..Len(header) : Title[i] = Title[j] => i = j
      BY <1>1, <2>1, FetchedNames
    <3>2. ASSUME NEW i \in 1..Len(header), NEW j \in 1..Len(header), NEW m \in 1..Len(header),
                 header[i] = Append(header[j], m), Twice(header, header[j])
          PROVE  NamedTwice
      <4>1. i \in DOMAIN header /\ j \in DOMAIN header /\ m \in 1..MaxColumns
        BY <1>1, <2>3
      <4> QED
        BY <1>2, <3>2, <4>1 DEF NamedTwice
    <3> QED
      BY <2>4, <3>1, <3>2 DEF Clashing
  <2> QED
    BY <1>1, <1>2, <2>1, <2>5, FetchedNames DEF IsInjective, WithHeader
<1>3. CASE source = "sheet"
  <2>1. Title = [i \in 1..Len(header) |-> IF header[i] = <<>> THEN <<99, i - 1>> ELSE header[i]]
    BY <1>1, <1>3 DEF Title, Titled
  <2>2. \A i \in 1..Len(header) : Title[i] \in Seq(Nat)
    <3> SUFFICES ASSUME NEW i \in 1..Len(header) PROVE Title[i] \in Seq(Nat)
      OBVIOUS
    <3>1. <<99, i - 1>> \in Seq(Nat)
      BY <1>1
    <3> QED
      BY <1>1, <2>1, <3>1
  <2> QED
    BY <1>1, <1>3, <2>1, <2>2 DEF NamedTwice, WithHeader
<1>4. CASE source \in {"csv", "hive"}
  BY <1>1, <1>4 DEF NamedTwice, WithHeader, Title
<1>5. CASE source \notin WithHeader
  <2>1. Title = <<>>
    BY <1>5 DEF Title, ColumnsInv, WithHeader
  <2>2. DOMAIN Title = {}
    BY <2>1
  <2> QED
    BY <1>1, <1>5, <2>1, <2>2 DEF IsInjective
<1> QED
  BY <1>2, <1>3, <1>4, <1>5 DEF WithHeader

\* A set of types gets one which every value of it fits.
LEMMA TypeOfSet ==
  ASSUME NEW T, NEW S \in SUBSET T, IsFiniteSet(S)
  PROVE  /\ TypeFromSet(S) \in T \cup {"string"}
         /\ \A value \in S : Fits(value, TypeFromSet(S))
<1>1. CASE Cardinality(S) = 1
  <2>1. PICK x : S = {x}
    BY <1>1, FS_Singleton
  <2> QED
    BY <1>1, <2>1 DEF TypeFromSet, Fits
<1>2. CASE Cardinality(S) # 1
  BY <1>2 DEF TypeFromSet, Fits
<1> QED
  BY <1>1, <1>2

\* The types that a column's values have are finitely many.
LEMMA ValuesAreFinite ==
  ASSUME NEW J, IsFiniteSet(J), NEW f \in [J -> Values]
  PROVE  IsFiniteSet({f[i] : i \in J})
<1>1. f \in Surjection(J, {f[i] : i \in J})
  BY DEF Surjection
<1> QED
  BY <1>1, FS_Surjection

LEMMA TypesInColumn ==
  ASSUME ColumnsInv, NEW name
  PROVE  /\ IsFiniteSet(TypesIn(name)) /\ TypesIn(name) \subseteq Values
         /\ stage = "rows" => TypesIn(name) \subseteq Types \cup {"string"}
<1> DEFINE J == {j \in DOMAIN rows : name \in DOMAIN rows[j]}
           f == [i \in J |-> rows[i][name]]
<1>1. IsFiniteSet(J)
  <2>1. DOMAIN rows = 1..Len(rows) /\ Len(rows) \in Nat
    BY DEF ColumnsInv
  <2>2. IsFiniteSet(1..Len(rows))
    BY <2>1, FS_Interval
  <2> QED
    BY <2>1, <2>2, FS_Subset
<1>2. \A i \in J : rows[i][name] \in Values
  BY DEF ColumnsInv, ColumnsTypeOK, Values
<1>3. TypesIn(name) = {f[i] : i \in J}
  BY DEF TypesIn
<1>4. IsFiniteSet({f[i] : i \in J})
  <2>1. f \in [J -> Values]
    BY <1>2
  <2> HIDE DEF f, J
  <2> QED
    BY <1>1, <2>1, ValuesAreFinite
<1>5. stage = "rows" => \A i \in J : rows[i][name] \in Types \cup {"string"}
  BY DEF ColumnsInv
<1> QED
  BY <1>2, <1>3, <1>4, <1>5

LEMMA SameHeader ==
  ASSUME UNCHANGED <<source, header>>
  PROVE  /\ Title' = Title
         /\ NamedTwice /\ (twice => twice') => NamedTwice'
         /\ source # "sheet" \/ columns' = columns => \A r, c : Suited(r, c) => Suited(r, c)'
<1>1. Title' = Title
  BY DEF Title
<1>2. columns' = columns => ColumnNamesOf' = ColumnNamesOf
  BY DEF ColumnNamesOf
<1> QED
  BY <1>1, <1>2 DEF NamedTwice, Suited

LEMMA ReadHeaderKeepsInv ==
  ASSUME ColumnsInv, ReadHeader
  PROVE  ColumnsInv'
<1>1. /\ stage = "header" /\ stage' = "rows" /\ UNCHANGED <<source, fields, header, rows, added, twice>>
      /\ columns' = [i \in DOMAIN Title |-> Column(Title[i], "string")]
  BY DEF ReadHeader
<1>2. rows' = <<>> /\ DOMAIN rows' = {}
  BY <1>1 DEF ColumnsInv
<1>3. Title \in Seq(Seq(Nat)) /\ (NamedTwice \/ IsInjective(Title))
  BY TitleNames
<1>4. DOMAIN columns' = DOMAIN Title /\ \A i \in DOMAIN Title : columns'[i] = Column(Title[i], "string")
  BY <1>1
<1>5. columns' \in Seq(ColumnRows)
  <2>1. DOMAIN Title = 1..Len(Title) /\ Len(Title) \in Nat
    BY <1>3
  <2>2. \A i \in 1..Len(Title) : Column(Title[i], "string") \in ColumnRows
    BY <1>3 DEF Column, ColumnRows
  <2>3. columns' \in [1..Len(Title) -> ColumnRows]
    BY <1>1, <2>1, <2>2
  <2> QED
    BY <2>1, <2>3
<1>6. \A i \in DOMAIN columns' : columns'[i].type = "string" /\ columns'[i].name = Title[i]
  BY <1>4 DEF Column
<1>7. Describing'
  <2>1. NamedTwice' \/ Apart(columns')
    BY <1>1, <1>3, <1>4, <1>6, SameHeader DEF Apart, IsInjective
  <2>2. ASSUME NEW j \in DOMAIN columns' PROVE WellTyped(columns[j])'
    <3>1. source' # "documents"
      <4>1. source = "documents" => DOMAIN columns' = {}
        BY <1>1, <1>4 DEF Title, WithHeader, ColumnsInv
      <4> QED
        BY <1>1, <4>1
    <3> QED
      BY <1>2, <3>1 DEF WellTyped
  <2> QED
    BY <1>2, <2>1, <2>2 DEF Describing
<1>8. ColumnsTypeOK'
  BY <1>1, <1>2, <1>6 DEF ColumnsInv, ColumnsTypeOK
<1> QED
  BY <1>1, <1>2, <1>5, <1>6, <1>7, <1>8 DEF ColumnsInv

\* A stage that neither adds columns nor rows.
LEMMA QuietKeepsInv ==
  ASSUME ColumnsInv, NoAnswer \/ NextPageOfIssues
  PROVE  ColumnsInv'
<1>1. UNCHANGED <<source, fields, header, columns, rows, added>>
  BY DEF NoAnswer, NextPageOfIssues
<1>2. /\ stage' \in {"rows", "error"} /\ stage # "done" /\ twice' \in BOOLEAN
      /\ stage' = "rows" => stage = "rows"
      /\ twice' => source = "issues"
      /\ twice => twice'
  <2>1. stage # "done" /\ twice \in BOOLEAN /\ (twice => source = "issues")
    BY DEF NoAnswer, NextPageOfIssues, ColumnsInv, ColumnsTypeOK
  <2>2. CASE NoAnswer
    BY <2>1, <2>2 DEF NoAnswer
  <2>3. CASE NextPageOfIssues
    BY <2>1, <2>3 DEF NextPageOfIssues
  <2> QED
    BY <2>2, <2>3
<1>3. Describing'
  <2>1. \A c : WellTyped(c) => WellTyped(c)'
    BY <1>1, SameHeader DEF WellTyped, Founded
  <2>2. NamedTwice => NamedTwice'
    BY <1>1, <1>2, SameHeader
  <2>3. NamesOf(columns)' = NamesOf(columns) /\ Apart(columns)' = Apart(columns)
    BY <1>1
  <2>4. \A j \in DOMAIN columns' : WellTyped(columns[j])'
    BY <1>1, <2>1 DEF ColumnsInv, Describing
  <2> QED
    BY <1>1, <1>2, <2>2, <2>3, <2>4 DEF ColumnsInv, Describing
<1>4. ColumnsTypeOK'
  BY <1>1, <1>2 DEF ColumnsInv, ColumnsTypeOK
<1> QED
  BY <1>1, <1>2, <1>3, <1>4 DEF ColumnsInv

\* One more line, of which every value has a column that it fits, is described.
LEMMA LineAdded ==
  ASSUME ColumnsInv, NEW line \in Lines, rows' = Append(rows, line)
  PROVE  /\ rows' \in Seq(Lines) /\ DOMAIN rows' = DOMAIN rows \cup {Len(rows) + 1}
         /\ rows'[Len(rows) + 1] = line
         /\ \A i \in DOMAIN rows : rows'[i] = rows[i]
         /\ DOMAIN line \subseteq Seq(Nat) /\ \A name \in DOMAIN line : line[name] \in Values
BY LineShape DEF ColumnsInv

LEMMA ReadRowKeepsInv ==
  ASSUME ColumnsInv, ReadRow
  PROVE  ColumnsInv'
<1>1. PICK line \in [NamesOf(columns) -> IF source = "sheet" THEN Types ELSE {"string"}] :
        rows' = Append(rows, line)
  BY DEF ReadRow
<1>2. stage = "rows" /\ UNCHANGED <<source, fields, header, columns, stage, added, twice>>
  BY DEF ReadRow
<1>3. line \in Lines
  <2>1. NamesOf(columns) \in SUBSET Seq(Nat)
    <3>1. \A i \in DOMAIN columns : columns[i] \in ColumnRows
      BY DEF ColumnsInv
    <3> QED
      BY <3>1 DEF ColumnRows, NamesOf
  <2>2. line \in [NamesOf(columns) -> Values]
    BY <1>1 DEF Values
  <2> QED
    BY <2>1, <2>2, LineShape
<1>4. /\ rows' \in Seq(Lines) /\ DOMAIN rows' = DOMAIN rows \cup {Len(rows) + 1}
      /\ rows'[Len(rows) + 1] = line /\ \A i \in DOMAIN rows : rows'[i] = rows[i]
      /\ \A name \in DOMAIN line : line[name] \in Values
  BY <1>1, <1>3, LineAdded
<1>5. \A name \in DOMAIN line : line[name] \in Types \cup {"string"}
  BY <1>1
<1>6. source # "documents"
  BY DEF ReadRow, WithHeader
<1>7. Describing'
  <2>1. \A r, c : Suited(r, c) => Suited(r, c)'
    BY <1>2, SameHeader
  <2>2. NamedTwice => NamedTwice'
    BY <1>2, SameHeader
  <2>3. DOMAIN line = NamesOf(columns)
    BY <1>1
  <2>4. \A j \in DOMAIN columns : Suited(line, columns[j])'
    BY <1>2, <1>6 DEF ColumnsInv, Suited, Fits
  <2>5. ASSUME NEW j \in DOMAIN columns' PROVE WellTyped(columns[j])'
    <3>1. j \in DOMAIN columns /\ columns'[j] = columns[j]
      BY <1>2
    <3>2. \A i \in DOMAIN rows : Suited(rows[i], columns[j])
      BY <1>6, <3>1 DEF ColumnsInv, Describing, WellTyped
    <3> QED
      BY <1>2, <1>4, <1>6, <2>1, <2>4, <3>1, <3>2 DEF WellTyped
  <2> QED
    BY <1>2, <1>4, <2>2, <2>3, <2>5 DEF ColumnsInv, Describing, NamesOf, Apart
<1>8. ColumnsTypeOK'
  BY <1>2, <1>4 DEF ColumnsInv, ColumnsTypeOK, Values
<1> QED
  BY <1>2, <1>4, <1>5, <1>6, <1>7, <1>8 DEF ColumnsInv

\* SetToSeq gives a finite set in some order.
LEMMA InSomeOrder ==
  ASSUME NEW S, IsFiniteSet(S)
  PROVE  /\ SetToSeq(S) \in [1..Cardinality(S) -> S] /\ Cardinality(S) \in Nat
         /\ IsInjective(SetToSeq(S))
         /\ \A x \in S : \E i \in 1..Cardinality(S) : SetToSeq(S)[i] = x
<1>1. Cardinality(S) \in Nat /\ ExistsBijection(1..Cardinality(S), S)
  BY FS_CardinalityType
<1>2. \E f \in [1..Cardinality(S) -> S] : IsInjective(f)
  BY <1>1 DEF ExistsBijection, Bijection, Injection
<1>3. SetToSeq(S) \in [1..Cardinality(S) -> S] /\ IsInjective(SetToSeq(S))
  BY <1>2 DEF SetToSeq
<1>4. SetToSeq(S) \in Surjection(1..Cardinality(S), S)
  <2>1. IsFiniteSet(1..Cardinality(S)) /\ Cardinality(1..Cardinality(S)) = Cardinality(S)
    BY <1>1, FS_Interval
  <2>2. SetToSeq(S) \in Injection(1..Cardinality(S), S)
    BY <1>3 DEF Injection
  <2> QED
    BY <1>2, <2>1, <2>2, FS_Injection
<1> QED
  BY <1>1, <1>3, <1>4 DEF Surjection

\* The new names of a record come at the end, each once.
LEMMA ColumnsOfRecord ==
  ASSUME columns \in Seq(ColumnRows), NEW record \in Records
  PROVE  LET cs == WithColumnsOf(record)
         IN  /\ cs \in Seq(ColumnRows)
             /\ NamesOf(cs) = NamesOf(columns) \cup DOMAIN record
             /\ Apart(columns) => Apart(cs)
             /\ source # "documents" /\ (\A i \in DOMAIN columns : columns[i].type = "string")
                  => \A i \in DOMAIN cs : cs[i].type = "string"
             /\ source = "documents" => \A i \in DOMAIN cs :
                  \/ i \in DOMAIN columns /\ cs[i] = columns[i]
                  \/ cs[i].name \in DOMAIN record /\ cs[i].type = record[cs[i].name]
<1> DEFINE fresh == DOMAIN record \ NamesOf(columns)
           new == SetToSeq(fresh)
           n == Cardinality(fresh)
           more == [i \in DOMAIN new |->
                      Column(new[i], IF source = "documents" THEN record[new[i]] ELSE "string")]
           l == Len(columns)
           cs == columns \o more
<1>1. DOMAIN record \subseteq Names /\ \A name \in DOMAIN record : record[name] \in Types
  BY DEF Records, Keys
<1>2. IsFiniteSet(fresh)
  BY <1>1, ColumnsAssumption, FS_Subset
<1>3. /\ new \in [1..n -> fresh] /\ n \in Nat /\ IsInjective(new)
      /\ \A x \in fresh : \E i \in 1..n : new[i] = x
  BY <1>2, InSomeOrder
<1>4. WithColumnsOf(record) = cs
  BY DEF WithColumnsOf
<1> HIDE DEF new, n
<1>5. /\ DOMAIN more = 1..n
      /\ \A i \in 1..n : /\ more[i].name = new[i] /\ new[i] \in fresh
                         /\ more[i] \in ColumnRows
                         /\ source # "documents" => more[i].type = "string"
                         /\ source = "documents" => more[i].type = record[new[i]]
  <2>1. DOMAIN more = 1..n
    BY <1>3
  <2>2. ASSUME NEW i \in 1..n
        PROVE  /\ more[i].name = new[i] /\ new[i] \in fresh
               /\ more[i] \in ColumnRows
               /\ source # "documents" => more[i].type = "string"
               /\ source = "documents" => more[i].type = record[new[i]]
    <3>1. new[i] \in fresh /\ new[i] \in Seq(Nat) /\ record[new[i]] \in Types
      BY <1>1, <1>3, ColumnsAssumption
    <3>2. more[i] = Column(new[i], IF source = "documents" THEN record[new[i]] ELSE "string")
      BY <1>3
    <3> QED
      BY <3>1, <3>2 DEF Column, ColumnRows
  <2> QED
    BY <2>1, <2>2
<1>6. more \in Seq(ColumnRows) /\ Len(more) = n
  <2>1. more \in [1..n -> ColumnRows]
    BY <1>3, <1>5
  <2> HIDE DEF more
  <2> QED
    BY <1>3, <2>1
<1> HIDE DEF more
<1>7. /\ cs \in Seq(ColumnRows) /\ DOMAIN cs = 1..l + n
      /\ l \in Nat /\ DOMAIN columns = 1..l
      /\ \A i \in 1..l : cs[i] = columns[i]
      /\ \A i \in 1..n : cs[l + i] = more[i]
  <2>1. columns \in Seq(ColumnRows) /\ l \in Nat /\ DOMAIN columns = 1..l
    OBVIOUS
  <2>2. cs \in Seq(ColumnRows) /\ Len(cs) = l + n /\ DOMAIN cs = 1..Len(cs)
    BY <1>6, <2>1
  <2>3. \A i \in 1..l : cs[i] = columns[i]
    BY <1>6, <2>1
  <2>4. ASSUME NEW i \in 1..n PROVE cs[l + i] = more[i]
    BY <1>3, <1>6, <2>1
  <2> QED
    BY <2>1, <2>2, <2>3, <2>4
<1>8. \A i \in 1..l + n : i \in 1..l \/ (i - l \in 1..n /\ i = l + (i - l))
  BY <1>3, <1>7
<1>9. \A i \in 1..l + n : \/ i \in 1..l /\ cs[i] = columns[i]
                          \/ \E k \in 1..n : i = l + k /\ cs[i] = more[k]
  BY <1>7, <1>8
<1>10. 1..l \subseteq 1..l + n /\ \A k \in 1..n : l + k \in 1..l + n
  BY <1>3, <1>7
<1> HIDE DEF cs, l
<1>11. NamesOf(cs) = NamesOf(columns) \cup DOMAIN record
  <2>1. ASSUME NEW name \in NamesOf(cs) PROVE name \in NamesOf(columns) \cup DOMAIN record
    BY <1>5, <1>7, <1>9, <2>1 DEF NamesOf
  <2>2. ASSUME NEW name \in NamesOf(columns) PROVE name \in NamesOf(cs)
    <3>1. PICK i \in 1..l : columns[i].name = name
      BY <1>7, <2>2 DEF NamesOf
    <3> QED
      BY <1>7, <1>10, <3>1 DEF NamesOf
  <2>3. ASSUME NEW name \in fresh PROVE name \in NamesOf(cs)
    <3>1. PICK k \in 1..n : new[k] = name
      BY <1>3
    <3>2. l + k \in DOMAIN cs /\ cs[l + k].name = name
      BY <1>5, <1>7, <1>10, <3>1
    <3> QED
      BY <3>2 DEF NamesOf
  <2> QED
    BY <2>1, <2>2, <2>3
<1>12. ASSUME Apart(columns) PROVE Apart(cs)
  <2> SUFFICES ASSUME NEW i \in 1..l + n, NEW j \in 1..l + n, cs[i].name = cs[j].name PROVE i = j
    BY <1>7 DEF Apart
  <2>1. CASE i \in 1..l /\ j \in 1..l
    BY <1>7, <1>12, <2>1 DEF Apart
  <2>2. ASSUME NEW a \in 1..l, NEW k \in 1..n, cs[a].name = cs[l + k].name PROVE FALSE
    <3>1. cs[a] = columns[a] /\ cs[l + k] = more[k] /\ a \in DOMAIN columns
      BY <1>7
    <3>2. more[k].name = new[k] /\ new[k] \notin NamesOf(columns)
      BY <1>5
    <3>3. columns[a].name \in NamesOf(columns)
      BY <3>1 DEF NamesOf
    <3> QED
      BY <2>2, <3>1, <3>2, <3>3
  <2>3. ASSUME NEW a \in 1..n, NEW k \in 1..n, i = l + a, j = l + k PROVE i = j
    <3>1. new[a] = new[k]
      BY <1>5, <1>7, <2>3
    <3>2. DOMAIN new = 1..n
      BY <1>3
    <3> QED
      BY <1>3, <2>3, <3>1, <3>2 DEF IsInjective
  <2> QED
    BY <1>9, <2>1, <2>2, <2>3
<1>13. ASSUME source # "documents", \A i \in DOMAIN columns : columns[i].type = "string",
              NEW i \in DOMAIN cs
       PROVE  cs[i].type = "string"
  BY <1>5, <1>7, <1>9, <1>13
<1>14. ASSUME source = "documents", NEW i \in DOMAIN cs
       PROVE  \/ i \in DOMAIN columns /\ cs[i] = columns[i]
              \/ cs[i].name \in DOMAIN record /\ cs[i].type = record[cs[i].name]
  BY <1>5, <1>7, <1>9, <1>14
<1> QED
  BY <1>4, <1>7, <1>11, <1>12, <1>13, <1>14

LEMMA ReadRecordKeepsInv ==
  ASSUME ColumnsInv, ReadRecord
  PROVE  ColumnsInv'
<1>1. PICK record \in Records :
        rows' = Append(rows, record) /\ columns' = IF twice THEN columns ELSE WithColumnsOf(record)
  BY DEF ReadRecord
<1>2. /\ stage = "rows" /\ source \notin WithHeader
      /\ UNCHANGED <<source, fields, header, stage, added, twice>>
  BY DEF ReadRecord
<1>3. DOMAIN record \subseteq Seq(Nat) /\ \A name \in DOMAIN record : record[name] \in Types
  BY ColumnsAssumption DEF Records, Keys
<1>4. record \in Lines
  <2>1. record \in [DOMAIN record -> Values]
    BY <1>3 DEF Records, Values
  <2> QED
    BY <1>3, <2>1, LineShape
<1>5. /\ rows' \in Seq(Lines) /\ DOMAIN rows' = DOMAIN rows \cup {Len(rows) + 1}
      /\ rows'[Len(rows) + 1] = record /\ \A i \in DOMAIN rows : rows'[i] = rows[i]
  BY <1>1, <1>4, LineAdded
<1>6. /\ columns' \in Seq(ColumnRows)
      /\ Apart(columns) => Apart(columns')
      /\ source # "documents" => \A i \in DOMAIN columns' : columns'[i].type = "string"
      /\ NamesOf(columns) \subseteq NamesOf(columns')
      /\ ~twice => DOMAIN record \subseteq NamesOf(columns')
      /\ source = "documents" => \A i \in DOMAIN columns' :
           \/ i \in DOMAIN columns /\ columns'[i] = columns[i]
           \/ columns'[i].name \in DOMAIN record /\ columns'[i].type = record[columns'[i].name]
  <2>1. columns \in Seq(ColumnRows)
    BY DEF ColumnsInv
  <2>2. source # "documents" => \A i \in DOMAIN columns : columns[i].type = "string"
    BY <1>2 DEF ColumnsInv
  <2>3. CASE twice
    BY <1>1, <2>1, <2>2, <2>3
  <2>4. CASE ~twice
    BY <1>1, <2>1, <2>2, <2>4, ColumnsOfRecord
  <2> QED
    BY <2>3, <2>4
<1>7. Describing'
  <2>1. NamedTwice' \/ Apart(columns')
    BY <1>2, <1>6, SameHeader DEF ColumnsInv, Describing
  <2>2. \/ (source = "issues" /\ twice)'
        \/ (fields /\ stage = "done")'
        \/ \A i \in DOMAIN rows' : DOMAIN rows'[i] \subseteq NamesOf(columns')
    <3>1. twice => source = "issues"
      BY <1>2 DEF ColumnsInv
    <3> QED
      BY <1>2, <1>5, <1>6, <3>1 DEF ColumnsInv, Describing
  <2>3. ASSUME source # "documents", NEW j \in DOMAIN columns' PROVE WellTyped(columns[j])'
    <3>1. \A r : Suited(r, columns[j])'
      BY <1>2, <1>6, <2>3 DEF Suited, Fits
    <3> QED
      BY <1>2, <2>3, <3>1 DEF WellTyped
  <2>4. ASSUME source = "documents", NEW j \in DOMAIN columns' PROVE WellTyped(columns[j])'
    <3>1. CASE j \in DOMAIN columns /\ columns'[j] = columns[j]
      <4>1. Founded(columns[j])
        BY <2>4, <3>1 DEF ColumnsInv, Describing, WellTyped
      <4> QED
        BY <1>2, <1>5, <2>4, <3>1, <4>1 DEF WellTyped, Founded
    <3>2. CASE /\ columns'[j].name \in DOMAIN record
               /\ columns'[j].type = record[columns'[j].name]
      BY <1>2, <1>5, <2>4, <3>2 DEF WellTyped, Founded
    <3> QED
      BY <1>6, <2>4, <3>1, <3>2
  <2> QED
    BY <2>1, <2>2, <2>3, <2>4 DEF Describing
<1>8. \A i \in DOMAIN columns' : columns'[i].type \in Types \cup {"string"}
  BY <1>6, ColumnShape
<1>9. ColumnsTypeOK'
  BY <1>2, <1>3, <1>5, <1>8 DEF ColumnsInv, ColumnsTypeOK
<1> QED
  BY <1>2, <1>3, <1>5, <1>6, <1>7, <1>9 DEF ColumnsInv

\* The columns of a sheet and of objects have the types of their values.
LEMMA TypeColumnsKeepsNames ==
  ASSUME ColumnsInv, TypeColumns, source # "documents"
  PROVE  /\ columns' \in Seq(ColumnRows) /\ DOMAIN columns' = DOMAIN columns
         /\ \A i \in DOMAIN columns : columns'[i].name = columns[i].name
         /\ NamesOf(columns)' = NamesOf(columns)
         /\ NamedTwice' \/ Apart(columns')
<1>1. stage = "rows" /\ UNCHANGED <<source, fields, header, added, twice>>
  BY DEF TypeColumns
<1>2. DOMAIN columns = 1..Len(columns) /\ Len(columns) \in Nat
  BY DEF ColumnsInv
<1>3. /\ columns' \in [DOMAIN columns -> ColumnRows]
      /\ \A i \in DOMAIN columns : columns'[i].name = columns[i].name
  <2>1. \A i \in DOMAIN columns : columns[i] \in ColumnRows /\ columns[i].name \in Seq(Nat)
    BY ColumnShape DEF ColumnsInv
  <2>2. CASE source = "sheet"
    <3>1. PICK type \in [DOMAIN columns -> Types \cup {"string"}] :
            columns' = [i \in DOMAIN columns |-> Column(columns[i].name, type[i])]
      BY <2>2 DEF TypeColumns, TypedSheet
    <3> QED
      BY <2>1, <3>1 DEF Column, ColumnRows
  <2>3. CASE source = "objects"
    <3>1. columns' = [i \in DOMAIN columns |->
                        Column(columns[i].name, TypeFromSet(TypesIn(columns[i].name)))]
      BY <2>3 DEF TypeColumns, Typed
    <3>2. \A i \in DOMAIN columns : TypeFromSet(TypesIn(columns[i].name)) \in Types \cup {"string"}
      BY <1>1, TypesInColumn, TypeOfSet
    <3> QED
      BY <2>1, <3>1, <3>2 DEF Column, ColumnRows
  <2>4. CASE source \notin {"sheet", "objects", "documents"}
    BY <1>2, <2>1, <2>4 DEF TypeColumns, ColumnsInv
  <2> QED
    BY <2>2, <2>3, <2>4
<1>4. DOMAIN columns' = DOMAIN columns /\ columns' \in Seq(ColumnRows)
  BY <1>2, <1>3
<1>5. NamedTwice' \/ Apart(columns')
  BY <1>1, <1>3, <1>4, SameHeader DEF ColumnsInv, Describing, Apart
<1> QED
  BY <1>3, <1>4, <1>5 DEF NamesOf

\* A value that is missing gets the default of its column, which is a
\* string where the types are of dates and booleans.
LEMMA DefaultFits ==
  ASSUME NEW type \in Types \cup {"string"}
  PROVE  \/ Fits(DefaultType(type), type)
         \/ type \in {"datetime", "boolean"} /\ DefaultType(type) = "string"
BY ColumnsAssumption DEF DefaultType, Fits

LEMMA TypeObjectsKeepsInv ==
  ASSUME ColumnsInv, TypeColumns, source = "objects"
  PROVE  ColumnsInv'
<1>1. stage = "rows" /\ stage' = "extra" /\ UNCHANGED <<source, fields, header, added, twice>>
  BY DEF TypeColumns
<1>2. /\ columns' \in Seq(ColumnRows) /\ DOMAIN columns' = DOMAIN columns
      /\ \A i \in DOMAIN columns : columns'[i].name = columns[i].name
      /\ NamesOf(columns)' = NamesOf(columns)
      /\ NamedTwice' \/ Apart(columns')
  BY TypeColumnsKeepsNames
<1>3. \A i \in DOMAIN columns : columns'[i].type = TypeFromSet(TypesIn(columns[i].name))
  BY DEF TypeColumns, Typed, Column
<1>4. /\ rows' = [i \in DOMAIN rows |->
                   [name \in NamesOf(columns) |->
                     IF name \in DOMAIN rows[i] THEN rows[i][name]
                     ELSE DefaultType(TypeFromSet(TypesIn(name)))]]
      /\ DOMAIN rows' = DOMAIN rows
  BY DEF TypeColumns
<1>5. ~twice
  BY <1>1 DEF ColumnsInv
<1>6. ASSUME NEW name
      PROVE  /\ TypeFromSet(TypesIn(name)) \in Types \cup {"string"}
             /\ \A value \in TypesIn(name) : Fits(value, TypeFromSet(TypesIn(name)))
  BY <1>1, TypesInColumn, TypeOfSet
<1>7. ASSUME NEW i \in DOMAIN rows
      PROVE  /\ DOMAIN rows'[i] = NamesOf(columns)
             /\ \A name \in NamesOf(columns) :
                  /\ rows'[i][name] \in Values
                  /\ \/ Fits(rows'[i][name], TypeFromSet(TypesIn(name)))
                     \/ /\ TypeFromSet(TypesIn(name)) \in {"datetime", "boolean"}
                        /\ rows'[i][name] = "string"
             /\ rows'[i] \in Lines
  <2>1. rows'[i] = [name \in NamesOf(columns) |->
                     IF name \in DOMAIN rows[i] THEN rows[i][name]
                     ELSE DefaultType(TypeFromSet(TypesIn(name)))]
    BY <1>4
  <2>2. ASSUME NEW name \in NamesOf(columns)
        PROVE  /\ rows'[i][name] \in Values
               /\ \/ Fits(rows'[i][name], TypeFromSet(TypesIn(name)))
                  \/ /\ TypeFromSet(TypesIn(name)) \in {"datetime", "boolean"}
                     /\ rows'[i][name] = "string"
    <3>1. CASE name \in DOMAIN rows[i]
      <4>1. rows'[i][name] = rows[i][name] /\ rows[i][name] \in TypesIn(name)
        BY <2>1, <3>1 DEF TypesIn
      <4>2. rows[i][name] \in Values
        BY <3>1 DEF ColumnsInv, ColumnsTypeOK, Values
      <4> QED
        BY <1>6, <4>1, <4>2
    <3>2. CASE name \notin DOMAIN rows[i]
      <4>1. rows'[i][name] = DefaultType(TypeFromSet(TypesIn(name)))
        BY <2>1, <3>2
      <4>2. DefaultType(TypeFromSet(TypesIn(name))) \in Values
        BY DEF DefaultType, Values
      <4> QED
        BY <1>6, <4>1, <4>2, DefaultFits
    <3> QED
      BY <3>1, <3>2
  <2>3. NamesOf(columns) \in SUBSET Seq(Nat)
    BY ColumnShape DEF ColumnsInv, NamesOf
  <2>4. rows'[i] \in [NamesOf(columns) -> Values]
    BY <2>1, <2>2
  <2> QED
    BY <2>1, <2>2, <2>3, <2>4, LineShape
<1>8. rows' \in Seq(Lines)
  <2>1. DOMAIN rows = 1..Len(rows) /\ Len(rows) \in Nat
    BY DEF ColumnsInv
  <2>2. rows' \in [1..Len(rows) -> Lines]
    BY <1>4, <1>7, <2>1
  <2> QED
    BY <2>1, <2>2
<1>9. Describing'
  <2>1. \A i \in DOMAIN rows' : DOMAIN rows'[i] \subseteq NamesOf(columns')
    BY <1>2, <1>4, <1>7
  <2>2. ASSUME NEW i \in DOMAIN rows', NEW j \in DOMAIN columns'
        PROVE  Suited(rows[i], columns[j])'
    <3>1. columns'[j].name \in NamesOf(columns)
      BY <1>2 DEF NamesOf
    <3>2. columns'[j].type = TypeFromSet(TypesIn(columns'[j].name))
      BY <1>2, <1>3
    <3>3. \/ Fits(rows'[i][columns'[j].name], columns'[j].type)
          \/ columns'[j].type \in {"datetime", "boolean"} /\ rows'[i][columns'[j].name] = "string"
      BY <1>4, <1>7, <3>1, <3>2
    <3> QED
      BY <1>1, <3>3 DEF Suited
  <2> QED
    BY <1>1, <1>2, <2>1, <2>2 DEF Describing, WellTyped
<1>10. ColumnsTypeOK'
  <2>1. \A i \in DOMAIN columns' : columns'[i].type \in Types \cup {"string"}
    BY <1>2, ColumnShape
  <2>2. \A i \in DOMAIN rows' : \A name \in DOMAIN rows'[i] : rows'[i][name] \in Types \cup {"string", "integer"}
    BY <1>4, <1>7 DEF Values
  <2> QED
    BY <1>1, <2>1, <2>2 DEF ColumnsInv, ColumnsTypeOK
<1> QED
  BY <1>1, <1>2, <1>5, <1>8, <1>9, <1>10 DEF ColumnsInv

LEMMA TypeOthersKeepsInv ==
  ASSUME ColumnsInv, TypeColumns, source \notin {"objects", "documents"}
  PROVE  ColumnsInv'
<1>1. stage = "rows" /\ stage' = "done" /\ UNCHANGED <<source, fields, header, rows, added, twice>>
  BY DEF TypeColumns
<1>2. /\ columns' \in Seq(ColumnRows) /\ DOMAIN columns' = DOMAIN columns
      /\ \A i \in DOMAIN columns : columns'[i].name = columns[i].name
      /\ NamesOf(columns)' = NamesOf(columns)
      /\ NamedTwice' \/ Apart(columns')
  BY TypeColumnsKeepsNames
<1>3. ASSUME NEW i \in DOMAIN rows, NEW j \in DOMAIN columns PROVE Suited(rows[i], columns[j])'
  <2> DEFINE name == columns[j].name
  <2>1. CASE source = "sheet" /\ name \in DOMAIN rows[i] /\ ~Twice(ColumnNamesOf, name)
    <3>1. columns'[j].type = TypeFromSet(TypesIn(name))
      <4>1. PICK type \in [DOMAIN columns -> Types \cup {"string"}] :
              /\ columns' = [k \in DOMAIN columns |-> Column(columns[k].name, type[k])]
              /\ \A k \in DOMAIN columns :
                   \/ type[k] = TypeFromSet(TypesIn(columns[k].name))
                   \/ rows # <<>> /\ \E l \in DOMAIN columns : l > k /\ columns[l].name = columns[k].name
        BY <2>1 DEF TypeColumns, TypedSheet
      <4>2. DOMAIN columns \subseteq Nat
        BY DEF ColumnsInv
      <4>3. ~\E l \in DOMAIN columns : l > j /\ columns[l].name = columns[j].name
        BY <2>1, <4>2 DEF Twice, ColumnNamesOf
      <4>4. columns'[j].type = type[j]
        BY <4>1 DEF Column
      <4> QED
        BY <4>1, <4>3, <4>4
    <3>2. rows[i][name] \in TypesIn(name)
      BY <2>1 DEF TypesIn
    <3>3. Fits(rows[i][name], columns'[j].type)
      BY <3>1, <3>2, TypesInColumn, TypeOfSet
    <3> QED
      BY <1>1, <1>2, <3>3 DEF Suited
  <2>2. CASE source # "sheet"
    <3>1. columns' = columns
      BY <2>2 DEF TypeColumns
    <3>2. Suited(rows[i], columns[j])
      BY DEF ColumnsInv, Describing, WellTyped
    <3> QED
      BY <1>1, <3>1, <3>2, SameHeader
  <2>3. CASE source = "sheet" /\ Twice(ColumnNamesOf, name)
    <3>1. ColumnNamesOf' = ColumnNamesOf
      BY <1>2 DEF ColumnNamesOf
    <3> QED
      BY <1>1, <1>2, <2>3, <3>1 DEF Suited
  <2>4. CASE name \notin DOMAIN rows[i]
    BY <1>1, <1>2, <2>4 DEF Suited
  <2> QED
    BY <2>1, <2>2, <2>3, <2>4
<1>4. Describing'
  BY <1>1, <1>2, <1>3 DEF ColumnsInv, Describing, WellTyped
<1>5. ColumnsTypeOK'
  <2>1. \A i \in DOMAIN columns' : columns'[i].type \in Types \cup {"string"}
    BY <1>2, ColumnShape
  <2> QED
    BY <1>1, <2>1 DEF ColumnsInv, ColumnsTypeOK
<1> QED
  BY <1>1, <1>2, <1>4, <1>5 DEF ColumnsInv

\* The columns of documents are some of those there were, in any order.
LEMMA ArrangeKeepsInv ==
  ASSUME ColumnsInv, TypeColumns, source = "documents"
  PROVE  ColumnsInv'
<1>1. stage = "rows" /\ stage' = "done" /\ UNCHANGED <<source, fields, header, rows, added, twice>>
  BY DEF TypeColumns
<1>2. /\ columns' \in SeqOf(ToSet(columns), Len(columns)) /\ IsInjective(columns')
      /\ fields \/ ToSet(columns') = ToSet(columns)
  BY DEF TypeColumns, Arranged
<1>3. columns \in Seq(ColumnRows) /\ Len(columns) \in Nat
  BY DEF ColumnsInv
<1>4. PICK n \in Nat : columns' \in [1..n -> ToSet(columns)]
  BY <1>2, <1>3 DEF SeqOf
<1>5. ToSet(columns) \subseteq ColumnRows
  BY <1>3 DEF ToSet
<1>6. columns' \in Seq(ColumnRows) /\ DOMAIN columns' = 1..n
  BY <1>4, <1>5
<1>7. ASSUME NEW j \in DOMAIN columns' PROVE \E i \in DOMAIN columns : columns'[j] = columns[i]
  BY <1>4, <1>6 DEF ToSet
<1>8. Apart(columns)
  BY <1>1 DEF ColumnsInv, Describing, NamedTwice
<1>9. Apart(columns')
  <2> SUFFICES ASSUME NEW i \in DOMAIN columns', NEW j \in DOMAIN columns', columns'[i].name = columns'[j].name
               PROVE  i = j
    BY DEF Apart
  <2>1. PICK a \in DOMAIN columns, b \in DOMAIN columns : columns'[i] = columns[a] /\ columns'[j] = columns[b]
    BY <1>7
  <2>2. columns'[i] = columns'[j]
    BY <1>8, <2>1 DEF Apart
  <2> QED
    BY <1>2, <2>2 DEF IsInjective
<1>10. fields \/ NamesOf(columns) \subseteq NamesOf(columns')
  <2> SUFFICES ASSUME ToSet(columns') = ToSet(columns), NEW i \in DOMAIN columns
               PROVE  columns[i].name \in NamesOf(columns')
    BY <1>2 DEF NamesOf
  <2>1. PICK j \in DOMAIN columns' : columns'[j] = columns[i]
    BY DEF ToSet
  <2> QED
    BY <2>1 DEF NamesOf
<1>11. Describing'
  <2>1. ASSUME NEW j \in DOMAIN columns' PROVE WellTyped(columns[j])'
    <3>1. PICK i \in DOMAIN columns : columns'[j] = columns[i]
      BY <1>7
    <3>2. Founded(columns[i])
      BY DEF ColumnsInv, Describing, WellTyped
    <3> QED
      BY <1>1, <3>1, <3>2 DEF WellTyped, Founded
  <2>2. \/ (fields /\ stage = "done")'
        \/ \A i \in DOMAIN rows' : DOMAIN rows'[i] \subseteq NamesOf(columns')
    <3>1. \A i \in DOMAIN rows : DOMAIN rows[i] \subseteq NamesOf(columns)
      BY <1>1 DEF ColumnsInv, Describing
    <3> QED
      BY <1>1, <1>10, <3>1
  <2> QED
    BY <1>9, <2>1, <2>2 DEF Describing
<1>12. ColumnsTypeOK'
  <2>1. \A i \in DOMAIN columns' : columns'[i].type \in Types \cup {"string"}
    BY <1>6, ColumnShape
  <2> QED
    BY <1>1, <2>1 DEF ColumnsInv, ColumnsTypeOK
<1> QED
  BY <1>1, <1>6, <1>11, <1>12 DEF ColumnsInv

LEMMA AddColumnKeepsInv ==
  ASSUME ColumnsInv, NEW name \in Keys, AddColumn(name)
  PROVE  ColumnsInv'
<1>1. stage = "extra" /\ source = "objects" /\ ~twice /\ UNCHANGED <<source, fields, header, twice>>
  BY DEF AddColumn, ColumnsInv
<1>2. CASE name \in NamesOf(columns)
  <2>1. NoAnswer
    BY <1>1, <1>2 DEF AddColumn, NoAnswer
  <2> QED
    BY <2>1, QuietKeepsInv
<1>3. CASE name \notin NamesOf(columns)
  <2>1. PICK value \in [DOMAIN rows -> Types] :
          /\ rows' = [i \in DOMAIN rows |->
               [key \in DOMAIN rows[i] \cup {name} |->
                 IF key = name THEN value[i] ELSE rows[i][key]]]
          /\ columns' = Append(columns, Column(name, TypeFromSet(ToSet(value))))
    BY <1>3 DEF AddColumn
  <2>2. added' = added \cup {name} /\ stage' = stage
    BY <1>3 DEF AddColumn
  <2>3. name \in Seq(Nat)
    BY ColumnsAssumption DEF Keys
  <2>4. DOMAIN rows = 1..Len(rows) /\ Len(rows) \in Nat /\ rows \in Seq(Lines)
    BY DEF ColumnsInv
  <2> DEFINE new == Column(name, TypeFromSet(ToSet(value)))
  <2>16. PICK n : n = Len(columns) + 1
    OBVIOUS
  <2>5. new \in ColumnRows /\ \A i \in DOMAIN rows : Fits(value[i], new.type)
    <3>1. ToSet(value) = {value[i] : i \in DOMAIN rows} /\ ToSet(value) \in SUBSET Types
      BY DEF ToSet
    <3>2. IsFiniteSet(DOMAIN rows)
      BY <2>4, FS_Interval
    <3>3. value \in [DOMAIN rows -> Values]
      BY DEF Values
    <3>4. IsFiniteSet({value[i] : i \in DOMAIN rows})
      BY <3>2, <3>3, ValuesAreFinite
    <3>5. /\ TypeFromSet(ToSet(value)) \in Types \cup {"string"}
          /\ \A v \in ToSet(value) : Fits(v, TypeFromSet(ToSet(value)))
      BY <3>1, <3>4, TypeOfSet
    <3> QED
      BY <2>3, <3>1, <3>5 DEF Column, ColumnRows
  <2>6. new.name = name
    BY DEF Column
  <2> HIDE DEF new
  <2>7. /\ columns' \in Seq(ColumnRows) /\ DOMAIN columns' = DOMAIN columns \cup {n}
        /\ n \notin DOMAIN columns /\ columns'[n] = new
        /\ \A j \in DOMAIN columns : columns'[j] = columns[j]
    <3>1. columns \in Seq(ColumnRows)
      BY DEF ColumnsInv
    <3>2. columns' = Append(columns, new)
      BY <2>1 DEF new
    <3> QED
      BY <2>5, <2>16, <3>1, <3>2
  <2>8. NamesOf(columns)' = NamesOf(columns) \cup {name}
    BY <2>6, <2>7 DEF NamesOf
  <2>9. Apart(columns')
    <3>1. Apart(columns)
      BY <1>1 DEF ColumnsInv, Describing, NamedTwice
    <3>2. \A j \in DOMAIN columns : columns[j].name # name
      BY <1>3 DEF NamesOf
    <3> QED
      BY <2>6, <2>7, <3>1, <3>2 DEF Apart
  <2>10. ASSUME NEW i \in DOMAIN rows
         PROVE  /\ rows'[i] = [key \in DOMAIN rows[i] \cup {name} |->
                                IF key = name THEN value[i] ELSE rows[i][key]]
                /\ DOMAIN rows'[i] = DOMAIN rows[i] \cup {name}
                /\ rows'[i][name] = value[i]
                /\ \A key \in DOMAIN rows[i] : key # name => rows'[i][key] = rows[i][key]
    BY <2>1
  <2>11. DOMAIN rows' = DOMAIN rows
    BY <2>1
  <2>12. ASSUME NEW i \in DOMAIN rows
         PROVE  rows'[i] \in Lines /\ \A key \in DOMAIN rows'[i] : rows'[i][key] \in Values
    <3>1. rows[i] \in Lines
      BY <2>4
    <3>2. DOMAIN rows[i] \subseteq Seq(Nat) /\ \A key \in DOMAIN rows[i] : rows[i][key] \in Values
      BY <3>1, LineShape
    <3>3. value[i] \in Values
      BY DEF Values
    <3>4. DOMAIN rows[i] \cup {name} \in SUBSET Seq(Nat)
      BY <2>3, <3>2
    <3>5. rows'[i] \in [DOMAIN rows[i] \cup {name} -> Values]
      BY <2>10, <3>2, <3>3
    <3> QED
      BY <3>4, <3>5, LineShape
  <2>13. rows' \in Seq(Lines)
    <3>1. rows' \in [1..Len(rows) -> Lines]
      BY <2>1, <2>4, <2>12
    <3> QED
      BY <2>4, <3>1
  <2>14. Describing'
    <3>1. \A i \in DOMAIN rows' : DOMAIN rows'[i] \subseteq NamesOf(columns')
      BY <1>1, <2>8, <2>10, <2>11 DEF ColumnsInv, Describing
    <3>2. ASSUME NEW i \in DOMAIN rows, NEW j \in DOMAIN columns
          PROVE  Suited(rows[i], columns[j])'
      <4>1. Suited(rows[i], columns[j]) /\ columns[j].name # name
        BY <1>1, <1>3 DEF ColumnsInv, Describing, WellTyped, NamesOf
      <4>2. Title' = Title
        BY <1>1, SameHeader
      <4>3. columns'[j] = columns[j]
        BY <2>7
      <4>4. CASE columns[j].name \in DOMAIN rows[i]
        <5>1. rows'[i][columns[j].name] = rows[i][columns[j].name]
          BY <2>10, <4>1, <4>4
        <5> QED
          BY <1>1, <4>1, <4>2, <4>3, <4>4, <5>1 DEF Suited
      <4>5. CASE columns[j].name \notin DOMAIN rows[i]
        <5>1. columns[j].name \notin DOMAIN rows'[i]
          BY <2>10, <4>1, <4>5
        <5> QED
          BY <4>3, <5>1 DEF Suited
      <4> QED
        BY <4>4, <4>5
    <3>3. ASSUME NEW i \in DOMAIN rows PROVE Suited(rows[i], columns[n])'
      <4>1. Fits(rows'[i][columns'[n].name], columns'[n].type)
        BY <2>5, <2>6, <2>7, <2>10
      <4> QED
        BY <4>1 DEF Suited
    <3>4. ASSUME NEW i \in DOMAIN rows', NEW j \in DOMAIN columns'
          PROVE  Suited(rows[i], columns[j])'
      <4>1. i \in DOMAIN rows /\ (j = n \/ j \in DOMAIN columns)
        BY <2>7, <2>11
      <4> QED
        BY <3>2, <3>3, <4>1
    <3> QED
      BY <1>1, <2>9, <3>1, <3>4 DEF Describing, WellTyped
  <2>15. ColumnsTypeOK'
    <3>1. \A j \in DOMAIN columns' : columns'[j].type \in Types \cup {"string"}
      BY <2>7, ColumnShape
    <3> QED
      BY <1>1, <2>2, <2>11, <2>12, <3>1 DEF ColumnsInv, ColumnsTypeOK, Values
  <2> QED
    BY <1>1, <2>2, <2>7, <2>13, <2>14, <2>15 DEF ColumnsInv
<1> QED
  BY <1>2, <1>3

\* What two sequences are together.
LEMMA Concatenated ==
  ASSUME NEW S, NEW a \in Seq(S), NEW b \in Seq(S)
  PROVE  /\ a \o b \in Seq(S) /\ Len(a) \in Nat /\ Len(b) \in Nat
         /\ \A i \in 1..Len(a) : i \in DOMAIN (a \o b) /\ (a \o b)[i] = a[i]
         /\ \A i \in 1..Len(b) : Len(a) + i \in DOMAIN (a \o b) /\ (a \o b)[Len(a) + i] = b[i]
         /\ \A i \in DOMAIN (a \o b) :
              \/ i \in 1..Len(a)
              \/ \E k \in 1..Len(b) : i = Len(a) + k
<1>1. a \o b \in Seq(S) /\ Len(a) \in Nat /\ Len(b) \in Nat /\ DOMAIN (a \o b) = 1..Len(a) + Len(b)
  OBVIOUS
<1>2. \A i \in 1..Len(a) : i \in DOMAIN (a \o b) /\ (a \o b)[i] = a[i]
  OBVIOUS
<1>3. \A i \in 1..Len(b) : Len(a) + i \in DOMAIN (a \o b) /\ (a \o b)[Len(a) + i] = b[i]
  OBVIOUS
<1>4. ASSUME NEW i \in 1..Len(a) + Len(b), i \notin 1..Len(a)
      PROVE  \E k \in 1..Len(b) : i = Len(a) + k
  <2>1. i - Len(a) \in 1..Len(b) /\ i = Len(a) + (i - Len(a))
    BY <1>1, <1>4
  <2> QED
    BY <2>1
<1> QED
  BY <1>1, <1>2, <1>3, <1>4

\* The columns that are answered are columns of the data, the ordered ones first,
\* and are all that is selected.
LEMMA OrderedColumns ==
  ASSUME columns \in Seq(ColumnRows), NEW selected, selected \subseteq NamesOf(columns),
         NEW m \in Nat, NEW order \in [1..m -> selected], NEW typeOf,
         \A name \in selected : \E j \in DOMAIN columns : columns[j] = Column(name, typeOf[name])
  PROVE  LET cs == [i \in DOMAIN order |-> Column(order[i], typeOf[order[i]])]
                     \o Kept(columns, selected \ ToSet(order))
         IN  /\ cs \in Seq(ColumnRows)
             /\ \A i \in DOMAIN cs : \E j \in DOMAIN columns : cs[i] = columns[j]
             /\ selected \subseteq NamesOf(cs)
             /\ Apart(columns) /\ IsInjective(order) => Apart(cs)
<1> DEFINE first == [i \in DOMAIN order |-> Column(order[i], typeOf[order[i]])]
           rest == Kept(columns, selected \ ToSet(order))
           cs == first \o rest
<1>1. DOMAIN columns = 1..Len(columns) /\ Len(columns) \in Nat /\ ToSet(order) = {order[i] : i \in 1..m}
  BY DEF ToSet
<1>2. ASSUME NEW i \in 1..m
      PROVE  first[i].name = order[i] /\ \E j \in DOMAIN columns : first[i] = columns[j]
  <2>1. order[i] \in selected /\ first[i] = Column(order[i], typeOf[order[i]])
    OBVIOUS
  <2> QED
    BY <2>1 DEF Column
<1>3. first \in Seq(ColumnRows) /\ Len(first) = m
  <2>1. \A i \in 1..m : first[i] \in ColumnRows
    BY <1>2, ColumnShape
  <2>2. first \in [1..m -> ColumnRows]
    BY <2>1
  <2> HIDE DEF first
  <2> QED
    BY <2>2
<1>4. /\ rest \in Seq(ColumnRows) /\ Len(rest) \in Nat
      /\ \A i \in 1..Len(rest) : \E j \in DOMAIN columns :
           rest[i] = columns[j] /\ columns[j].name \in selected \ ToSet(order)
      /\ \A j \in DOMAIN columns : columns[j].name \in selected \ ToSet(order) =>
           \E i \in 1..Len(rest) : rest[i] = columns[j]
      /\ Apart(columns) => \A i, j \in 1..Len(rest) : rest[i].name = rest[j].name => i = j
  <2>1. KeptUpTo(ColumnRows, columns, selected \ ToSet(order), Len(columns), rest)
    BY KeptColumns
  <2> HIDE DEF rest
  <2> QED
    BY <1>1, <2>1 DEF KeptUpTo, Apart
<1> HIDE DEF first, rest
<1>5. /\ cs \in Seq(ColumnRows)
      /\ \A i \in 1..m : i \in DOMAIN cs /\ cs[i] = first[i]
      /\ \A i \in 1..Len(rest) : m + i \in DOMAIN cs /\ cs[m + i] = rest[i]
      /\ \A i \in DOMAIN cs : i \in 1..m \/ \E k \in 1..Len(rest) : i = m + k
  <2> DEFINE l == Len(first)
  <2>1. /\ cs \in Seq(ColumnRows)
        /\ \A i \in 1..l : i \in DOMAIN cs /\ cs[i] = first[i]
        /\ \A i \in 1..Len(rest) : l + i \in DOMAIN cs /\ cs[l + i] = rest[i]
        /\ \A i \in DOMAIN cs : i \in 1..l \/ \E k \in 1..Len(rest) : i = l + k
    <3>1. first \in Seq(ColumnRows) /\ rest \in Seq(ColumnRows)
      BY <1>3, <1>4
    <3> QED
      BY <3>1, Concatenated
  <2>2. l = m
    BY <1>3
  <2> HIDE DEF cs, l
  <2> QED
    BY <2>1, <2>2
<1> HIDE DEF cs
<1>6. ASSUME NEW i \in DOMAIN cs PROVE \E j \in DOMAIN columns : cs[i] = columns[j]
  <2>1. CASE i \in 1..m
    BY <1>2, <1>5, <2>1
  <2>2. ASSUME NEW k \in 1..Len(rest), i = m + k
        PROVE  \E j \in DOMAIN columns : cs[i] = columns[j]
    <3>1. cs[i] = rest[k]
      BY <1>5, <2>2
    <3> QED
      BY <1>4, <3>1
  <2> QED
    BY <1>5, <2>1, <2>2
<1>7. ASSUME NEW name \in selected PROVE name \in NamesOf(cs)
  <2>1. CASE name \in ToSet(order)
    <3>1. PICK i \in 1..m : order[i] = name
      BY <1>1, <2>1
    <3>2. i \in DOMAIN cs /\ cs[i].name = name
      BY <1>2, <1>5, <3>1
    <3> QED
      BY <3>2 DEF NamesOf
  <2>2. CASE name \notin ToSet(order)
    <3>1. PICK j \in DOMAIN columns : columns[j].name = name
      BY DEF NamesOf
    <3>2. PICK i \in 1..Len(rest) : rest[i] = columns[j]
      BY <1>4, <2>2, <3>1
    <3>3. m + i \in DOMAIN cs /\ cs[m + i].name = name
      BY <1>5, <3>1, <3>2
    <3> QED
      BY <3>3 DEF NamesOf
  <2> QED
    BY <2>1, <2>2
<1>8. ASSUME Apart(columns), IsInjective(order) PROVE Apart(cs)
  <2> SUFFICES ASSUME NEW i \in DOMAIN cs, NEW j \in DOMAIN cs, cs[i].name = cs[j].name PROVE i = j
    BY DEF Apart
  <2>1. CASE i \in 1..m /\ j \in 1..m
    <3>1. order[i] = order[j]
      BY <1>2, <1>5, <2>1
    <3> QED
      BY <1>8, <2>1, <3>1 DEF IsInjective
  <2>2. ASSUME NEW a \in 1..m, NEW k \in 1..Len(rest), cs[a].name = cs[m + k].name PROVE FALSE
    <3>1. cs[a].name \in ToSet(order)
      <4>1. order[a] \in ToSet(order)
        BY <1>1
      <4> QED
        BY <1>2, <1>5, <4>1
    <3>2. cs[m + k].name \notin ToSet(order)
      BY <1>4, <1>5
    <3> QED
      BY <2>2, <3>1, <3>2
  <2>3. ASSUME NEW a \in 1..Len(rest), NEW k \in 1..Len(rest), i = m + a, j = m + k PROVE i = j
    <3>1. rest[a].name = rest[k].name
      BY <1>5, <2>3
    <3> QED
      BY <1>4, <1>8, <2>3, <3>1
  <2> QED
    BY <1>5, <2>1, <2>2, <2>3
<1> QED
  BY <1>5, <1>6, <1>7, <1>8 DEF cs, first, rest

LEMMA SelectAndOrderKeepsInv ==
  ASSUME ColumnsInv, NEW everything \in BOOLEAN, NEW select \in SUBSET Keys,
         NEW order \in SeqOf(Keys, 2), SelectAndOrder(everything, select, order)
  PROVE  ColumnsInv'
<1> DEFINE all == NamesOf(columns)
           selected == IF everything \/ select \cup added = {} THEN all ELSE select \cup added
           typeOf(name) == (CHOOSE c \in ToSet(columns) : c.name = name).type
           types == [name \in selected |-> typeOf(name)]
           ordered == [i \in DOMAIN order |-> Column(order[i], typeOf(order[i]))]
           rest == Kept(columns, selected \ ToSet(order))
<1>1. stage = "extra" /\ source = "objects" /\ ~twice /\ UNCHANGED <<source, fields, header, added>>
  BY DEF SelectAndOrder, ColumnsInv
<1>2. CASE ~(selected \subseteq all /\ ToSet(order) \subseteq selected)
  <2>1. NoAnswer
    BY <1>1, <1>2 DEF SelectAndOrder, NoAnswer
  <2> QED
    BY <2>1, QuietKeepsInv
<1>3. CASE selected \subseteq all /\ ToSet(order) \subseteq selected
  <2>1. /\ stage' = "done" /\ twice' = ~IsInjective(order)
        /\ columns' = ordered \o rest
        /\ rows' = [i \in DOMAIN rows |-> [name \in DOMAIN rows[i] \cap selected |-> rows[i][name]]]
    BY <1>3 DEF SelectAndOrder
  <2>2. PICK m \in Nat : order \in [1..m -> Keys]
    <3>1. PICK m \in 0..2 : order \in [1..m -> Keys]
      BY DEF SeqOf
    <3>2. m \in Nat
      OBVIOUS
    <3> QED
      BY <3>1, <3>2
  <2>3. order \in [1..m -> selected]
    BY <1>3, <2>2 DEF ToSet
  <2>4. ordered = [i \in DOMAIN order |-> Column(order[i], types[order[i]])]
    BY <2>3
  <2>5. columns \in Seq(ColumnRows)
    BY DEF ColumnsInv
  <2> HIDE DEF selected
  <2>6. /\ columns' \in Seq(ColumnRows)
        /\ \A i \in DOMAIN columns' : \E j \in DOMAIN columns : columns'[i] = columns[j]
        /\ selected \subseteq NamesOf(columns')
        /\ Apart(columns) /\ IsInjective(order) => Apart(columns')
    <3>1. columns' = [i \in DOMAIN order |-> Column(order[i], types[order[i]])] \o rest
      BY <2>1, <2>4
    <3>2. ASSUME NEW name \in selected
          PROVE  \E j \in DOMAIN columns : columns[j] = Column(name, types[name])
      <4> DEFINE c == CHOOSE d \in ToSet(columns) : d.name = name
      <4>1. types[name] = c.type
        OBVIOUS
      <4>2. \E d \in ToSet(columns) : d.name = name
        BY <1>3 DEF NamesOf, ToSet
      <4>3. c \in ToSet(columns) /\ c.name = name
        BY <4>2
      <4> HIDE DEF c, types
      <4>4. PICK j \in DOMAIN columns : c = columns[j]
        BY <4>3 DEF ToSet
      <4>5. c = Column(c.name, c.type)
        BY <2>5, <4>4, ColumnShape
      <4> QED
        BY <4>1, <4>3, <4>4, <4>5
    <3>3. selected \subseteq NamesOf(columns)
      BY <1>3
    <3> DEFINE cs == [i \in DOMAIN order |-> Column(order[i], types[order[i]])] \o rest
    <3> HIDE DEF types
    <3>4. /\ cs \in Seq(ColumnRows)
          /\ \A i \in DOMAIN cs : \E j \in DOMAIN columns : cs[i] = columns[j]
          /\ selected \subseteq NamesOf(cs)
          /\ Apart(columns) /\ IsInjective(order) => Apart(cs)
      BY <2>3, <2>5, <3>2, <3>3, OrderedColumns
    <3>5. columns' = cs
      BY <3>1
    <3> HIDE DEF cs
    <3> QED
      BY <3>4, <3>5
  <2> HIDE DEF ordered, rest, types
  <2>7. DOMAIN rows' = DOMAIN rows
    BY <2>1
  <2>8. ASSUME NEW i \in DOMAIN rows
        PROVE  /\ DOMAIN rows'[i] \subseteq selected /\ DOMAIN rows'[i] \subseteq DOMAIN rows[i]
               /\ \A name \in DOMAIN rows'[i] : rows'[i][name] = rows[i][name]
    BY <2>1
  <2>9. rows \in Seq(Lines) /\ DOMAIN rows = 1..Len(rows) /\ Len(rows) \in Nat
    BY DEF ColumnsInv
  <2>10. ASSUME NEW i \in DOMAIN rows
         PROVE  rows'[i] \in Lines /\ \A name \in DOMAIN rows'[i] : rows'[i][name] \in Values
    <3>1. DOMAIN rows[i] \subseteq Seq(Nat) /\ \A name \in DOMAIN rows[i] : rows[i][name] \in Values
      BY <2>9, LineShape
    <3>2. rows'[i] \in [DOMAIN rows[i] \cap selected -> Values]
      BY <2>1, <3>1
    <3>3. DOMAIN rows[i] \cap selected \in SUBSET Seq(Nat)
      BY <3>1
    <3> QED
      BY <3>2, <3>3, LineShape
  <2>11. rows' \in Seq(Lines)
    <3>1. rows' \in [1..Len(rows) -> Lines]
      BY <2>1, <2>9, <2>10
    <3> QED
      BY <2>9, <3>1
  <2>12. Describing'
    <3>1. NamedTwice' \/ Apart(columns')
      <4>1. Apart(columns)
        BY <1>1 DEF ColumnsInv, Describing, NamedTwice
      <4> QED
        BY <1>1, <2>1, <2>6, <4>1 DEF NamedTwice
    <3>2. \A i \in DOMAIN rows' : DOMAIN rows'[i] \subseteq NamesOf(columns')
      BY <2>6, <2>7, <2>8
    <3>3. ASSUME NEW i \in DOMAIN rows', NEW j \in DOMAIN columns'
          PROVE  Suited(rows[i], columns[j])'
      <4>1. PICK l \in DOMAIN columns : columns'[j] = columns[l]
        BY <2>6
      <4>2. Suited(rows[i], columns[l])
        BY <1>1, <2>7 DEF ColumnsInv, Describing, WellTyped
      <4>3. Title' = Title
        BY <1>1, SameHeader
      <4>4. \/ columns[l].name \notin DOMAIN rows'[i]
            \/ columns[l].name \in DOMAIN rows[i]
               /\ rows'[i][columns[l].name] = rows[i][columns[l].name]
        BY <2>7, <2>8
      <4> QED
        BY <1>1, <4>1, <4>2, <4>3, <4>4 DEF Suited
    <3> QED
      BY <1>1, <3>1, <3>2, <3>3 DEF Describing, WellTyped
  <2>13. ColumnsTypeOK'
    <3>1. \A j \in DOMAIN columns' : columns'[j].type \in Types \cup {"string"}
      BY <2>6, ColumnShape
    <3> QED
      BY <1>1, <2>1, <2>7, <2>10, <3>1 DEF ColumnsInv, ColumnsTypeOK, Values
  <2> QED
    BY <1>1, <2>1, <2>6, <2>11, <2>12, <2>13 DEF ColumnsInv
<1> QED
  BY <1>2, <1>3

\* Columns and rows have the invariant whatever an answer is read from.
LEMMA ColumnsInvHolds == ColumnsSpec => []ColumnsInv
<1>1. ColumnsInit => ColumnsInv
  <2> SUFFICES ASSUME ColumnsInit PROVE ColumnsInv
    OBVIOUS
  <2>1. /\ columns = <<>> /\ rows = <<>> /\ stage = "header" /\ added = {} /\ twice = FALSE
        /\ source \in Sources /\ fields \in BOOLEAN /\ (fields => source = "documents")
        /\ DOMAIN columns = {} /\ DOMAIN rows = {}
    BY DEF ColumnsInit
  <2>4. ColumnsTypeOK
    BY <2>1 DEF ColumnsTypeOK
  <2>5. Describing
    BY <2>1 DEF Describing, Apart
  <2>6. columns \in Seq(ColumnRows) /\ rows \in Seq(Lines)
    BY <2>1
  <2>2. CASE source \in WithHeader
    <3>1. PICK n \in 1..MaxColumns : header \in [1..n -> Names]
      BY <2>2 DEF ColumnsInit
    <3>2. n \in Nat /\ n <= MaxColumns
      BY ColumnsAssumption
    <3>3. header \in Seq(Names) /\ Len(header) = n
      BY <3>1, <3>2
    <3> QED
      BY <2>1, <2>2, <2>4, <2>5, <2>6, <3>2, <3>3 DEF ColumnsInv
  <2>3. CASE source \notin WithHeader
    <3>1. header = <<>>
      BY <2>3 DEF ColumnsInit
    <3> QED
      BY <2>1, <2>3, <2>4, <2>5, <2>6, <3>1 DEF ColumnsInv
  <2> QED
    BY <2>2, <2>3
<1>2. ColumnsInv /\ [ColumnsNext]_columnVars => ColumnsInv'
  <2> SUFFICES ASSUME ColumnsInv, [ColumnsNext]_columnVars PROVE ColumnsInv'
    OBVIOUS
  <2>1. CASE ReadHeader
    BY <2>1, ReadHeaderKeepsInv
  <2>2. CASE NoAnswer \/ NextPageOfIssues
    BY <2>2, QuietKeepsInv
  <2>3. CASE ReadRow
    BY <2>3, ReadRowKeepsInv
  <2>4. CASE ReadRecord
    BY <2>4, ReadRecordKeepsInv
  <2>5. CASE TypeColumns
    BY <2>5, TypeObjectsKeepsInv, TypeOthersKeepsInv, ArrangeKeepsInv
  <2>6. ASSUME NEW name \in Keys, AddColumn(name) PROVE ColumnsInv'
    BY <2>6, AddColumnKeepsInv
  <2>7. ASSUME NEW everything \in BOOLEAN, NEW select \in SUBSET Keys,
               NEW order \in SeqOf(Keys, 2), SelectAndOrder(everything, select, order)
        PROVE  ColumnsInv'
    BY <2>7, SelectAndOrderKeepsInv
  <2>8. CASE UNCHANGED columnVars
    <3>1. /\ UNCHANGED <<source, fields, header, columns, rows, stage, added, twice>>
          /\ Title' = Title /\ NamedTwice' = NamedTwice
          /\ ColumnNamesOf' = ColumnNamesOf
      BY <2>8 DEF columnVars, Title, NamedTwice, ColumnNamesOf
    <3>3. \A c : WellTyped(c)' = WellTyped(c)
      BY <3>1 DEF WellTyped, Founded, Suited
    <3>2. ColumnsTypeOK' /\ Describing'
      BY <3>1, <3>3 DEF ColumnsInv, ColumnsTypeOK, Describing, NamesOf, Apart
    <3> QED
      BY <3>1, <3>2 DEF ColumnsInv
  <2> QED
    BY <2>1, <2>2, <2>3, <2>4, <2>5, <2>6, <2>7, <2>8 DEF ColumnsNext
<1> QED
  BY <1>1, <1>2, PTL DEF ColumnsSpec

\* The columns, their types and the values that fetch_columns, __extract_columns,
\* parse_results and handle_extra_columns make are of the types they have in the
\* code, whatever the names, the rows and the bounds are.
THEOREM ColumnsTypeCorrect == ColumnsSpec => []ColumnsTypeOK
<1>1. ColumnsInv => ColumnsTypeOK
  BY DEF ColumnsInv
<1> QED
  BY <1>1, ColumnsInvHolds, PTL

\* An answer has columns with different names, and every value has a column whose
\* type it fits, with the exceptions that ColumnsDescribeRows names
\* (query_runner/__init__.py:100-116 and 322-410, jql.py:27): for every length of
\* the header, every number of rows and every computed column.
THEOREM AnswersAreDescribed == ColumnsSpec => []ColumnsDescribeRows
BY ColumnsInvHolds, DescribingSuffices, PTL

=============================================================================
