# A verification of the dashboard server

The repository is a fork of redash 6: a Flask application that stores queries,
dashboards and alerts in PostgreSQL, keeps locks and timestamps in redis, and
executes queries in celery workers. This directory holds TLA+ models of the parts
of it that are concurrent, timed or exposed to failures, the TLC configurations
that check them, and TLAPS proofs about them. Paths below are relative to
`src/redash/`.

Contents:

1. The system: components, state, interactions
2. Modules, and how they correspond to the code
3. Runs: what each checks and shows, with its bounds
4. Fairness
5. Theorems, and the arguments
6. Where the code disagrees with what is said of it
7. What is only model-checked, and what is not modelled
8. Plan

## 1. The system

```
 browser --HTTP--> web processes ----SQL----> PostgreSQL: queries, results, alerts,
                     |     |                     |          dashboards, users ...
                     |     +--WATCH/SET--> redis |
                     |                       ^   |
                 apply_async            lock key, sq:executed_at, pause keys,
                     v                  celery's broker and result backend
 beat --refresh_queries--> celery workers: execute_query, check_alerts_for_query,
        (every 30 s)                       cleanup_query_results, sync_user_details ...
```

| component | state | operations | talks to |
|---|---|---|---|
| query jobs (`tasks/queries.py`) | the redis key `query_hash_job:<ds>:<hash>`, celery's queue and result states | `enqueue_query`, `QueryTask.cancel`, `QueryExecutor.run`, key and result expiry | called by handlers and by `refresh_queries`; stores results, queues alert checks |
| scheduled refresh (`tasks/queries.py`, `Query.outdated_queries`) | `queries.schedule`, `schedule_failures`, redis hash `sq:executed_at` | `refresh_queries`, the failure count in `QueryExecutor.run` | reads schedules, calls `enqueue_query` |
| schedules (`should_schedule_next`) | none: a function of last execution, time, schedule and failures | - | called by `outdated_queries` |
| alerts (`tasks/alerts.py`, `Alert`) | `alerts.state`, `last_triggered_at`, `alert_subscriptions` | `check_alerts_for_query`, create, edit, delete, subscribe, unsubscribe | runs after a result is committed, notifies destinations |
| concurrent editing (`apis/handlers/dashboards.py`, `queries.py`) | `version` columns | GET, POST, DELETE of dashboards and queries | SQLAlchemy's `version_id_col` |
| query results (`QueryResult`, `Query`) | `query_results`, `queries.latest_query_data_id` | store, `get_latest`, cleanup, delete a data source, create, fork, edit | executors and requests in transactions that overlap |
| content (`Query.archive`, the handlers of visualizations, widgets, alerts) | the rows below a query | create, fork, edit, remove, archive with its cascade | foreign keys and cascades |
| lists (`paginate`, `Query.all_queries` ...) | none; each page is a request | count, select a window | rows that others change |
| options (`ConfigurationContainer`) | `data_sources.options`, `notification_destinations.options` | create, show masked, edit, delete, command `ds edit` | read by the drivers |
| schema cache (`DataSource.get_schema`) | a redis key per data source | refresh, answer, pause, edit | the drivers' `get_schema` |
| query runners (`query_runner/*`) | a connection, a statement, a download; nothing survives a run | `run_query`, `get_schema`, columns of an answer | called by executors, the command line and the schema cache; signals of a cancellation |
| parameterized queries (`ParameterizedQuery`) | `queries.options`, the result of a dropdown query | offer, validate, render | handlers of results |
| access control (`apis/handlers/permissions.py`, `AccessPermission`, `ApiKey`) | `access_permissions`, `api_keys` | grant, revoke, share, unshare, the public page | read by every edit; public pages read dashboards |
| users and groups | `users.group_ids`, `groups`, the tables that link groups to objects | add, remove and set members, link and unlink, list, delete a group | read by every permission test |
| sessions (`User.get_id`, `load_user`) | cookies; email and password hash of the row | log in and out, edit, reset, disable | read by every request |
| activity (`sync_last_active_at`) | redis hash `users:last_active_at`, `users.details` | note, move to the database, verify an address | requests, a task each minute |

The behaviours that are hard to test:

- **query jobs**: a lock in redis that is set after the job it names is already in
  the broker, removed by whichever job finishes, invalidated by the caller's own
  DELETE, and that outlives or is outlived by the job's state in the result backend;
  cancellations, time limits, dead workers and dead callers at every step.
- **scheduled refresh**: lists and rows read in one process and used in another
  after they changed; a job shared by several queries; backoff computed from a
  count that overlapping jobs write back stale.
- **schedules**: calendar arithmetic around midnight and around the week's end.
- **alerts**: tasks that overlap and that look at a newer result than the one they
  were queued for; a commit that comes before its notifications.
- **editing**: a test of the version in the handler, and a second one in the UPDATE.
- **access**: rows that are looked for and then inserted, several rows that stand for one
  fact, and pages that are assembled from rows read one after the other.
- **results and content**: transactions that select rows and write about them later, while
  others move, link, archive and delete them; bulk deletions that only foreign keys stop.
- **groups, sessions, options, activity**: arrays and JSON columns that are read, changed
  and written back whole; identities and masks that come back from a client later.
- **lists**: a count, a page and the next page are three looks at rows that change.
- **schema cache**: answers that take long and overwrite newer ones.
- **query runners**: an exception at any line, in the `except` and `finally` clauses too;
  columns computed from other data than the rows; a catalog that changes while it is read.
- **parameters**: values offered from one result and checked against the next; names of
  definitions, tags and values that are compared in three different ways.

What makes each component correct, as properties:

- jobs: the key only names jobs that were submitted and is never overwritten; a call
  ends, and with a submitted job that will reach a final state; SUCCESS means that
  the result is stored; a key left over by a finished job is recognised; `max_age` 0
  executes. To its callers a call is one instant, at which it gets a job of its own or
  joins one in progress.
- refresh: a scheduled query keeps being executed; its backoff ends with its failures.
- schedules: no slot is skipped, none is served twice, an interval is kept.
- alerts: only tasks that overlap announce a state twice; everybody who stays subscribed
  is told; with one worker every commit is news and states converge to the latest result.
- editing: no update is lost; two-step requests behave like atomic edits.
- access: the list behaves like a set of users; what an anonymous visitor gets was public.
- results: who was linked to a result has the latest; a data source can be deleted; archived
  queries are bare. Each of these has exceptions, which the properties name.
- users: everybody is in the groups asked for; an accepted session is of somebody who
  typed the password that holds; activity reaches the database and does not go back.
- lists fail or miss something only if what they list was changed.
- options: a field that is shown masked keeps its value when the form is saved.
- schema cache: it catches up with the last edit. Runners: a cancelled run yields no data
  and leaves nothing behind; columns describe rows; a schema is true.
- parameters: what is run has every value, of the type defined; what is offered is accepted.

These have exceptions too, where the code has them, and the properties name each.

## 2. Modules and code

| module | code | what its state is |
|---|---|---|
| `QueryJobs` | `enqueue_query`, `QueryTask`, `QueryExecutor`, `execute_query`, `JobResource.delete` | one lock key, callers, jobs |
| `JobDesk` | the abstract specification that `QueryJobs` implements | what is known of jobs, callers, the current job |
| `ScheduledRefresh` | `refresh_queries`, `Query.outdated_queries`, `QueryExecutor`'s failure count | queries, ages, jobs |
| `Schedule` | `should_schedule_next` | clock, last execution, failures |
| `Alerts` | `check_alerts_for_query`, `Alert.evaluate`, `notify`, alert handlers | results, alerts, subscriptions, tasks |
| `Editing` | `DashboardResource`, `QueryResource`, their mappers | version, requests |
| `EditLog` | the abstract specification that `Editing` implements | log of writes |
| `Access` | `ObjectPermissionsListResource`, `AccessPermission`, `ApiKey`, `DashboardShareResource`, `PublicDashboardResource` | permission rows, keys, a dashboard, requests, visits |
| `AccessList` | the abstract specification that the access list implements | set of users, calls |
| `Groups` | `GroupMember*Resource`, `UserResource.post`, `GroupResource.delete`, commands | groups, arrays, requests |
| `Links` | `Group*Resource` for data sources, dashboards and queries | link rows, lists, deletions |
| `Sessions` | `User.get_id`, `load_user`, login, resets, `UserResource.post`, commands | rows, cookies, edits |
| `Activity` | `update_user_active_at`, `sync_last_active_at` | redis hash, details, tasks |
| `Results` | `store_result`, `unused`, `DataSource.delete`, what handlers do to a query's link | queries, results, transactions |
| `Content` | `Query.archive`, `fork`, handlers of what belongs to a query | rows and removals |
| `Catalog` | `paginate`, the selections behind lists, favorites | objects and a walk through pages |
| `Options` | `ConfigurationContainer`, handlers of data sources and destinations | options, forms, saves |
| `Parameters` | `ParameterizedQuery`, `run_query`, dropdowns | a query, a page, a request |
| `SchemaCache` | `DataSource.get_schema`, `refresh_schemas` | options, cached schemas, tasks |
| `Runners` | `run_query` of 18 drivers | one execution |
| `Columns` | `fetch_columns`, `parse_results`, `ResultSet`, sheets and files | one answer |
| `Tables` | `get_schema` of the drivers | one reading of a catalog |

`MC*` modules hold the definitions that TLC's configurations need and nothing
else; `*_proofs` modules extend components with their theorems: one component each, but
`Accounts_proofs` has those of `Groups`, `Links`, `Sessions`, `Options` and `Parameters`,
`Content_proofs` those of `Results`, `Content` and `Catalog`, and `Workers_proofs` those of
`ScheduledRefresh`, `SchemaCache`, `Activity`, `Runners`, `Tables` and `Columns`. Definitions named
"Mutant" in a comment are deliberate bugs of the kind the property beside them
should catch; no specification uses them.

**QueryJobs.** One key is enough, since keys of different texts or data sources
never meet. `pc`, `job` and `tries` are the local variables of each call of
`enqueue_query`; each redis command, the broker call and the database commit is a
step. `Watch`, `Get`, `CheckReady`, `RemoveReadyLock`, `Submit`, `ExecOk` /
`ExecFails` and `Return` are the loop body in its order; `GiveUp` is the loop's
condition. `dirty[c]` is redis's mark on a connection whose watched key was
written, and `RemoveReadyLock` sets the caller's own mark, because line 117 uses
another connection. A job goes through `phase`: `Take` (celery reports STARTED),
`Load`, `RunQuery`, `Unlock`, `Store`, `Report`. `Error`, `TimeLimit`, `WorkerLost`,
`ClientLost`, `LockExpires` and `ResultExpires` may happen where the constant
`Faults` allows them. Cancelling is three steps (`Cancel`, `Signal`, `MarkRevoked`),
since the SIGINT and celery's REVOKED mark come from different processes.
`overAtCall` is a history variable for `AlwaysExecutes`.

**JobDesk** is what the callers may rely on. A call takes effect at one instant: it hands
over a job (`Hand`), which becomes the `current` one if there is none (`Register`) or stays
unknown (`Keep`), or it gets another's that is in progress (`Join`). A caller whose SET was
refused may leave its job to itself and look again (`Defer`). `current` may be cleared at any
time, since executors, callers and the timer all delete the key. A job that is
over is "lost" while the backend does not know it; such a job can still be joined, and there
is one only if `MayForget`, that is, if workers may die silently or results expire. The
mapping is by state functions alone (`WorkAt`, `StateAt`, `GivenAt`): a call is holding from
its submission until a GET that finds another's job, and answered at `return`; the test of
`ready()` is the instant at which it joins.

**ScheduledRefresh.** `age[q]` is the time since the execution that
`outdated_queries` would use: the redis entry if there is one, else the latest
result. `Outdated` is the dictionary keyed by hash and data source, in which a
later query replaces an earlier one with the same text; `RefreshOne` uses the text
read by `RefreshBegin`, while `blocked` (pausing and the other reasons to skip) is
read when the query's turn comes. Jobs are those of `QueryJobs` reduced to
what matters here, and a call of `enqueue_query` is one step with the outcomes that
`JobDesk` has for it: it joins a job in progress, even one that is already storing,
or adds one of its own, even if there is another. That `QueryJobs` implements `JobDesk` is
what justifies the single step. The difference that remains is that a call which
loses several tries may leave several jobs behind, where here it adds one. `Start` reads `schedule_failures` and notes the
execution; `Fail` and `Succeed` write the count that was read at the start.
Schedules are plain intervals and the backoff is linear: the instance counts
at most one failure, and the property depends on the delay being finite.

**Schedule.** Instants are records of day, minute and second, with days of
`MinutesPerDay` minutes; `PreviousSlot`, `DaysToAdd`, `NextIteration` and
`WithBackoff` are the lines of `should_schedule_next` in order. `replace(hour,
minute)` keeps the seconds, and so does `PreviousSlot`. `Tick` lets a due query
wait up to `Late` seconds: celery's beat, queues and workers.

**Alerts.** The alerts of one query. A result is the value of the watched column,
an alert's `options` the set of values that trigger it. A task reads the alerts
once (`Begin`), the latest result at its first evaluation (`ReadResult`), and then,
per alert, either has nothing to say (`Skip`) or commits the new state (`Write`, or
`WriteFails` if the row is gone), reads the subscriptions (`LoadSubscriptions`) and
tries one after the other (`Notify`). The default deployment has two workers on the queue, so
tasks overlap, and two of them may announce the same: `RepeatsOverlap` says of every pair of
commits that follow each other when that may be. `writes` is a history variable: the commits,
how many of them the task of each had seen, and to whom each still owes the news.

**Editing.** A page shows a version (`shown`). `Edit` loads the row and compares
the version the client sent, `Commit` and `Stale` are the two outcomes of
`UPDATE ... WHERE version = ...`. `AutoVersion` is the one difference between the
two mappers: `version_id_col` alone (dashboards), or with `version_id_generator`
False (queries). `log` and `seen` are history variables; they are also the
refinement mapping to `EditLog`, where an edit is one step.

**Access.** One dashboard. `rows` counts the permission rows of a grantee and a
grantor, since nothing in the schema keeps a pair from having several. A grant is
`Select` and `Insert`, a revocation one `Delete` over all grantors, whatever
`Select` has seen. `Share` makes a further key; `FindKey` and `Deactivate` are the two
statements of unsharing, the first of which takes any active key, as an SQL `first()`
without an order does. `Lookup` and `Serve` or `NotFound` are the two statements of the
public page. Edits and archiving are single steps here, because `Editing` shows that they
behave so. `shared` and `archived` are history. For `AccessList` a request is a call
that is open until its insertion, its deletion, or the selection that found a row.

**Groups.** `Read` takes the whole array of a user into the request (`change[r].seen`),
`CommitMember` writes the changed copy whole, or nothing if the copy is equal to what was
read (`Written`). `ReadDelete` and `CommitDelete` are `GroupResource.delete`, which does so
for all members at once. `asked` is the groups everybody would have if requests came one
by one, `excused` the users whose array was written from a stale copy, who were given a
group twice, or a group after its deletion: these are the ways in which the code does
lose memberships.

**Links.** Nothing in the schema makes a pair unique, so `rows` counts. Changing `view_only`
uses `one()`, and so does each line of a list: `ListOfGroup` and `GroupsOf` go through a
list whose pairs are looked up one by one.

**Sessions.** A cookie holds what `get_id` makes a digest of; `Accepted` compares it with the
row, as `load_user` does. `Save` is the commit of `UserResource.post` and the renewal
of the session from the request's copy of the row, in which columns that others changed
are old (`expire_on_commit` is off).

**Results.** `Select` and `Store` are the two halves of `store_result`; `ClearQueries`,
`PurgeResults`, `LoadRest` and `Remove` the statements of `DataSource.delete`. `Locked` are
rows that a transaction under way has written, `Valid` the foreign keys. A client may post
`data_source_id` and `latest_query_data_id` of a page it was shown (`View`, `EditQuery`).

**Content.** A removal reads in two steps and commits in a third; what others commit in
between stays (`CommitArchive`), or makes a foreign key fail (`RemovalFails`). Edits may set
whatever the handlers do not take out: `is_archived` of a query or visualization
(`EditQueryRow`, `EditVisualization`), and the query of an alert (`MoveAlert`).

**Catalog.** Each list is a number of rows per object (`RowsOf`): a query linked to two
groups is two rows in the lists that have no `distinct`. `Pages` are the pages that
the database may give for an order with ties. `free` is what the walk may have missed.

**Options.** Typed values are numbers, so that the last one typed is known. A request (`Post`)
and the command `ds edit` (`Command`) read the row and make a copy (`ReadConfig`), which
`SaveConfig` writes; `Masked` and `Updated` are `to_dict` and `update`. `meant` is what was typed
last, `stale` the fields that a save left masked while they changed, or under a type for which
they are no secret: in that case the mask itself is stored.

**Parameters.** A value is a kind (a word, a day, a range, ...), its type any of those of
`_valid`, and definitions are functions from names to types; a name may have a dot, like the
tags of a range's parts. `page` is what is shown, `posting` the request. A page goes on showing
what the dropdown query had: `lost` are the values that a later result has lacked, between
the offer and the post or between the post and the check, and `stopped` says that the data
source was paused or gone (`ChangeSource`) while the request was handled. A request has `Admit`
(the data source), `CheckValue` for each value, then `Reject`, `Miss` or `Execute`.

**Activity.** The steps of `sync_last_active_at` are its redis commands, the load of the row
and the commit. `details` is one JSON column: whoever changes `is_email_verified` writes
`active_at` back as it was read.

**SchemaCache.** A schema is the version of the options that it was asked with. `Ask` and
`Answer` are a request, `LoadSource` and `Refresh` a task. `Consider` is the loop of
`refresh_schemas`: it passes over data sources that are paused, that were on the blacklist when
it began, or of a disabled organization, whose row the session loads once (`OrgOf`). There is
one organization; the blacklist and the organization are changed by whoever operates the
program.

**Runners.** Each driver is a record of what its code says: what happens before its `try`,
which exceptions its clauses take, whether it cancels and closes. `Throw` makes the signal's
exception at any of the places; drivers that wait in a C library get it when the call
returns. In `Handle` the request that cancels a statement may fail itself. A query of Query
Results may run one of redis first (`nested`), which loses what redis29 loses.

**Columns**, **Tables.** Values are types and names sequences, so that a name made by
appending or prefixing can be equal to another. A query of mongodb may say which `fields` are
its columns (`Arranged`), while the rows keep all values; hive's columns are its names as
they come. `Tables` keeps what the catalog has had
since the reading began (`ever`) and what did not change (`kept`).

`MCPages`, `MCAccounts`, `MCWorkers` and `MCSequential` put several of these modules into one run. They
share no variable, and one of them moves in each behaviour (`part`), so that their states add up
and do not multiply.

## 3. Runs

Every property of a passing run has a mutant of the modelled code that violates it.

| run | question | bounds, and why they are enough |
|---|---|---|
| `jobs_faults` | Which jobs can the key name, a call return, and SUCCESS mean, under every fault but cancellation and exceptions, and does a call take effect at one instant (`JobDesk`)? | 2 callers x 2 tries, 4 jobs, so that both callers can fail a try and submit again; symmetric callers and jobs |
| `jobs_cancel` | Do calls end, do returned jobs reach a final state, is a dead job ever returned, when jobs are cancelled or raise errors at any moment? | 2 callers, 2 jobs, 1 try: both callers submit, and each may find the other's job |
| `scheduled_refresh` | Does a scheduled query keep running, and does its backoff end? | 2 queries and 2 texts, which come to coincide and to differ; 2 job slots so that jobs overlap; one query is edited and rescheduled at will, the other stays due. A failure counts once; ages stop where all later ones behave alike |
| `sequential` | Is every slot served once, whatever the delays and failures; what do cancelled queries return and leave behind, do columns describe rows, and is a schema true? | days of 3 minutes of 2 seconds, all daily times, intervals shorter and longer than a day, delays up to half a day, 15 days: two weeks and a day; all drivers with 2 signals each; headers of 3 names, 2 rows, 1 computed column; 4 tables with 1 change |
| `schedule_weekly` (violation) | The same for the weekly case that the code's comment describes | one schedule, Sunday's last minute |
| `alerts_pair` | When is a state announced twice, and is everybody told, with tasks that overlap, edits, deletions and losses? | 2 workers, 1 alert, 2 subscribers, 2 results: two tasks with different data; 3 instants, so that a repetition can be due |
| `alerts_live` | Is every commit news, and do states converge, with a single worker? | 2 alerts, 3 results, rearm time 1 of 3 instants, so that a repetition can be due and not due |
| `pages` | Pages that are behind: is an update of a dashboard lost, and do requests refine atomic edits; do masks keep what they stand for; is what was offered accepted, and what is run filled? | 3 pages and 4 writes of a dashboard: an edit overtaken by an archive and by another edit; 1 data source, 2 types, fields and clients, 2 typed values and 3 saves: two typed values in saves that overlap, and a save of a mask after them; parameters of every type, names with a dot alone and beside another, 1 change by others, which comes before the post, between it and the check, or after |
| `editing_query` (violation) | The same for queries | 2 pages, 3 writes |
| `access_list` | Is the access list a set, and is what visitors see public? | 2 requests, 2 managers, 2 users: two grants of one pair, of different pairs, and a revocation between their steps; 1 key, 1 visitor |
| `accounts` | What do groups, links, sessions, results, content and lists promise when two requests overlap? | two requests, clients, browsers or executors each, of each kind of row the least with which two of them can meet: 1 user and 2 groups in arrays of at most 2; 1 object linked twice at most; 2 users with 3 hashes at most; 2 data sources, queries and results; 2 queries with 2 visualizations, a widget and an alert; 3 objects on pages of 1, with 2 edits |
| `workers` | Does activity reach the database and only move on, and does a cached schema catch up, with tasks that overlap and are lost? | 2 users, 2 sync tasks, 3 instants, 1 loss; 1 data source, 3 versions, 2 tasks, 1 request, the blacklist and the organization at any time |

Bounds in the models, all named in the modules: `MaxTries` (5 in the code), the
finite `Jobs` with `EnoughJobs`; `Slots` with `RoomLeft`, `MaxFailures`, `MaxAge`;
`MaxDay`; `MaxResults`, `MaxTime`; `MaxWrites`; the finite `Keys` of `Access`, which
bound sharing. Its rows need no bound: after a second row of a pair no selection inserts,
so that only requests already past theirs can add one. `MaxLength`, `MaxLinks`, `MaxHash`,
`MaxResults` (with `nextId`), `MaxEdits`, `MaxTyped`, `MaxSaves`, `MaxRevisions`, `MaxRequests`, `MaxTime`,
`MaxLosses`, `MaxVersion`, `MaxErrors`, `MaxSignals`, `MaxColumns`, `MaxRows`, `MaxAdded` and
`MaxChanges` bound the modules of `pages`, `accounts`, `workers` and `sequential`. `Accounts.cfg` uses the same model
values for things of different modules, which keeps the group of permutations small.
Deadlock is not checked: all these
systems may legitimately stop, when a bound is reached or when nobody acts.

`scheduled_refresh` starts from states in which the first query has the first
text. The texts play the same part everywhere, so this loses nothing.

## 4. Fairness

`QueryJobs!Fairness`: a request's thread runs on; celery delivers queued messages,
runs a process it has started and handles control commands; a query ends (or its
time limit ends it, which is a fault of other runs). Users and faults are under no
obligation. `CallsReturn` needs no fairness between callers: the loop is bounded.

`ScheduledRefresh!Fairness`: time passes, the beat keeps sending `refresh_queries`
(every 30 s, `worker.py:16-20`) and a worker runs it to its end, jobs are taken and
end. Weak fairness is enough: a queued job stays queued until a worker takes it.
`KeepsRunning` needs that pausing ends and that the query stays scheduled with its
text, which is its hypothesis; manual runs leave a slot free, because the queue of
the real broker is not bounded.

`Activity!ActivitySpec`: a sync task that runs goes on; that it is killed at its time limit
is `Kill`, which may happen `MaxLosses` times, and its users are excused. A task begins each
minute (`tasks/general.py`, `worker.py`). `SchemaCache!SchemaSpec`: the beat sends
`refresh_schemas`, which goes through its list, tasks run, and a request gets its answer.
`SchemaCatchesUp` needs that pausing, blacklisting and disabling end. `MCWorkers!Spec` states the same fairness of the
steps of the module that moves. `pages`, `accounts` and `sequential` check safety alone, without fairness.

`Alerts!FairSpec`: executors queue the checks of what they stored, and workers run
them.

## 5. Theorems

Every theorem holds for every value of the constants, subject to the modules' named
assumptions. Those that ask for more than the type of a constant are: sets that are finite
because tables and workers are (`CatalogAssumption`, `WorkersAssumption`, and the names of
`ColumnsAssumption`, which also has the types that `guess_type` has and no other); clocks
and identities that have at least one value; markers (`NoJob`, `Gone`, `Never` ...) that are
nothing else; pages that are not empty (`PageSize`); and, of arithmetic, that 2^n is a
natural number (`PowersAssumption`).

**`QueryJobs_proofs`.** `TypeCorrect` is inductive by itself. `LockIsNeverOverwritten`
rests on `CleanMeansAbsent`: a caller between its GET and its EXEC whose
connection is not marked knows that the key is absent. `NoLockOverwrite` alone is
not inductive, since it says nothing of the callers that are about to SET. The
invariant holds because every SET marks all watching connections, so that after
anybody's SET no clean caller is left, and a caller reaches `submit` only from a GET
that found nothing or through its own DELETE. `LockNamesASubmittedJob` and
`EnqueueReturnsASubmittedJob` share `SubmittedInv`: `job` is not None where the
code is past the submission, in particular when a try has failed
(`tries > 0` at the loop's head) - the reason that the fall-through of the loop
never returns None. `SuccessMeansStored` adds that a job about to report "ok" has
committed. `LeftoverLocksAreReady` and `CallsAlwaysExecute` are proved under
`NothingForgotten` (no silently dead worker, no expired result), from `OverIsReady`
(a finished job has a final state) and `FreshInv` (a call only holds a job that was
over at its beginning while it is about to test and delete it). With results
that expire the second is false (section 6).

`DeskIsImplemented` is the refinement of `JobDesk`, for every set of faults. It needs no
further invariant: `SubmittedInv` says that a caller which gives up, or whose EXEC fails, holds a
job (`Keep`, a stutter), and that the job that `ready()` denies was handed over, so that it is
open or lost (`Join`); `CleanMeansAbsent` says that a successful EXEC finds the place empty
(`Register`). `OneCaller` and `OneJob` say how a step of one caller or of one job changes
the mapping, and the lemmas named after steps go through the actions: a `Signal`, an `Error`
or a worker's progress is a stutter, an unlock a `Clear`, a report, a time limit or a mark of
revocation a `Finish`, and only `WorkerLost` and `ResultExpires` can be a `Forget`.

**`Schedule_proofs`.** `NextIsTheNextSlot`: for days and minutes of any length, a
daily query's next iteration is the first instant after the previous one that lies
in the scheduled minute and has the same second. `RunsOncePerSlot` concludes
that two runs are separated by the beginning of a slot, whatever the backoff, by
`PlusIsLater` (adding seconds moves an instant forward, through the carry of seconds
and minutes) and `BackoffDelays`. `KeepsItsInterval` and `DailySlotsAreServed` rest on
`NeverTooLate`: once a query is due, the clock is not past the instant at which it
became due by more than the wait so far. This is inductive only with schedules whose next
iteration is never before their last execution (`Forward`): weekly ones are not among them.
`DailySlotsAreServed` is stated for daily slots, and section 6 has the weekly
counterexample.

**`Editing_proofs`.** `TypeCorrect` holds for both mappers. `NoUpdateIsLost` and
`EditsAreAtomic` assume `AutoVersion`. The invariant says that `version` counts the
writes, and that a page or a request that holds the current version has seen all of
them; without it, equality of versions would say nothing about what was seen,
and this is what fails for queries. `CommitsAreCurrent` makes a commit a `Save`
or an `Overwrite` of `EditLog`; every other step is a `Look` or stutters.

**`Access_proofs`.** `TypeCorrect` includes that only a grant waits for an insertion or
fails, which the refinement needs. `ServedWasPublic` is not inductive alone: it needs
`StaysArchived`, that a visitor whose lookup came after archiving still finds the
dashboard archived, which holds because no edit sets `is_archived`. `ListImplementsSet`
shows the four steps of a call to be `Call`, `Perform`, `Fail`, `Answer` or a stutter of
`AccessList`. Its core is that a user is listed exactly when one of the counts is
positive, so that a second row or a selection which finds one changes nothing, and
a deletion over all grantors takes the user out whatever was inserted.

**`Alerts_proofs`.** `AlertTypesCorrect`, `OnlyOverlapsRepeat` and `NewsIsTold` hold for any number
of alerts, subscribers and results and finitely many workers. The bounds in the types need
`Counted`: for each alert the commits, the running tasks that have it still to do, the queued
checks and those not yet queued are together at most the results; every step moves one unit
from right to left or loses it. `EverybodyIsTold` needs `Owing`, that whoever is owed news is
still subscribed, so that a task that loads the subscriptions finds him. `RepeatsOverlap` needs
to know what is in a row and in the copies of it: the row of an alert has the state and the time
of its last commit, unless that one is such a repetition over a state it had not seen
(`RowsFollow`), and what a task has read is the row as it was after as many commits
as it has seen (`TasksKnowRows`), so that the test in `check_alerts_for_query` compares with the
commit before, if the task had seen it.

**`Accounts_proofs`.** `GroupsFollowRequests` rests on `Exact`: the array of a user who is not
excused has each of the groups asked for once, and nothing else. The set of groups alone is not
inductive, since a removal takes out one occurrence. `WrittenIsWanted` shows that a
commit which spoils nothing writes the array of what is wanted, in each of the three requests
and, for every member, in the deletion of a group. `ListsFailForAReason` rests on `ListOK`,
of the lists that are still open: the pairs that a list has yet to look up are linked exactly
once, unless it has met one of the reasons for which it may fail. `AcceptedIsTyped` rests on `NamesTyped`: the password of
whatever hash a cookie names, or the copy of an edit that will renew it, was typed at that
browser, because neither is ever refreshed from the row. `SessionTypesCorrect` adds that the
hash of a change to come is a new one. A session renewed from an outdated copy names an old
hash and is refused. `MasksKeepSecrets` rests on `SavesAreUpdates`: the options that a save
will write are `Updated` from the row it has read; a field that others have changed since, or
that is masked under a type for which it is no secret, is stale, and every other is either
typed or the row's. `TextsAreFilled` and `OffersAreAccepted` rest on `RequestOK`: a value that
has been checked is noted as invalid or fits the definition that the request has read
(`Fitting`), and a value that a page has offered is allowed by its type, or is in the dropdown
query's result, or was missed by one since it was offered (`Sound`), which is also what
makes it invalid (`AsOffered`). For this a page needs `PageOK`, the same of what it shows. Names
are any, with dots or not, since definitions and values are compared by whole names;
`NamedTagsAreFilled` shows where the tags, which `PartNames` has, still come out blank.

**`Content_proofs`.** `QueriesAreLinkedToLatest` needs of an execution under way that the
queries it has selected, and that nobody wrote since, are just those that match now
(`FoundStillMatch`), and that no two store the same result (`Pending`). `DeletionFailsForAReason` follows a deletion through its
statements: results that are purged have no query of the data source linked to them
(`PurgedAreUnlinked`), and what stands in the way of the last statement came
meanwhile or is of another data source (`NothingInTheWay`). `ArchivedQueriesAreBare` needs
`ReadsAreComplete`: what a removal under way has read is all there is, but for what was
added since, which is recorded as touched. `PagesMissForAReason` has `BehindTheWalk`: an object
that is listed all the time, and not excused, has been shown, or lies at or behind the
place where the next page begins. Its lemmas count the rows ahead of an object in an
ordering. Where a proof needs induction, it is over a set (`Least`: every set of naturals that
is not empty has a least element).

**`Workers_proofs`.** `CancelledQueriesHaveNoData` and `NothingStaysBehind` share `RunnersInv`,
whose core is `RunningIsWaitedFor`: while the statement of a driver that waits or cancels
properly runs, `run_query` is where it waits for the answer or is about to cancel.
`DriversAreKnown` is the case analysis of the table of drivers, once and for all. That the
request which cancels may fail is remembered (`lost`), and a driver that goes on after an
exception is redis29, or Query Results while it runs one of its queries first.
`ActivityMovesOn` has, for each task, what the copies it has read are worth (`SyncOK`): what it
will write for a user who is not excused is a second that was in the hash, and no earlier
than the `active_at` that it has read. `SchemaTypeCorrect` needs that nobody asks with options that are
yet to come (`AsksOK`). `SchemasAreTrue` follows a reading through its walk (`WalkOK`): tables that
nobody changed are to come or are in the schema with all their columns, and
whatever is in it was there at some time of the reading (`Grounded`). `RefreshTypeCorrect` is the
type invariant of `ScheduledRefresh`.

`AnswersAreDescribed` is about names that are made by two recursions, `Fetched` and `Kept`.
`Recursion` shows that functions defined so exist, and `Induction` is what
their values are proved by; both are over sets, since the provers have no induction over
an operator. `NamesStayApart` is the step of `fetch_columns`: a name is as it came or has a number
smaller than the counter, so that an appended counter is new unless some name of the header
is another with a number, which `NamedTwice` excepts. `ColumnsInv` says of every stage what
the property says of the last, and that columns are of strings, which everything fits, until
they are typed. An exception that the proof asked for, and the instance then showed: the
default that `default_value_for_type` has for booleans and dates is a string ("false", ""), so
that objects of redis29 in which such a value is missing do not fit their column.

## 6. Disagreements

- `schedule_weekly`: a weekly query for Sunday 23:59 that is served after midnight,
  the case for which the comment at `models/__init__.py:378-381` was written, misses the
  following slot: line 391 counts the days from `normalized_previous_iteration`, the
  Monday, although line 385 has moved the previous iteration back to Sunday.
- `editing_query`: the check that the comment in `apis/handlers/queries.py:339-341`
  explains has no effect, since `Query.version` never changes.

Two more disagreements are not runs. "Set to zero to always execute"
(`apis/handlers/query_results.py:137-138`) is `AlwaysExecutes`: it is false with
`Faults = {"timeLimit", "resultTTL"}`, when a job was killed and the backend has forgotten it
before the key expired. "Disable anonymous access to a dashboard"
(`apis/handlers/dashboards.py:301-302`) holds only for a dashboard that was shared once, since
`Share` makes a key each time and `FindKey` finds one.

What the properties of `pages`, `accounts`, `workers` and `sequential` except is what the code does not prevent:
memberships lost to stale copies (`excused` of `Groups`), lists that fail because a pair is
linked twice (`twice` of `Links`), data sources that cannot be deleted (`foreign`, `raced`),
additions to an archived query (`touched`), fields that a masked save sets back or to the mask itself
(`stale` of `Options`), tags that stay blank because a value was posted under a name with a dot
(`TextIsFilled`), values that the dropdown query no longer has (`lost` of `Parameters`), activity
that is overwritten (`excused` of `Activity`), columns that later pages of issues, or the fields
chosen in a query of mongodb, lack (`twice`, `fields` of `Columns`), dates and booleans that are
missing in an object (`ColumnsDescribeRows`), tables shown alike (`Tables`), signals that redis29
loses and statements that could not be cancelled (`Runners`). No text of the
repository says otherwise of these, so they are stated as exceptions and not as findings.

## 7. Limits

Only model-checked: liveness (`CallsReturn`, `ReturnedJobsFinish`, `KeepsRunning`,
`FailuresClear`, `StateConverges`, `ActivityIsRecorded`, `SchemaCatchesUp`), which is beyond the
proof system, and `WritesAreNews`, which is for one worker; that several can commit the same
news is what TLC shows if `alerts_pair` is asked for it, and what `RepeatsOverlap`, which is
proved, says more precisely. Every other safety property of a passing run is a theorem,
`NoSlotSkipped` for daily slots. The type
invariant `AccountsTypeOK` is a conjunction over the modules of a run, each
of which has its own theorem. Those of `QueryJobs`, `Schedule`, `Activity`, `SchemaCache`,
`Runners`, `Columns` and `Tables` are only proved.

Not covered by a property: a worker's hard loss between the commit of a result and the
queueing of alert checks, after which alerts wait for the next result (the step is in
`Alerts`, the property `StateConverges` is checked without it); an exception that ends
`refresh_queries` half-way; a scheduled query that never had a result; a scheduled query
with parameters, whose rendered text has another hash.

Abstractions that a reader should know: PostgreSQL runs at READ COMMITTED, so that each
statement sees what was committed before it and a row written by one transaction is
written by another only after its end. Requests that do one statement, or several on rows
that nobody else writes, are one step. `record_event` has no effect
(`apis/handlers/base.py`). The decorators of `permissions.py:55-86` test
`current_user.is_api_user`, a method, and so let every request pass: they are no guards in
the models, while tests that a handler writes out are. Deleting a user by its handler is always refused, and
`UserResetPasswordResource.post` never commits, so neither is an action. A driver's C library
delivers a signal when its call returns. Hive's listing of schemas and of the tables of
each is one listing. `Alerts` has the alerts of one query: that an alert may be moved to another
query, with its state, is in `Content` only. The blacklist of schemas is one redis set and read
when `refresh_schemas` begins. A request with parameters reads its query once, so that an edit
meanwhile counts as one after it.

Not modelled: what a destination sends, serializers, routing, settings, monitoring, uploads
and migrations, which are pure functions or input and output with external systems;
full-text search; folders and snippets, rows that nothing else reads; change tracking, events
and mail, which only append; the command that deletes a user; the shapes of the answers of
elasticsearch, prometheus, influx, graphite and oslc. `PROJECT.json` lists every
component with its reason.

## 8. Plan

1. *Done*: jobs, refresh, schedules, alerts, editing, access; users, groups, sessions,
   results, content, lists, options, parameters, activity, schema cache and query runners.
2. *Done*: a theorem for every safety property that a passing run checks.
3. *Done*: composition of `ScheduledRefresh` with `QueryJobs`, by way of `JobDesk`: the one
   uses its outcomes, the other implements it.
4. The shapes of the answers that `Columns` leaves out.
