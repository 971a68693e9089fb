-------------------------- MODULE ScheduledRefresh --------------------------
(***************************************************************************)
(* The scheduled queries of one data source: the periodic refresh_queries  *)
(* task, the executors it feeds, and the users who edit, reschedule and    *)
(* run the same queries meanwhile (redash/tasks/queries.py,                *)
(* Query.outdated_queries).                                                *)
(*                                                                         *)
(* Schedules are intervals here; what else a schedule can say is the       *)
(* subject of Schedule, and how enqueue_query finds a job that is already  *)
(* there that of QueryJobs: here a call is one step, with the outcomes of  *)
(* JobDesk. Time is kept as the age of each query's last execution.        *)
(***************************************************************************)
EXTENDS Integers

CONSTANTS
  Queries,      \* ids of the queries, which order them
  Texts,        \* query texts (their hashes)
  Slots,        \* places for jobs in the broker and the workers
  NoQuery,      \* scheduled_query of a job that a user started
  Never,        \* the age of what has not happened
  Interval,     \* the interval of all schedules
  MaxFailures,  \* bound: schedule_failures is counted up to here
  Edited,       \* the queries that users edit and reschedule
  Blockable     \* whether refreshing may be disabled and enabled

ASSUME QueriesAssumption == Queries \subseteq Nat /\ NoQuery \notin Queries
ASSUME NeverAssumption == Never \notin Nat
ASSUME BoundsAssumption == Interval \in Nat /\ MaxFailures \in Nat

VARIABLES
  query,    \* rows of the table queries
  age,      \* time since sq:executed_at, or else since the latest result
  tracked,  \* the queries that have an entry in sq:executed_at
  blocked,  \* refreshing is disabled, the data source paused or deleted, or the org disabled
  refresh,  \* what the running refresh_queries still has to look at
  job       \* what the broker and the workers hold

vars == <<query, age, tracked, blocked, refresh, job>>

\* 2 ^ failures minutes in the code; in units of the model's clock, for which
\* it matters that more failures delay more.
Backoff(failures) == failures

\* Bound: older executions are all alike.
MaxAge == Interval + Backoff(MaxFailures) + 1

Row == [text : Texts, scheduled : BOOLEAN, failures : 0 .. MaxFailures]

Free == [phase |-> "free"]
Waiting == [phase : {"queued"}, text : Texts, by : Queries \cup {NoQuery}]
Busy == [phase : {"running", "storing"}, text : Texts, by : Queries \cup {NoQuery},
         failures : 0 .. MaxFailures]

Init ==
  /\ query \in [Queries -> [text : Texts, scheduled : {TRUE}, failures : {0}]]
  /\ age = [q \in Queries |-> Never]
  /\ tracked = {}
  /\ blocked = FALSE
  /\ refresh = {}
  /\ job = [s \in Slots |-> Free]

Tick ==
  /\ age' = [q \in Queries |-> IF age[q] \in 0 .. MaxAge - 1 THEN age[q] + 1 ELSE age[q]]
  /\ age' # age
  /\ UNCHANGED <<query, tracked, blocked, refresh, job>>

-----------------------------------------------------------------------------
(* enqueue_query                                                           *)

\* A caller may find the key of a job whose executor has not ended: executors
\* remove the key before they store, but callers may set it later than that.
Joinable(s, text) == job[s] # Free /\ job[s].text = text

\* What JobDesk promises of a call and QueryJobs implements: the caller joins a
\* job in progress, or hands over one of its own, even if there is another.
Enqueue(text, by) ==
  \/ /\ \E s \in Slots : Joinable(s, text)
     /\ UNCHANGED job
  \/ \E s \in Slots :
       /\ job[s] = Free
       /\ job' = [job EXCEPT ![s] = [phase |-> "queued", text |-> text, by |-> by]]

-----------------------------------------------------------------------------
(* refresh_queries                                                         *)

\* A query without a result and without an execution is taken to have been
\* executed now.
Due(q) ==
  /\ query[q].scheduled
  /\ age[q] # Never
  /\ age[q] > Interval + Backoff(query[q].failures)

\* Mutant: the key of the dict leaves the hash out.
OutdatedByDataSource ==
  {[id |-> q, text |-> query[q].text] : q \in
     {q \in Queries : Due(q) /\ \A r \in Queries : r > q => ~Due(r)}}

\* Of due queries with the same text the last one stands for all. The task
\* keeps the rows as it read them.
Outdated ==
  {[id |-> q, text |-> query[q].text] : q \in
     {q \in Queries : Due(q) /\ \A r \in Queries :
        r > q /\ Due(r) => query[r].text # query[q].text}}

RefreshBegin ==
  /\ refresh = {}
  /\ Outdated # {}
  /\ refresh' = Outdated
  /\ UNCHANGED <<query, age, tracked, blocked, job>>

RefreshOne ==
  /\ \E o \in refresh :
       /\ refresh' = refresh \ {o}
       /\ IF blocked THEN UNCHANGED job ELSE Enqueue(o.text, o.id)
  /\ UNCHANGED <<query, age, tracked, blocked>>

RefreshStep == RefreshBegin \/ RefreshOne

-----------------------------------------------------------------------------
(* The executor                                                            *)

\* execute_query reads the scheduled query's row and notes the execution.
Start(s) ==
  /\ job[s].phase = "queued"
  /\ LET q == job[s].by
     IN  /\ job' = [job EXCEPT ![s] =
              [phase |-> "running", text |-> @.text, by |-> q,
               failures |-> IF q = NoQuery THEN 0 ELSE query[q].failures]]
         /\ age' = IF q = NoQuery THEN age ELSE [age EXCEPT ![q] = 0]
         /\ tracked' = IF q = NoQuery THEN tracked ELSE tracked \cup {q}
  /\ UNCHANGED <<query, blocked, refresh>>

\* run_query, and _unlock.
RunQuery(s) ==
  /\ job[s].phase = "running"
  /\ job' = [job EXCEPT ![s].phase = "storing"]
  /\ UNCHANGED <<query, age, tracked, blocked, refresh>>

\* The merged row has the failures that were read at the start.
SetFailures(s, n) ==
  query' = IF job[s].by = NoQuery THEN query
           ELSE [query EXCEPT ![job[s].by].failures = n]

\* Mutant: a success leaves schedule_failures alone.
SucceedQuietly(s) ==
  /\ job[s].phase = "storing"
  /\ age' = [q \in Queries |->
       IF query[q].text = job[s].text /\ q \notin tracked THEN 0 ELSE age[q]]
  /\ job' = [job EXCEPT ![s] = Free]
  /\ UNCHANGED <<query, tracked, blocked, refresh>>

\* Mutant: a success takes one failure back.
SucceedOnce(s) ==
  /\ job[s].phase = "storing"
  /\ SetFailures(s, job[s].failures - 1)
  /\ age' = [q \in Queries |->
       IF query[q].text = job[s].text /\ q \notin tracked THEN 0 ELSE age[q]]
  /\ job' = [job EXCEPT ![s] = Free]
  /\ UNCHANGED <<tracked, blocked, refresh>>

\* store_result gives the result to every query with the text.
Succeed(s) ==
  /\ job[s].phase = "storing"
  /\ IF job[s].failures > 0 THEN SetFailures(s, 0) ELSE UNCHANGED query
  /\ age' = [q \in Queries |->
       IF query[q].text = job[s].text /\ q \notin tracked THEN 0 ELSE age[q]]
  /\ job' = [job EXCEPT ![s] = Free]
  /\ UNCHANGED <<tracked, blocked, refresh>>

Fail(s) ==
  /\ job[s].phase = "storing"
  /\ SetFailures(s, IF job[s].failures < MaxFailures THEN job[s].failures + 1 ELSE MaxFailures)
  /\ job' = [job EXCEPT ![s] = Free]
  /\ UNCHANGED <<age, tracked, blocked, refresh>>

JobStep(s) == Start(s) \/ RunQuery(s) \/ Succeed(s) \/ Fail(s)

-----------------------------------------------------------------------------
(* The users                                                               *)

\* Bound: the broker's queue is finite here, and users leave room in it.
RoomLeft == \E s, t \in Slots : s # t /\ job[s] = Free /\ job[t] = Free

\* A user runs a text; nobody does so while the data source is paused.
ManualRun(text) ==
  /\ ~blocked
  /\ RoomLeft
  /\ Enqueue(text, NoQuery)
  /\ UNCHANGED <<query, age, tracked, blocked, refresh>>

\* Assigning query_text resets schedule_failures (gen_query_hash).
Edit(q, text) ==
  /\ q \in Edited
  /\ query' = [query EXCEPT ![q].text = text, ![q].failures = 0]
  /\ UNCHANGED <<age, tracked, blocked, refresh, job>>

\* The schedule is set, or is cleared by an edit, by archiving or by the
\* date of its end.
Reschedule(q) ==
  /\ q \in Edited
  /\ query' = [query EXCEPT ![q].scheduled = ~@]
  /\ UNCHANGED <<age, tracked, blocked, refresh, job>>

Block ==
  /\ Blockable
  /\ blocked' = ~blocked
  /\ UNCHANGED <<query, age, tracked, refresh, job>>

Next ==
  \/ Tick \/ RefreshStep \/ Block
  \/ \E s \in Slots : JobStep(s)
  \/ \E text \in Texts : ManualRun(text)
  \/ \E q \in Queries : Reschedule(q) \/ \E text \in Texts : Edit(q, text)

Spec == Init /\ [][Next]_vars

\* The beat keeps sending refresh_queries, a worker runs it to its end, jobs
\* are taken and end. Users are not obliged to do anything.
Fairness ==
  /\ WF_vars(Tick) /\ WF_vars(RefreshStep)
  /\ \A s \in Slots : WF_vars(JobStep(s))

FairSpec == Spec /\ Fairness

-----------------------------------------------------------------------------
(* Properties                                                              *)

TypeOK ==
  /\ query \in [Queries -> Row]
  /\ age \in [Queries -> (0 .. MaxAge) \cup {Never}]
  /\ tracked \subseteq Queries
  /\ blocked \in BOOLEAN
  /\ refresh \subseteq [id : Queries, text : Texts]
  /\ job \in [Slots -> {Free} \cup Waiting \cup Busy]

Runnable(q, text) ==
  query[q].scheduled /\ query[q].text = text /\ age[q] # Never /\ ~blocked

\* A query that stays scheduled and has had a first result is executed again
\* and again, or another job executes its text: whatever was queued when,
\* whoever runs or edits other queries, however often it failed.
KeepsRunning ==
  \A q \in Queries, text \in Texts :
    <>[]Runnable(q, text)
      => []<>(\E s \in Slots : job[s].phase = "storing" /\ job[s].text = text)

OnlyScheduled(q, text) ==
  \A s \in Slots : job[s] # Free /\ job[s].text = text => job[s].by = q

RunFails(q) == \E s \in Slots : job[s] # Free /\ job[s].by = q /\ Fail(s)

\* When a query's runs no longer fail its backoff goes away for good, although
\* executors write the count that they read when they started.
FailuresClear ==
  \A q \in Queries, text \in Texts :
    /\ <>[](Runnable(q, text) /\ OnlyScheduled(q, text))
    /\ <>[][~RunFails(q)]_vars
    => <>[](query[q].failures = 0)

=============================================================================
