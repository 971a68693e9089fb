------------------------------- MODULE Alerts -------------------------------
(***************************************************************************)
(* The alerts of one query: results arrive, an executor queues a           *)
(* check_alerts_for_query task for each, workers run the tasks, users edit *)
(* alerts and subscriptions (redash/tasks/alerts.py, models.Alert, the     *)
(* alert handlers).                                                        *)
(***************************************************************************)
EXTENDS Naturals, Sequences, FiniteSets

CONSTANTS
  Alerts,       \* alerts that exist or may be created
  Workers,      \* celery processes that serve the queue of the check tasks
  Subscribers,  \* users and destinations that may subscribe
  Values,       \* values of the watched column of a result's first row
  NoRow,        \* a result without rows, or without the column
  Rearm,        \* the alerts' rearm time; 0 when it is not set
  MaxResults,   \* bound: number of results
  MaxTime,      \* bound: the clock stops here
  Allowed       \* which of "edit", "delete", "workerLost" may happen

ASSUME RowAssumption == NoRow \notin Values
ASSUME WorkersAssumption == IsFiniteSet(Workers)
ASSUME BoundsAssumption == Rearm \in Nat /\ MaxResults \in Nat /\ MaxTime \in Nat \ {0}

VARIABLES
  now,        \* utcnow()
  results,    \* number of results committed for the query
  latest,     \* the watched value of query.latest_query_data
  unsent,     \* committed results whose executor has not queued the check yet
  queue,      \* number of check tasks waiting in the broker
  alert,      \* rows of the table alerts
  subs,       \* rows of alert_subscriptions: who subscribes to what
  writes,     \* history: the commits of the tasks, and whom they owe the news
  task        \* the workers' local state

resultVars == <<results, latest, unsent>>
vars == <<now, resultVars, queue, alert, subs, writes, task>>

States == {"unknown", "ok", "triggered"}

\* options' op and value are abstracted to the set of values that trigger.
AlertRow == [row : {"none", "live", "gone"}, options : SUBSET Values,
             state : States, last : 0..MaxTime]  \* last = 0: last_triggered_at is null

Idle == [pc |-> "idle"]

Evaluate(value, options) ==
  IF value = NoRow THEN "unknown"
  ELSE IF value \in options THEN "triggered" ELSE "ok"

PassedRearm(seen) == Rearm > 0 /\ seen.last > 0 /\ seen.last + Rearm < now

\* Mutant: a triggered alert is repeated whatever its rearm time.
ShouldNotifyAlways(seen, state) ==
  state # seen.state \/ (seen.state = "triggered" /\ Rearm > 0)

ShouldNotify(seen, state) ==
  state # seen.state \/ (seen.state = "triggered" /\ PassedRearm(seen))

Init ==
  /\ now = 1
  /\ results = 0 /\ unsent = 0 /\ queue = 0
  /\ latest = NoRow
  /\ alert \in [Alerts -> [row : {"live"} \cup (IF "edit" \in Allowed THEN {"none"} ELSE {}),
                           options : SUBSET Values, state : {"unknown"}, last : {0}]]
  /\ subs = [a \in Alerts |-> IF alert[a].row = "live" THEN Subscribers ELSE {}]
  /\ writes = [a \in Alerts |-> <<>>]
  /\ task = [w \in Workers |-> Idle]

-----------------------------------------------------------------------------
(* Results and the tasks they cause                                        *)

Tick ==
  /\ now < MaxTime
  /\ now' = now + 1
  /\ UNCHANGED <<resultVars, queue, alert, subs, writes, task>>

\* store_result and its commit.
NewResult ==
  /\ results < MaxResults
  /\ results' = results + 1
  /\ latest' \in Values \cup {NoRow}
  /\ unsent' = unsent + 1
  /\ UNCHANGED <<now, queue, alert, subs, writes, task>>

\* check_alerts_for_query.delay, after the commit.
QueueCheck ==
  /\ unsent > 0
  /\ unsent' = unsent - 1
  /\ queue' = queue + 1
  /\ UNCHANGED <<now, results, latest, alert, subs, writes, task>>

\* The executor dies between the commit and delay.
ExecutorLost ==
  /\ "workerLost" \in Allowed
  /\ unsent > 0
  /\ unsent' = unsent - 1
  /\ UNCHANGED <<now, results, latest, queue, alert, subs, writes, task>>

-----------------------------------------------------------------------------
(* check_alerts_for_query                                                  *)

\* The session reads the query's alerts once; what it read is what the
\* whole task works with. read is history: the commits made by then.
Begin(w) ==
  /\ task[w].pc = "idle"
  /\ queue > 0
  /\ queue' = queue - 1
  /\ task' = [task EXCEPT ![w] =
       [pc |-> "data", seen |-> alert, read |-> [a \in Alerts |-> Len(writes[a])],
        todo |-> {a \in Alerts : alert[a].row = "live"}]]
  /\ UNCHANGED <<now, resultVars, alert, subs, writes>>

\* The first evaluate() loads latest_query_data, and the session keeps it.
ReadResult(w) ==
  /\ task[w].pc = "data"
  /\ task' = [task EXCEPT ![w] =
       [pc |-> "check", seen |-> @.seen, read |-> @.read, todo |-> @.todo, data |-> latest]]
  /\ UNCHANGED <<now, resultVars, queue, alert, subs, writes>>

NewState(w, a) == Evaluate(task[w].data, task[w].seen[a].options)

Unchanged(w, a) == ~ShouldNotify(task[w].seen[a], NewState(w, a))

\* Nothing to say about this alert.
Skip(w, a) ==
  /\ task[w].pc = "check"
  /\ a \in task[w].todo
  /\ Unchanged(w, a)
  /\ task' = [task EXCEPT ![w].todo = @ \ {a}]
  /\ UNCHANGED <<now, resultVars, queue, alert, subs, writes>>

\* Mutant: the new state is announced and not stored.
WriteTimeOnly(w, a) ==
  /\ task[w].pc = "check"
  /\ a \in task[w].todo
  /\ ~Unchanged(w, a)
  /\ alert[a].row = "live"
  /\ alert' = [alert EXCEPT ![a].last = now]
  /\ writes' = [writes EXCEPT ![a] = Append(@, [old |-> task[w].seen[a].state,
                                               new |-> NewState(w, a), at |-> now,
                                               read |-> task[w].read[a], owed |-> subs[a]])]
  /\ task' = [task EXCEPT ![w] =
       [pc |-> IF task[w].seen[a].state = "unknown" /\ NewState(w, a) = "ok"
               THEN "check" ELSE "load",
        seen |-> @.seen, read |-> @.read, todo |-> @.todo \ {a}, data |-> @.data,
        about |-> a, number |-> Len(writes[a]) + 1, left |-> {}]]
  /\ UNCHANGED <<now, resultVars, queue, subs>>

\* state and last_triggered_at are committed before anybody is notified;
\* from unknown to ok nobody is. A state that is the one the task has read is
\* no change of the object, and the UPDATE leaves the column as it is.
Write(w, a) ==
  /\ task[w].pc = "check"
  /\ a \in task[w].todo
  /\ ~Unchanged(w, a)
  /\ alert[a].row = "live"
  /\ LET old == task[w].seen[a].state
         new == NewState(w, a)
     IN  /\ alert' = [alert EXCEPT ![a].state = IF new = old THEN @ ELSE new, ![a].last = now]
         /\ writes' = [writes EXCEPT ![a] = Append(@, [old |-> old, new |-> new, at |-> now,
                                                      read |-> task[w].read[a],
                                                      owed |-> subs[a]])]
         /\ task' = [task EXCEPT ![w] =
              [pc |-> IF old = "unknown" /\ new = "ok" THEN "check" ELSE "load",
               seen |-> @.seen, read |-> @.read, todo |-> @.todo \ {a}, data |-> @.data,
               about |-> a, number |-> Len(writes[a]) + 1, left |-> {}]]
  /\ UNCHANGED <<now, resultVars, queue, subs>>

\* The row was deleted meanwhile: the UPDATE matches nothing, the exception
\* ends the task and the alerts still to do are not looked at.
WriteFails(w, a) ==
  /\ task[w].pc = "check"
  /\ a \in task[w].todo
  /\ ~Unchanged(w, a)
  /\ alert[a].row = "gone"
  /\ task' = [task EXCEPT ![w] = Idle]
  /\ UNCHANGED <<now, resultVars, queue, alert, subs, writes>>

\* alert.subscriptions is read after the commit.
LoadSubscriptions(w) ==
  /\ task[w].pc = "load"
  /\ task' = [task EXCEPT ![w].pc = "notify", ![w].left = subs[task[w].about]]
  /\ UNCHANGED <<now, resultVars, queue, alert, subs, writes>>

\* The commits of alert a owe the news only to S.
OweOnly(a, S) ==
  [writes EXCEPT ![a] =
     [i \in DOMAIN writes[a] |-> [writes[a][i] EXCEPT !.owed = writes[a][i].owed \cap S]]]

\* Commit n of alert a owes the news to S.
Owe(a, n, S) ==
  [writes EXCEPT ![a] = [writes[a] EXCEPT ![n] = [writes[a][n] EXCEPT !.owed = S]]]

Tried(w, s) ==
  LET a == task[w].about
      n == task[w].number
  IN  writes' = Owe(a, n, writes[a][n].owed \ {s})

\* Mutant: an error at one destination ends the loop.
NotifyUntilError(w, s) ==
  /\ task[w].pc = "notify"
  /\ s \in task[w].left
  /\ Tried(w, s)
  /\ \E left \in {task[w].left \ {s}, {}} : task' = [task EXCEPT ![w].left = left]
  /\ UNCHANGED <<now, resultVars, queue, alert, subs>>

\* One subscription: delivered or not, the loop goes on.
Notify(w, s) ==
  /\ task[w].pc = "notify"
  /\ s \in task[w].left
  /\ Tried(w, s)
  /\ task' = [task EXCEPT ![w].left = @ \ {s}]
  /\ UNCHANGED <<now, resultVars, queue, alert, subs>>

Notified(w) ==
  /\ task[w].pc = "notify"
  /\ task[w].left = {}
  /\ task' = [task EXCEPT ![w].pc = "check"]
  /\ UNCHANGED <<now, resultVars, queue, alert, subs, writes>>

End(w) ==
  /\ task[w].pc = "check"
  /\ task[w].todo = {}
  /\ task' = [task EXCEPT ![w] = Idle]
  /\ UNCHANGED <<now, resultVars, queue, alert, subs, writes>>

\* The process dies or hits the task's time limit; the message is gone.
WorkerLost(w) ==
  /\ "workerLost" \in Allowed
  /\ task[w].pc # "idle"
  /\ task' = [task EXCEPT ![w] = Idle]
  /\ writes' = IF task[w].pc \in {"load", "notify"}
                THEN Owe(task[w].about, task[w].number, {})
                ELSE writes
  /\ UNCHANGED <<now, resultVars, queue, alert, subs>>

TaskStep(w) ==
  \/ Begin(w) \/ ReadResult(w) \/ LoadSubscriptions(w) \/ Notified(w) \/ End(w)
  \/ \E a \in Alerts : Skip(w, a) \/ Write(w, a) \/ WriteFails(w, a)
  \/ \E s \in Subscribers : Notify(w, s)

-----------------------------------------------------------------------------
(* The handlers                                                            *)

\* AlertListResource.post
Create(a, o) ==
  /\ "edit" \in Allowed
  /\ alert[a].row = "none"
  /\ alert' = [alert EXCEPT ![a] =
       [row |-> "live", options |-> o, state |-> "unknown", last |-> 0]]
  /\ UNCHANGED <<now, resultVars, queue, subs, writes, task>>

\* Mutant: an edited alert starts again.
EditForgets(a, o) ==
  /\ "edit" \in Allowed
  /\ alert[a].row = "live"
  /\ alert' = [alert EXCEPT ![a].options = o, ![a].state = "unknown"]
  /\ UNCHANGED <<now, resultVars, queue, subs, writes, task>>

\* AlertResource.post: new options leave state and last_triggered_at alone.
Edit(a, o) ==
  /\ "edit" \in Allowed
  /\ alert[a].row = "live"
  /\ alert' = [alert EXCEPT ![a].options = o]
  /\ UNCHANGED <<now, resultVars, queue, subs, writes, task>>

\* AlertResource.delete, and Query.archive: the subscriptions go with it.
Delete(a) ==
  /\ "delete" \in Allowed
  /\ alert[a].row = "live"
  /\ alert' = [alert EXCEPT ![a].row = "gone"]
  /\ subs' = [subs EXCEPT ![a] = {}]
  /\ writes' = OweOnly(a, {})
  /\ UNCHANGED <<now, resultVars, queue, task>>

Subscribe(a, s) ==
  /\ "edit" \in Allowed
  /\ alert[a].row = "live"
  /\ s \notin subs[a]
  /\ subs' = [subs EXCEPT ![a] = @ \cup {s}]
  /\ UNCHANGED <<now, resultVars, queue, alert, writes, task>>

Unsubscribe(a, s) ==
  /\ "edit" \in Allowed
  /\ s \in subs[a]
  /\ subs' = [subs EXCEPT ![a] = @ \ {s}]
  /\ writes' = OweOnly(a, subs'[a])
  /\ UNCHANGED <<now, resultVars, queue, alert, task>>

-----------------------------------------------------------------------------
Next ==
  \/ Tick \/ NewResult \/ QueueCheck \/ ExecutorLost
  \/ \E w \in Workers : TaskStep(w) \/ WorkerLost(w)
  \/ \E a \in Alerts, o \in SUBSET Values : Create(a, o) \/ Edit(a, o)
  \/ \E a \in Alerts : Delete(a)
  \/ \E a \in Alerts, s \in Subscribers : Subscribe(a, s) \/ Unsubscribe(a, s)

Spec == Init /\ [][Next]_vars

\* Executors and workers are scheduled; results need not keep coming.
FairSpec == Spec /\ WF_vars(QueueCheck) /\ \A w \in Workers : WF_vars(TaskStep(w))

-----------------------------------------------------------------------------
(* Properties                                                              *)

Seen == [Alerts -> AlertRow]
Value == Values \cup {NoRow}
Counts == [Alerts -> Nat]

TypeOK ==
  /\ now \in 1..MaxTime
  /\ results \in 0..MaxResults /\ unsent \in 0..MaxResults /\ queue \in 0..MaxResults
  /\ latest \in Value
  /\ alert \in Seen
  /\ subs \in [Alerts -> SUBSET Subscribers]
  /\ \A a \in Alerts : \A i \in DOMAIN writes[a] :
       writes[a][i] \in [old : States, new : States, at : 1..MaxTime, read : Nat,
                         owed : SUBSET Subscribers]
  /\ \A w \in Workers :
       task[w] \in {Idle}
         \cup [pc : {"data"}, seen : Seen, read : Counts, todo : SUBSET Alerts]
         \cup [pc : {"check"}, seen : Seen, read : Counts, todo : SUBSET Alerts, data : Value]
         \cup [pc : {"check", "load", "notify"}, seen : Seen, read : Counts,
               todo : SUBSET Alerts, data : Value,
               about : Alerts, number : 1..MaxResults, left : SUBSET Subscribers]

\* next says something that prev did not: another state, or "triggered" again
\* after the rearm time.
IsNews(prev, next) ==
  \/ next.new # prev.new
  \/ next.new = "triggered" /\ Rearm > 0 /\ prev.at + Rearm < next.at

\* With one worker on the queue a commit is always news: it changes the
\* alert's state, or repeats "triggered" after the rearm time. Lost workers,
\* edits and deletions do not make an alert repeat itself.
WritesAreNews ==
  \A a \in Alerts : \A i \in 1 .. Len(writes[a]) - 1 : IsNews(writes[a][i], writes[a][i + 1])

\* The task of commit i had read the alert before the commit that precedes it.
OutOfDate(a, i) == writes[a][i].read < i - 1

\* With any number of workers, only tasks that overlap announce an alert's
\* state twice: a commit is news after the one before it (tasks/alerts.py:28-52),
\* unless its task had read the alert before that one was made, or that one
\* repeated "triggered" over the state of a third that its task had not seen,
\* which it announces and leaves in the row.
RepeatsOverlap ==
  \A a \in Alerts : \A i \in 1 .. Len(writes[a]) - 1 :
    \/ IsNews(writes[a][i], writes[a][i + 1])
    \/ OutOfDate(a, i + 1)
    \/ OutOfDate(a, i) /\ writes[a][i].old = writes[a][i].new

\* Everybody who was subscribed when a commit was made, and stayed so, is told
\* of it, unless its worker is lost while it notifies or the step is the silent
\* one from unknown to ok: a failing destination, a deleted alert, a change of
\* the other subscriptions or another task do not keep the news from the rest.
EverybodyIsTold ==
  \A a \in Alerts : \A i \in DOMAIN writes[a] : \A s \in writes[a][i].owed :
    \/ writes[a][i].old = "unknown" /\ writes[a][i].new = "ok"
    \/ \E w \in Workers :
         /\ task[w].pc \in {"load", "notify"}
         /\ task[w].about = a /\ task[w].number = i
         /\ task[w].pc = "notify" => s \in task[w].left

\* With one worker, when results stop coming every alert's state ends up
\* and stays as the latest result says.
StateConverges ==
  <>[](results > 0 => \A a \in Alerts :
         alert[a].state = Evaluate(latest, alert[a].options))

=============================================================================
