----------------------------- MODULE QueryJobs -----------------------------
(***************************************************************************)
(* One query text on one data source: the redis key that deduplicates its  *)
(* jobs, the requests that call enqueue_query, the celery jobs they        *)
(* submit and the executors that run them (redash/tasks/queries.py).       *)
(* Keys of other queries never meet this one, so one key is enough.        *)
(*                                                                         *)
(* Every redis command, broker call and database commit is a step of its   *)
(* own: the interleavings of requests, workers, cancellations and timers   *)
(* are the subject of the module.                                          *)
(***************************************************************************)
EXTENDS Naturals, FiniteSets

CONSTANTS
  Clients,   \* request handlers and the refresh_queries task: callers of enqueue_query
  Jobs,      \* celery task ids, each submitted at most once
  NoJob,     \* None, and the absent redis key
  MaxTries,  \* the bound of the retry loop (5 in the code)
  Faults     \* which of FaultKinds the environment may inject

FaultKinds ==
  { "cancel",       \* DELETE /api/jobs/<id>
    "error",        \* an exception in the executor outside query_runner.run_query
    "timeLimit",    \* celery's hard time limit
    "workerLost",   \* the worker's process or machine dies
    "clientLost",   \* the caller of enqueue_query dies, or loses redis or the broker
    "lockTTL",      \* JOB_EXPIRY_TIME passes
    "resultTTL" }   \* CELERY_RESULT_EXPIRES passes

ASSUME NoJobAssumption == NoJob \notin Jobs
ASSUME MaxTriesAssumption == MaxTries \in Nat \ {0}
ASSUME FaultsAssumption == Faults \subseteq FaultKinds

VARIABLES
  lock,       \* value of the redis key query_hash_job:<ds>:<hash>
  pc,         \* where each caller is in enqueue_query
  job,        \* its local variable `job'
  tries,      \* its local variable `try_count'
  dirty,      \* redis: the watched key was written since this caller's WATCH
  overAtCall, \* history: the jobs that were over when the call began
  phase,      \* where each job is on its way through broker and executor
  status,     \* the job's state in the celery result backend
  outcome,    \* what the executor is about to report
  revoke,     \* progress of a revoke(terminate=True) command for the job
  stored      \* jobs whose query result has been committed

clientVars == <<pc, job, tries, overAtCall>>
jobVars == <<phase, status, outcome, revoke, stored>>
vars == <<lock, dirty, clientVars, jobVars>>

PC == {"idle", "loop", "get", "ready", "delete", "submit", "exec", "return"}
Watching == {"get", "ready", "delete", "submit", "exec"}
Phase == {"new", "queued", "init", "query", "unlock", "store", "report", "over"}
Running == {"init", "query", "unlock", "store", "report"}
Status == {"PENDING", "STARTED", "SUCCESS", "FAILURE", "REVOKED"}

\* AsyncResult.ready(): the backend knows a final state of the job.
Ready(j) == status[j] \in {"SUCCESS", "FAILURE", "REVOKED"}

\* A write to the key: redis marks every connection that watches it.
TouchLock == dirty' = [c \in Clients |-> dirty[c] \/ pc[c] \in Watching]

\* DEL of the key. Deleting an absent key is no write.
DeleteKey ==
  /\ lock' = NoJob
  /\ IF lock = NoJob THEN UNCHANGED dirty ELSE TouchLock

Init ==
  /\ lock = NoJob
  /\ pc = [c \in Clients |-> "idle"]
  /\ job = [c \in Clients |-> NoJob]
  /\ tries = [c \in Clients |-> 0]
  /\ dirty = [c \in Clients |-> FALSE]
  /\ overAtCall = [c \in Clients |-> {}]
  /\ phase = [j \in Jobs |-> "new"]
  /\ status = [j \in Jobs |-> "PENDING"]
  /\ outcome = [j \in Jobs |-> "none"]
  /\ revoke = [j \in Jobs |-> "no"]
  /\ stored = {}

-----------------------------------------------------------------------------
(* enqueue_query                                                           *)

Goto(c, label) == pc' = [pc EXCEPT ![c] = label]

\* Bound of the model: a call starts only while the finite set Jobs holds
\* enough unused ids for every call in progress to fail all its tries.
EnoughJobs(c) ==
  LET calls == {d \in Clients : pc[d] # "idle"} \cup {c}
      fresh == {j \in Jobs : phase[j] = "new"}
  IN  Cardinality(fresh) >= MaxTries * Cardinality(calls)

Call(c) ==
  /\ pc[c] = "idle"
  /\ EnoughJobs(c)
  /\ Goto(c, "loop")
  /\ tries' = [tries EXCEPT ![c] = 0]
  /\ job' = [job EXCEPT ![c] = NoJob]
  /\ overAtCall' = [overAtCall EXCEPT ![c] = {j \in Jobs : phase[j] = "over"}]
  /\ UNCHANGED <<lock, dirty, jobVars>>

Watch(c) ==
  /\ pc[c] = "loop"
  /\ tries[c] < MaxTries
  /\ tries' = [tries EXCEPT ![c] = @ + 1]
  /\ dirty' = [dirty EXCEPT ![c] = FALSE]
  /\ Goto(c, "get")
  /\ UNCHANGED <<lock, job, overAtCall, jobVars>>

\* Mutant: the bound of the loop is missed by one.
GiveUpTooLate(c) ==
  /\ pc[c] = "loop"
  /\ tries[c] > MaxTries
  /\ Goto(c, "return")
  /\ UNCHANGED <<lock, dirty, job, tries, overAtCall, jobVars>>

\* The while condition fails: return whatever the last try left in `job'.
GiveUp(c) ==
  /\ pc[c] = "loop"
  /\ tries[c] >= MaxTries
  /\ Goto(c, "return")
  /\ UNCHANGED <<lock, dirty, job, tries, overAtCall, jobVars>>

\* A key that is absent leaves `job' as an earlier try set it.
Get(c) ==
  /\ pc[c] = "get"
  /\ \/ /\ lock # NoJob
        /\ job' = [job EXCEPT ![c] = lock]
        /\ Goto(c, "ready")
     \/ /\ lock = NoJob
        /\ Goto(c, IF job[c] = NoJob THEN "submit" ELSE "return")
        /\ UNCHANGED job
  /\ UNCHANGED <<lock, dirty, tries, overAtCall, jobVars>>

\* Mutant: a found job is returned without looking at its state.
CheckNothing(c) ==
  /\ pc[c] = "ready"
  /\ Goto(c, "return")
  /\ UNCHANGED <<lock, dirty, job, tries, overAtCall, jobVars>>

CheckReady(c) ==
  /\ pc[c] = "ready"
  /\ Goto(c, IF Ready(job[c]) THEN "delete" ELSE "return")
  /\ UNCHANGED <<lock, dirty, job, tries, overAtCall, jobVars>>

\* Mutant: `job' is not reset after the deletion, and is returned.
RemoveKeepsJob(c) ==
  /\ pc[c] = "delete"
  /\ DeleteKey
  /\ Goto(c, "return")
  /\ UNCHANGED <<job, tries, overAtCall, jobVars>>

\* redis_connection.delete, not pipe.delete: it is sent outside the
\* transaction and invalidates the caller's own WATCH.
RemoveReadyLock(c) ==
  /\ pc[c] = "delete"
  /\ DeleteKey
  /\ job' = [job EXCEPT ![c] = NoJob]
  /\ Goto(c, "submit")
  /\ UNCHANGED <<tries, overAtCall, jobVars>>

\* Mutant: the job is sent only after the key is set.
SubmitAfterSet(c) ==
  /\ pc[c] = "submit"
  /\ \E j \in Jobs :
       /\ phase[j] = "new"
       /\ job' = [job EXCEPT ![c] = j]
  /\ Goto(c, "exec")
  /\ UNCHANGED <<lock, dirty, tries, overAtCall, jobVars>>

\* execute_query.apply_async, before the transaction that sets the key.
Submit(c) ==
  /\ pc[c] = "submit"
  /\ \E j \in Jobs :
       /\ phase[j] = "new"
       /\ phase' = [phase EXCEPT ![j] = "queued"]
       /\ job' = [job EXCEPT ![c] = j]
  /\ Goto(c, "exec")
  /\ UNCHANGED <<lock, dirty, tries, overAtCall, status, outcome, revoke, stored>>

\* Mutant: SET without WATCH.
ExecUnwatched(c) ==
  /\ pc[c] = "exec"
  /\ lock' = job[c]
  /\ TouchLock
  /\ Goto(c, "return")
  /\ UNCHANGED <<job, tries, overAtCall, jobVars>>

\* pipe.execute: MULTI, SET key job.id EX JOB_EXPIRY_TIME, EXEC.
ExecOk(c) ==
  /\ pc[c] = "exec"
  /\ ~dirty[c]
  /\ lock' = job[c]
  /\ TouchLock
  /\ Goto(c, "return")
  /\ UNCHANGED <<job, tries, overAtCall, jobVars>>

\* Mutant: `job' is reset before the next try.
ExecFailsDropsJob(c) ==
  /\ pc[c] = "exec"
  /\ dirty[c]
  /\ Goto(c, "loop")
  /\ job' = [job EXCEPT ![c] = NoJob]
  /\ UNCHANGED <<lock, dirty, tries, overAtCall, jobVars>>

\* WatchError: the job just submitted stays in `job' and in the broker.
ExecFails(c) ==
  /\ pc[c] = "exec"
  /\ dirty[c]
  /\ Goto(c, "loop")
  /\ UNCHANGED <<lock, dirty, job, tries, overAtCall, jobVars>>

Return(c) ==
  /\ pc[c] = "return"
  /\ Goto(c, "idle")
  /\ job' = [job EXCEPT ![c] = NoJob]
  /\ tries' = [tries EXCEPT ![c] = 0]
  /\ dirty' = [dirty EXCEPT ![c] = FALSE]
  /\ overAtCall' = [overAtCall EXCEPT ![c] = {}]
  /\ UNCHANGED <<lock, jobVars>>

\* The call ends with an exception or its process dies, at any point.
ClientLost(c) ==
  /\ "clientLost" \in Faults
  /\ pc[c] \notin {"idle", "return"}
  /\ Goto(c, "idle")
  /\ job' = [job EXCEPT ![c] = NoJob]
  /\ tries' = [tries EXCEPT ![c] = 0]
  /\ dirty' = [dirty EXCEPT ![c] = FALSE]
  /\ overAtCall' = [overAtCall EXCEPT ![c] = {}]
  /\ UNCHANGED <<lock, jobVars>>

ClientStep(c) ==
  \/ Watch(c) \/ GiveUp(c) \/ Get(c) \/ CheckReady(c) \/ RemoveReadyLock(c)
  \/ Submit(c) \/ ExecOk(c) \/ ExecFails(c) \/ Return(c)

-----------------------------------------------------------------------------
(* The celery worker and QueryExecutor                                     *)

At(j, p) == phase[j] = p
Advance(j, p) == phase' = [phase EXCEPT ![j] = p]
SetStatus(j, s) == status' = [status EXCEPT ![j] = s]

\* A worker takes the message (acknowledged before execution) and, with
\* track_started, reports STARTED.
Take(j) ==
  /\ At(j, "queued")
  /\ Advance(j, "init")
  /\ SetStatus(j, "STARTED")
  /\ UNCHANGED <<lock, dirty, clientVars, outcome, revoke, stored>>

\* A worker that knows the job was revoked drops it unexecuted: no unlock.
TakeRevoked(j) ==
  /\ At(j, "queued")
  /\ revoke[j] = "asked"
  /\ Advance(j, "over")
  /\ SetStatus(j, "REVOKED")
  /\ UNCHANGED <<lock, dirty, clientVars, outcome, revoke, stored>>

\* QueryExecutor.__init__ and the first lines of run.
Load(j) ==
  /\ At(j, "init")
  /\ Advance(j, "query")
  /\ UNCHANGED <<lock, dirty, clientVars, status, outcome, revoke, stored>>

\* query_runner.run_query; its exceptions are caught and become an error.
RunQuery(j) ==
  /\ At(j, "query")
  /\ Advance(j, "unlock")
  /\ \E o \in {"ok", "failed"} : outcome' = [outcome EXCEPT ![j] = o]
  /\ UNCHANGED <<lock, dirty, clientVars, status, revoke, stored>>

\* _unlock deletes the key whatever job it names, and does so before the
\* result is stored.
Unlock(j) ==
  /\ At(j, "unlock")
  /\ DeleteKey
  /\ Advance(j, "store")
  /\ UNCHANGED <<clientVars, status, outcome, revoke, stored>>

\* Mutant: the commit is left to the end of the task.
StoreUncommitted(j) ==
  /\ At(j, "store")
  /\ Advance(j, "report")
  /\ UNCHANGED <<lock, dirty, clientVars, status, outcome, revoke, stored>>

\* Success: store_result and commit. Failure: schedule_failures and commit.
Store(j) ==
  /\ At(j, "store")
  /\ Advance(j, "report")
  /\ stored' = IF outcome[j] = "ok" THEN stored \cup {j} ELSE stored
  /\ UNCHANGED <<lock, dirty, clientVars, status, outcome, revoke>>

\* Mutant: the task ends without a report to the result backend.
ReportNothing(j) ==
  /\ At(j, "report")
  /\ Advance(j, "over")
  /\ UNCHANGED <<lock, dirty, clientVars, status, outcome, revoke, stored>>

\* run returns the result's id, or raises QueryExecutionError.
Report(j) ==
  /\ At(j, "report")
  /\ Advance(j, "over")
  /\ SetStatus(j, IF outcome[j] = "ok" THEN "SUCCESS" ELSE "FAILURE")
  /\ UNCHANGED <<lock, dirty, clientVars, outcome, revoke, stored>>

\* An exception leaves run: the steps that were still to come, _unlock and
\* the commit among them, do not happen.
Abandon(j) ==
  /\ phase[j] \in Running \ {"query"}
  /\ outcome[j] # "failed" \/ phase[j] # "report"
  /\ Advance(j, "report")
  /\ outcome' = [outcome EXCEPT ![j] = "failed"]
  /\ UNCHANGED <<lock, dirty, clientVars, status, stored>>

Error(j) ==
  /\ "error" \in Faults
  /\ Abandon(j)
  /\ UNCHANGED revoke

JobStep(j) ==
  \/ Take(j) \/ TakeRevoked(j) \/ Load(j) \/ RunQuery(j) \/ Unlock(j)
  \/ Store(j) \/ Report(j)

-----------------------------------------------------------------------------
(* Cancellation: revoke(terminate=True, signal='SIGINT')                    *)

\* JobResource.delete: the command is broadcast to the workers.
Cancel(j) ==
  /\ "cancel" \in Faults
  /\ phase[j] \notin {"new", "over"}
  /\ revoke[j] = "no"
  /\ revoke' = [revoke EXCEPT ![j] = "asked"]
  /\ UNCHANGED <<lock, dirty, clientVars, phase, status, outcome, stored>>

\* SIGINT reaches the executor's process: run_query turns it into an error,
\* elsewhere it is an exception, and before the handler is installed it is lost.
Signal(j) ==
  /\ revoke[j] = "asked"
  /\ phase[j] \in Running
  /\ revoke' = [revoke EXCEPT ![j] = "signalled"]
  /\ \/ /\ At(j, "query")
        /\ Advance(j, "unlock")
        /\ outcome' = [outcome EXCEPT ![j] = "failed"]
        /\ UNCHANGED <<lock, dirty, clientVars, status, stored>>
     \/ Abandon(j)
     \/ /\ phase[j] \in {"init", "report"}
        /\ UNCHANGED <<lock, dirty, clientVars, phase, status, outcome, stored>>

\* The worker's main process marks the job, with no regard to what the
\* executor has reported or will report.
MarkRevoked(j) ==
  /\ revoke[j] = "signalled"
  /\ revoke' = [revoke EXCEPT ![j] = "marked"]
  /\ SetStatus(j, "REVOKED")
  /\ UNCHANGED <<lock, dirty, clientVars, phase, outcome, stored>>

RevokeStep(j) == Signal(j) \/ MarkRevoked(j)

-----------------------------------------------------------------------------
(* Timers and losses                                                       *)

TimeLimit(j) ==
  /\ "timeLimit" \in Faults
  /\ phase[j] \in Running
  /\ Advance(j, "over")
  /\ SetStatus(j, "FAILURE")
  /\ UNCHANGED <<lock, dirty, clientVars, outcome, revoke, stored>>

\* A dead child process is reported by its parent; a dead machine is not.
WorkerLost(j) ==
  /\ "workerLost" \in Faults
  /\ phase[j] \in Running
  /\ Advance(j, "over")
  /\ \E s \in {status[j], "FAILURE"} : SetStatus(j, s)
  /\ UNCHANGED <<lock, dirty, clientVars, outcome, revoke, stored>>

\* Whether the expiry of a watched key fails the EXEC depends on redis's version.
LockExpires ==
  /\ "lockTTL" \in Faults
  /\ lock # NoJob
  /\ lock' = NoJob
  /\ TouchLock \/ UNCHANGED dirty
  /\ UNCHANGED <<clientVars, jobVars>>

\* The backend forgets the job: AsyncResult reads an absent key as PENDING.
ResultExpires(j) ==
  /\ "resultTTL" \in Faults
  /\ status[j] # "PENDING"
  /\ SetStatus(j, "PENDING")
  /\ UNCHANGED <<lock, dirty, clientVars, phase, outcome, revoke, stored>>

-----------------------------------------------------------------------------
Next ==
  \/ \E c \in Clients : Call(c) \/ ClientStep(c) \/ ClientLost(c)
  \/ \E j \in Jobs : \/ JobStep(j) \/ Error(j) \/ Cancel(j) \/ RevokeStep(j)
                     \/ TimeLimit(j) \/ WorkerLost(j) \/ ResultExpires(j)
  \/ LockExpires

Spec == Init /\ [][Next]_vars

\* A request's thread and a worker's process are scheduled, queued messages
\* are delivered, control commands are handled, and a query ends. Calls,
\* cancellations and faults are never obliged to happen.
Fairness ==
  /\ \A c \in Clients : WF_vars(ClientStep(c))
  /\ \A j \in Jobs : WF_vars(JobStep(j)) /\ WF_vars(RevokeStep(j))

FairSpec == Spec /\ Fairness

-----------------------------------------------------------------------------
(* Properties                                                              *)

TypeOK ==
  /\ lock \in Jobs \cup {NoJob}
  /\ pc \in [Clients -> PC]
  /\ job \in [Clients -> Jobs \cup {NoJob}]
  /\ tries \in [Clients -> 0..MaxTries]
  /\ dirty \in [Clients -> BOOLEAN]
  /\ overAtCall \in [Clients -> SUBSET Jobs]
  /\ phase \in [Jobs -> Phase]
  /\ status \in [Jobs -> Status]
  /\ outcome \in [Jobs -> {"none", "ok", "failed"}]
  /\ revoke \in [Jobs -> {"no", "asked", "signalled", "marked"}]
  /\ stored \subseteq Jobs

\* The key only ever names a job that was handed to the broker: apply_async
\* comes before SET, and a caller whose SET is refused leaves no trace in it.
LockNamesSubmittedJob == lock # NoJob => phase[lock] # "new"

\* enqueue_query never answers None, whatever the races and however many
\* tries fail: the job it returns is in the broker (run_query calls
\* job.to_dict() without a test).
ReturnsSubmittedJob ==
  \A c \in Clients :
    pc[c] = "return" => job[c] \in Jobs /\ phase[job[c]] # "new"

\* WATCH, MULTI and EXEC do their work: no caller's SET replaces a job that
\* is named by the key. The key goes from one job to another only through
\* a deletion.
NoLockOverwrite == [][lock # NoJob => lock' \in {lock, NoJob}]_vars

\* A client that reads SUCCESS finds the result: the commit comes first.
SuccessIsStored == \A j \in Jobs : status[j] = "SUCCESS" => j \in stored

\* POST /api/queries/<id>/results with max_age 0 is documented to "always
\* execute": no call is answered with a job that was over when it began.
AlwaysExecutes ==
  \A c \in Clients : pc[c] = "return" => job[c] \notin overAtCall[c]

\* A key left behind by a job that is over can be recognised and removed,
\* since the backend says that the job is ready.
LeftoverLockIsReady ==
  lock # NoJob /\ phase[lock] = "over" => Ready(lock)

\* Every call of enqueue_query comes to an end.
CallsReturn == \A c \in Clients : pc[c] # "idle" ~> pc[c] = "idle"

\* The job that a call returns reaches a final state: the browser's polling
\* of /api/jobs/<id> ends.
ReturnedJobsFinish ==
  \A c \in Clients : \A j \in Jobs :
    (pc[c] = "return" /\ job[c] = j) ~> Ready(j)

-----------------------------------------------------------------------------
(* The abstract specification                                              *)

\* The progress of a job in phase p, as far as it can be known: one that is
\* over without a final state in the backend is lost.
WorkAt(p, ready) ==
  CASE p = "new"             -> "new"
    [] p = "over" /\ ready  -> "over"
    [] p = "over" /\ ~ready -> "lost"
    [] OTHER                 -> "open"

\* A caller at p with j in `job' has submitted it and met no other's.
Holds(p, j) == p = "exec" \/ (p \in {"loop", "get"} /\ j # NoJob)

StateAt(p, j) ==
  CASE p = "idle"   -> "none"
    [] p = "return" -> "answered"
    [] Holds(p, j)  -> "holding"
    [] OTHER        -> "asking"

GivenAt(p, j) == IF Holds(p, j) \/ p = "return" THEN j ELSE NoJob

\* The refinement mapping: the key names the current job.
Works == [j \in Jobs |-> WorkAt(phase[j], Ready(j))]
States == [c \in Clients |-> StateAt(pc[c], job[c])]
Givens == [c \in Clients |-> GivenAt(pc[c], job[c])]

Desk == INSTANCE JobDesk WITH
  MayForget <- "workerLost" \in Faults \/ "resultTTL" \in Faults,
  work <- Works, current <- lock, state <- States, given <- Givens

\* Whatever the interleaving of GET, DEL, SET, submissions, executions and
\* faults, a call of enqueue_query takes effect at one instant: it gets a job
\* that it hands over, or one that is in progress while it asks, and makes its
\* own job the one that others find only when there is none.
DeskKeepsItsPromise == Desk!Spec

=============================================================================
