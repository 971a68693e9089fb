------------------------------ MODULE Activity ------------------------------
(***************************************************************************)
(* When users were last active. Every request of a user sets the user's    *)
(* field of a redis hash (update_user_active_at); a task moves the fields  *)
(* to the details of the users (sync_last_active_at): it lists the hash,   *)
(* and for each user reads the field, loads the row and deletes the field, *)
(* with one commit at the end. The task is started every minute and may    *)
(* run for two, so that two of them overlap, and the details are one JSON  *)
(* column that is written as a whole. Row locks are left out: they only    *)
(* order commits.                                                          *)
(***************************************************************************)
EXTENDS Naturals

CONSTANTS
  People,       \* users with a row
  Unverified,   \* those whose email address is not verified in the beginning
  Syncs,        \* sync tasks that run at a time
  Verifiers,    \* requests that verify an email address, at a time
  MaxTime,      \* bound: the seconds
  MaxRequests,  \* bound: the requests of users
  MaxLosses     \* bound: sync tasks that are killed

ASSUME ActivityAssumption ==
  Unverified \subseteq People /\ MaxTime \in Nat \ {0} /\ MaxRequests \in Nat /\ MaxLosses \in Nat

VARIABLES
  time,       \* the clock, in seconds
  arrived,    \* the requests that have read the clock for their user
  lastActive, \* the hash users:last_active_at; 0 is an absent field
  details,    \* of each row: active_at (0 if never set) and is_email_verified
  sync,       \* the sync tasks
  verify,     \* the requests that verify an address
  requests,   \* requests that have arrived so far
  losses,     \* sync tasks killed so far
  latest,     \* history: the last second that was put into the hash
  excused     \* history: users of whom an activity may have been lost

activityVars ==
  <<time, arrived, lastActive, details, sync, verify, requests, losses, latest, excused>>

Seconds == 1..MaxTime

Asleep == [pc |-> "asleep"]

ActivityInit ==
  /\ time = 1
  /\ arrived = {}
  /\ lastActive = [u \in People |-> 0]
  /\ details = [u \in People |-> [active |-> 0, verified |-> u \notin Unverified]]
  /\ sync = [s \in Syncs |-> Asleep]
  /\ verify = [v \in Verifiers |-> Asleep]
  /\ requests = 0
  /\ losses = 0
  /\ latest = [u \in People |-> 0]
  /\ excused = {}

-----------------------------------------------------------------------------
(* Requests                                                                *)

SecondPasses ==
  /\ time < MaxTime
  /\ time' = time + 1
  /\ UNCHANGED <<arrived, lastActive, details, sync, verify, requests, losses, latest, excused>>

\* A request of an authenticated user has started and read the clock, ...
Arrive(u) ==
  /\ requests < MaxRequests
  /\ requests' = requests + 1
  /\ arrived' = arrived \cup {<<u, time>>}
  /\ UNCHANGED <<time, lastActive, details, sync, verify, losses, latest, excused>>

\* ... and sets the field, after a request that came later if it is slow.
HSet(u, t) ==
  /\ <<u, t>> \in arrived
  /\ arrived' = arrived \ {<<u, t>>}
  /\ lastActive' = [lastActive EXCEPT ![u] = t]
  /\ latest' = [latest EXCEPT ![u] = t]
  /\ excused' = IF t < latest[u] THEN excused \cup {u} ELSE excused
  /\ UNCHANGED <<time, details, sync, verify, requests, losses>>

-----------------------------------------------------------------------------
(* sync_last_active_at                                                     *)

\* The task starts, and hkeys lists the fields there are.
HKeys(s) ==
  /\ sync[s] = Asleep
  /\ \E u \in People : lastActive[u] # 0
  /\ sync' = [sync EXCEPT ![s] =
       [pc |-> "next", todo |-> {u \in People : lastActive[u] # 0},
        rows |-> [u \in {} |-> 0], moved |-> {}]]
  /\ UNCHANGED <<time, arrived, lastActive, details, verify, requests, losses, latest, excused>>

\* hget finds the field: dt_from_timestamp makes a date of it.
HGet(s, u) ==
  /\ sync[s].pc = "next"
  /\ u \in sync[s].todo
  /\ lastActive[u] # 0
  /\ sync' = [sync EXCEPT ![s] =
       [pc |-> "read", todo |-> @.todo \ {u}, rows |-> @.rows, moved |-> @.moved,
        user |-> u, stamp |-> lastActive[u]]]
  /\ UNCHANGED <<time, arrived, lastActive, details, verify, requests, losses, latest, excused>>

\* Another task has deleted the field: float(None) raises, and what this task
\* has moved so far is rolled back.
HGetNothing(s, u) ==
  /\ sync[s].pc = "next"
  /\ u \in sync[s].todo
  /\ lastActive[u] = 0
  /\ sync' = [sync EXCEPT ![s] = Asleep]
  /\ excused' = excused \cup sync[s].moved
  /\ UNCHANGED <<time, arrived, lastActive, details, verify, requests, losses, latest>>

\* The row is loaded and active_at set in the copy of its details.
Load(s) ==
  /\ sync[s].pc = "read"
  /\ LET u == sync[s].user
     IN sync' = [sync EXCEPT ![s].pc = "loaded",
          ![s].rows = [v \in DOMAIN @ \cup {u} |->
             IF v = u THEN [seen |-> details[u], stamp |-> sync[s].stamp] ELSE @[v]]]
  /\ UNCHANGED <<time, arrived, lastActive, details, verify, requests, losses, latest, excused>>

\* hdel deletes the field, also one that is newer than what was read; or
\* another task has done so, and moves it too.
HDel(s) ==
  /\ sync[s].pc = "loaded"
  /\ LET u == sync[s].user
     IN /\ lastActive' = [lastActive EXCEPT ![u] = 0]
        /\ excused' = IF lastActive[u] # sync[s].stamp THEN excused \cup {u} ELSE excused
        /\ sync' = [sync EXCEPT ![s] =
             [pc |-> "next", todo |-> @.todo, rows |-> @.rows, moved |-> @.moved \cup {u}]]
  /\ UNCHANGED <<time, arrived, details, verify, requests, losses, latest>>

\* Whose details have changed since they were loaded: the whole column is
\* written over them.
Overwritten(rows) == {u \in DOMAIN rows : details[u] # rows[u].seen}

\* Mutant: the session is not committed.
CommitNothing(s) ==
  /\ sync[s].pc = "next"
  /\ sync[s].todo = {}
  /\ excused' = excused \cup Overwritten(sync[s].rows)
  /\ sync' = [sync EXCEPT ![s] = Asleep]
  /\ UNCHANGED <<time, arrived, lastActive, details, verify, requests, losses, latest>>

\* Mutant: active_at is the time of the task.
CommitNow(s) ==
  /\ sync[s].pc = "next"
  /\ sync[s].todo = {}
  /\ details' = [u \in People |->
       IF u \in DOMAIN sync[s].rows THEN [sync[s].rows[u].seen EXCEPT !.active = time]
       ELSE details[u]]
  /\ excused' = excused \cup Overwritten(sync[s].rows)
  /\ sync' = [sync EXCEPT ![s] = Asleep]
  /\ UNCHANGED <<time, arrived, lastActive, verify, requests, losses, latest>>

\* The one commit writes the details of every row that was loaded.
CommitSync(s) ==
  /\ sync[s].pc = "next"
  /\ sync[s].todo = {}
  /\ details' = [u \in People |->
       IF u \in DOMAIN sync[s].rows
       THEN [sync[s].rows[u].seen EXCEPT !.active = sync[s].rows[u].stamp] ELSE details[u]]
  /\ excused' = excused \cup Overwritten(sync[s].rows)
  /\ sync' = [sync EXCEPT ![s] = Asleep]
  /\ UNCHANGED <<time, arrived, lastActive, verify, requests, losses, latest>>

\* The task exceeds its time limit, or its worker is lost.
Kill(s) ==
  /\ sync[s] # Asleep
  /\ losses < MaxLosses
  /\ losses' = losses + 1
  /\ sync' = [sync EXCEPT ![s] = Asleep]
  /\ excused' = excused \cup sync[s].moved
  /\ UNCHANGED <<time, arrived, lastActive, details, verify, requests, latest>>

-----------------------------------------------------------------------------
(* UserVerifyEmailWithTokenResource writes the same column.                *)

LoadToVerify(v, u) ==
  /\ verify[v] = Asleep
  /\ ~details[u].verified
  /\ verify' = [verify EXCEPT ![v] = [pc |-> "loaded", user |-> u, seen |-> details[u]]]
  /\ UNCHANGED <<time, arrived, lastActive, details, sync, requests, losses, latest, excused>>

CommitVerified(v) ==
  /\ verify[v] # Asleep
  /\ LET u == verify[v].user
     IN /\ details' = [details EXCEPT ![u] = [verify[v].seen EXCEPT !.verified = TRUE]]
        /\ excused' = IF details[u] # verify[v].seen THEN excused \cup {u} ELSE excused
  /\ verify' = [verify EXCEPT ![v] = Asleep]
  /\ UNCHANGED <<time, arrived, lastActive, sync, requests, losses, latest>>

-----------------------------------------------------------------------------
SyncStep(s) ==
  \/ HKeys(s) \/ Load(s) \/ HDel(s) \/ CommitSync(s)
  \/ \E u \in People : HGet(s, u) \/ HGetNothing(s, u)

ActivityNext ==
  \/ SecondPasses
  \/ \E u \in People : Arrive(u) \/ \E t \in Seconds : HSet(u, t)
  \/ \E s \in Syncs : SyncStep(s) \/ Kill(s)
  \/ \E v \in Verifiers : (\E u \in People : LoadToVerify(v, u)) \/ CommitVerified(v)

\* celery beat starts the task every minute, and its steps are taken.
ActivitySpec ==
  /\ ActivityInit /\ [][ActivityNext]_activityVars
  /\ \A s \in Syncs : WF_activityVars(SyncStep(s))

-----------------------------------------------------------------------------
(* Properties                                                              *)

Details == [active : 0..MaxTime, verified : BOOLEAN]

RowsRead(r) ==
  /\ DOMAIN r \subseteq People
  /\ r \in [DOMAIN r -> [seen : Details, stamp : Seconds]]

\* The types of the state; what a task has moved is among the rows it will
\* write, and the field it has read last is not among those left.
ActivityTypeOK ==
  /\ time \in Seconds /\ requests \in 0..MaxRequests /\ losses \in 0..MaxLosses
  /\ arrived \subseteq People \X Seconds
  /\ lastActive \in [People -> 0..MaxTime]
  /\ latest \in [People -> 0..MaxTime]
  /\ details \in [People -> Details]
  /\ excused \subseteq People
  /\ \A s \in Syncs : sync[s] # Asleep =>
       /\ sync[s].pc \in {"next", "read", "loaded"}
       /\ sync[s].todo \subseteq People
       /\ RowsRead(sync[s].rows)
       /\ sync[s].moved \subseteq DOMAIN sync[s].rows
       /\ sync[s].pc # "next" =>
            sync[s].user \in People \ sync[s].todo /\ sync[s].stamp \in Seconds
  /\ verify \in [Verifiers -> {Asleep} \cup [pc : {"loaded"}, user : People, seen : Details]]

\* users.py:27-42: active_at only moves on, and to a second in which the user
\* was active, unless a stale column was written over it, a request was slow,
\* or the field was replaced or deleted between hget and hdel.
ActiveAtMovesOn ==
  [][\A u \in People : details'[u].active # details[u].active =>
       u \in excused' \/ details'[u].active \in (details[u].active + 1)..latest[u]]_activityVars

\* users.py:29-32, "there might be a more recent update we skip otherwise":
\* an activity in the hash reaches the database, or a later one does, unless
\* its field was replaced or deleted between hget and hdel, the task died or
\* failed between hdel and the commit, or a stale column was written over it.
ActivityIsRecorded ==
  \A u \in People, t \in Seconds :
    latest[u] = t ~> (details[u].active >= t \/ u \in excused)

=============================================================================
