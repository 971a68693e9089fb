---------------------------- MODULE SchemaCache ----------------------------
(***************************************************************************)
(* The schema of a data source, which is cached in redis without an expiry. *)
(* A request without refresh returns what is cached; a request with refresh,*)
(* one that finds nothing, and the task refresh_schema load the row, ask the*)
(* database and set the key. Every half hour refresh_schemas queues a task   *)
(* for each data source that is neither paused nor on the blacklist, unless  *)
(* its organization is disabled (there is one). Nothing removes the key when *)
(* the data source is edited, and an answer that took long may be set after  *)
(* a newer one. A schema is that of the version of the options with which it *)
(* was asked for.                                                            *)
(***************************************************************************)
EXTENDS Naturals

CONSTANTS
  DataSources,
  Readers,     \* requests for a schema, at a time
  Tasks,       \* refresh_schema tasks, queued or running at a time
  MaxVersion,  \* bound: the edits of each data source, and one
  MaxErrors    \* bound: answers that do not come, and processes that are lost

ASSUME SchemaAssumption == MaxVersion \in Nat \ {0} /\ MaxErrors \in Nat

VARIABLES
  version,  \* the options in each row; 0 when it is deleted
  paused,   \* data sources with a pause key
  blacklist, \* the set data_sources:schema:blacklist in redis
  disabled, \* whether the organization is disabled
  schema,   \* the cached schemas; 0 when there is none
  reader,   \* the requests
  task,     \* the tasks
  beat,     \* refresh_schemas: the data sources it has yet to come to, the blacklist
            \* as it read it, and the organization as it loaded it
  errors    \* what has failed so far

schemaVars == <<version, paused, blacklist, disabled, schema, reader, task, beat, errors>>

operatorVars == <<blacklist, disabled>>

Resting == [pc |-> "resting"]
NoBeat == [left |-> {}, blacklist |-> {}, org |-> "unread"]

SchemaInit ==
  /\ version = [d \in DataSources |-> 1]
  /\ paused \in SUBSET DataSources
  /\ blacklist \in SUBSET DataSources
  /\ disabled \in BOOLEAN
  /\ schema = [d \in DataSources |-> 0]
  /\ reader = [r \in Readers |-> Resting]
  /\ task = [t \in Tasks |-> Resting]
  /\ beat = NoBeat
  /\ errors = 0

-----------------------------------------------------------------------------
(* Data sources                                                            *)

EditSource(d) ==
  /\ version[d] \in 1..(MaxVersion - 1)
  /\ version' = [version EXCEPT ![d] = @ + 1]
  /\ UNCHANGED <<operatorVars, paused, schema, reader, task, beat, errors>>

\* The key stays.
DeleteSource(d) ==
  /\ version[d] # 0
  /\ version' = [version EXCEPT ![d] = 0]
  /\ UNCHANGED <<operatorVars, paused, schema, reader, task, beat, errors>>

PauseSource(d) ==
  /\ version[d] # 0 /\ d \notin paused
  /\ paused' = paused \cup {d}
  /\ UNCHANGED <<operatorVars, version, schema, reader, task, beat, errors>>

ResumeSource(d) ==
  /\ version[d] # 0 /\ d \in paused
  /\ paused' = paused \ {d}
  /\ UNCHANGED <<operatorVars, version, schema, reader, task, beat, errors>>

\* Nothing in the program sets these two; whoever operates it may.
Blacklist(d) ==
  /\ blacklist' = IF d \in blacklist THEN blacklist \ {d} ELSE blacklist \cup {d}
  /\ UNCHANGED <<disabled, version, paused, schema, reader, task, beat, errors>>

DisableOrEnable ==
  /\ disabled' = ~disabled
  /\ UNCHANGED <<blacklist, version, paused, schema, reader, task, beat, errors>>

-----------------------------------------------------------------------------
(* get_schema, in a request                                                *)

\* The row has been read, and the key if no refresh is asked for.
Ask(r, d, refresh) ==
  /\ reader[r] = Resting
  /\ version[d] # 0
  /\ refresh \/ schema[d] = 0
  /\ reader' = [reader EXCEPT ![r] = [pc |-> "asks", source |-> d, version |-> version[d]]]
  /\ UNCHANGED <<operatorVars, version, paused, schema, task, beat, errors>>

\* The database answers, and the key is set.
Answer(r) ==
  /\ reader[r] # Resting
  /\ schema' = [schema EXCEPT ![reader[r].source] = reader[r].version]
  /\ reader' = [reader EXCEPT ![r] = Resting]
  /\ UNCHANGED <<operatorVars, version, paused, task, beat, errors>>

\* "Error retrieving schema."
AnswerFails(r) ==
  /\ reader[r] # Resting
  /\ errors < MaxErrors
  /\ errors' = errors + 1
  /\ reader' = [reader EXCEPT ![r] = Resting]
  /\ UNCHANGED <<operatorVars, version, paused, schema, task, beat>>

-----------------------------------------------------------------------------
(* refresh_schemas and refresh_schema                                      *)

RefreshSchemas ==
  /\ beat = NoBeat
  /\ beat' = [NoBeat EXCEPT !.left = {d \in DataSources : version[d] # 0},
                            !.blacklist = blacklist]
  /\ UNCHANGED <<operatorVars, version, paused, schema, reader, task, errors>>

\* The row of the organization is loaded for the first data source that is
\* neither paused nor on the blacklist, and kept by the session.
OrgOf(d) ==
  IF d \in paused \cup beat.blacklist \/ beat.org # "unread" THEN beat.org
  ELSE IF disabled THEN "disabled" ELSE "enabled"

\* (Tasks that are queued are bounded.)
Consider(d) ==
  /\ d \in beat.left
  /\ beat' = IF beat.left = {d} THEN NoBeat
             ELSE [beat EXCEPT !.left = @ \ {d}, !.org = OrgOf(d)]
  /\ IF d \in paused \cup beat.blacklist \/ OrgOf(d) = "disabled" THEN UNCHANGED task
     ELSE \E t \in Tasks :
            /\ task[t] = Resting
            /\ task' = [task EXCEPT ![t] = [pc |-> "queued", source |-> d]]
  /\ UNCHANGED <<operatorVars, version, paused, schema, reader, errors>>

\* Mutant: a schema that is cached is left.
LoadUncached(t) ==
  /\ task[t].pc = "queued"
  /\ LET d == task[t].source
     IN task' = [task EXCEPT ![t] =
          IF version[d] = 0 \/ schema[d] # 0 THEN Resting
          ELSE [pc |-> "asks", source |-> d, version |-> version[d]]]
  /\ UNCHANGED <<operatorVars, version, paused, schema, reader, beat, errors>>

\* The task starts: it loads the row, or fails if there is none.
LoadSource(t) ==
  /\ task[t].pc = "queued"
  /\ LET d == task[t].source
     IN task' = [task EXCEPT ![t] =
          IF version[d] = 0 THEN Resting
          ELSE [pc |-> "asks", source |-> d, version |-> version[d]]]
  /\ UNCHANGED <<operatorVars, version, paused, schema, reader, beat, errors>>

Refresh(t) ==
  /\ task[t].pc = "asks"
  /\ schema' = [schema EXCEPT ![task[t].source] = task[t].version]
  /\ task' = [task EXCEPT ![t] = Resting]
  /\ UNCHANGED <<operatorVars, version, paused, reader, beat, errors>>

\* The database does not answer, the time limit is reached, or the task is lost
\* with its worker.
RefreshFails(t) ==
  /\ task[t] # Resting
  /\ errors < MaxErrors
  /\ errors' = errors + 1
  /\ task' = [task EXCEPT ![t] = Resting]
  /\ UNCHANGED <<operatorVars, version, paused, schema, reader, beat>>

-----------------------------------------------------------------------------
SchemaNext ==
  \/ \E d \in DataSources :
       \/ EditSource(d) \/ DeleteSource(d) \/ PauseSource(d) \/ ResumeSource(d)
       \/ Blacklist(d) \/ Consider(d)
       \/ \E r \in Readers, refresh \in BOOLEAN : Ask(r, d, refresh)
  \/ \E r \in Readers : Answer(r) \/ AnswerFails(r)
  \/ DisableOrEnable \/ RefreshSchemas
  \/ \E t \in Tasks : LoadSource(t) \/ Refresh(t) \/ RefreshFails(t)

\* celery beat starts refresh_schemas; it and the processes that have begun go
\* on; and of those that are waiting for a database, each is answered or fails.
SchemaFairness ==
  /\ WF_schemaVars(RefreshSchemas)
  /\ \A d \in DataSources : WF_schemaVars(Consider(d))
  /\ \A t \in Tasks : WF_schemaVars(LoadSource(t) \/ Refresh(t))
  /\ \A r \in Readers : WF_schemaVars(Answer(r))

SchemaSpec == SchemaInit /\ [][SchemaNext]_schemaVars /\ SchemaFairness

-----------------------------------------------------------------------------
(* Properties                                                              *)

\* The types of the state: no schema is one of a version to come.
SchemaTypeOK ==
  /\ version \in [DataSources -> 0..MaxVersion]
  /\ paused \subseteq DataSources
  /\ schema \in [DataSources -> 0..MaxVersion]
  /\ \A d \in DataSources : version[d] # 0 => schema[d] <= version[d]
  /\ reader \in [Readers -> {Resting} \cup
       [pc : {"asks"}, source : DataSources, version : 1..MaxVersion]]
  /\ task \in [Tasks -> {Resting} \cup [pc : {"queued"}, source : DataSources] \cup
       [pc : {"asks"}, source : DataSources, version : 1..MaxVersion]]
  /\ blacklist \subseteq DataSources /\ disabled \in BOOLEAN
  /\ beat \in [left : SUBSET DataSources, blacklist : SUBSET DataSources,
               org : {"unread", "enabled", "disabled"}]
  /\ errors \in 0..MaxErrors

\* models/__init__.py:155-170, tasks/queries.py:251-271: unless it is paused or
\* on the blacklist for ever or again and again, or its organization disabled,
\* or it is deleted, a data source that is no longer edited gets its present
\* schema into the cache for good, whatever answers to earlier questions were
\* still under way.
SchemaCatchesUp ==
  \A d \in DataSources :
    <>[](d \notin paused \cup blacklist /\ ~disabled /\ version[d] # 0) =>
      <>[](schema[d] = version[d])

=============================================================================
