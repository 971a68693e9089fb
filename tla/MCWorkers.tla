------------------------------ MODULE MCWorkers ------------------------------
(***************************************************************************)
(* An instance of the modules about what workers keep up to date beside the *)
(* jobs: the times of users' activity, and the cached schemas. The modules  *)
(* share no variable, so one of them moves in each behaviour, under its own *)
(* fairness.                                                               *)
(***************************************************************************)
EXTENDS Activity, SchemaCache

VARIABLE part  \* the module that moves

\* While activity moves, the data sources are paused and nothing else is set.
Init ==
  /\ part \in {"activity", "schemas"}
  /\ ActivityInit
  /\ SchemaInit /\ (part # "schemas" => paused = DataSources /\ blacklist = {} /\ ~disabled)

OfActivity(A) == part = "activity" /\ A /\ UNCHANGED <<part, schemaVars>>
OfSchemas(A) == part = "schemas" /\ A /\ UNCHANGED <<part, activityVars>>

Next == OfActivity(ActivityNext) \/ OfSchemas(SchemaNext)

vars == <<part, activityVars, schemaVars>>

\* The fairness of ActivitySpec and of SchemaSpec.
Spec ==
  /\ Init /\ [][Next]_vars
  /\ \A s \in Syncs : WF_vars(OfActivity(SyncStep(s)))
  /\ WF_vars(OfSchemas(RefreshSchemas))
  /\ \A d \in DataSources : WF_vars(OfSchemas(Consider(d)))
  /\ \A t \in Tasks : WF_vars(OfSchemas(LoadSource(t) \/ Refresh(t)))
  /\ \A r \in Readers : WF_vars(OfSchemas(Answer(r)))

=============================================================================
