------------------------------- MODULE Content -------------------------------
(***************************************************************************)
(* Queries with their visualizations, the widgets that show them on         *)
(* dashboards, alerts and subscriptions, from creation to archival. A query *)
(* is archived by a request that reads what belongs to it, marks the        *)
(* visualizations and deletes the widgets and alerts that it has read, and  *)
(* commits; requests that overlap may add more, since only foreign keys are *)
(* checked. An archived query can be edited, scheduled and shown again.     *)
(* Requests that write a row or two are one step: that of their commit.     *)
(***************************************************************************)
EXTENDS Naturals, FiniteSets

CONSTANTS
  ContentQueries, VisualizationIds, WidgetIds, AlertIds, SubscriptionIds,
  Removers   \* requests that archive a query or delete an alert, at a time

VARIABLES
  queryRow,      \* of each query: archived, scheduled
  visualization, \* of each: its query, archived
  widget,        \* the visualization of each
  alert,         \* the query of each
  subscription,  \* the alert of each
  remover,       \* the requests; `overlap` is history
  touched        \* history: archived queries that others wrote about since

contentVars == <<queryRow, visualization, widget, alert, subscription, remover, touched>>

Unmade == [state |-> "unborn"]
Gone == [state |-> "gone"]

\* An id is taken for neither of these.
ASSUME ContentAssumption ==
  \A id \in ContentQueries \cup VisualizationIds \cup AlertIds : id # Unmade /\ id # Gone

Inactive == [pc |-> "idle"]

Born(f) == {x \in DOMAIN f : f[x] \notin {Unmade, Gone}}
Fresh(f) == {x \in DOMAIN f : f[x] = Unmade}

ContentInit ==
  /\ queryRow = [q \in ContentQueries |-> Unmade]
  /\ visualization = [v \in VisualizationIds |-> Unmade]
  /\ widget = [w \in WidgetIds |-> Unmade]
  /\ alert = [a \in AlertIds |-> Unmade]
  /\ subscription = [s \in SubscriptionIds |-> Unmade]
  /\ remover = [r \in Removers |-> Inactive]
  /\ touched = {}

VisualizationsOf(q) == {v \in Born(visualization) : visualization[v].query = q}
WidgetsOf(q) == {w \in Born(widget) : widget[w] \in VisualizationsOf(q)}
AlertsOf(q) == {a \in Born(alert) : alert[a] = q}
SubscriptionsOf(S) == {s \in Born(subscription) : subscription[s] \in S}

\* Something about the query is written, also while it is being archived.
WriteAbout(q) ==
  /\ touched' = touched \cup {q}
  /\ remover' = [r \in Removers |->
       IF remover[r] # Inactive /\ remover[r].query = q THEN [remover[r] EXCEPT !.overlap = TRUE]
       ELSE remover[r]]

-----------------------------------------------------------------------------
(* Making                                                                  *)

\* Query.create, with a table for its first visualization.
MakeQuery(q, v) ==
  /\ q \in Fresh(queryRow) /\ v \in Fresh(visualization)
  /\ queryRow' = [queryRow EXCEPT ![q] = [archived |-> FALSE, scheduled |-> FALSE]]
  /\ visualization' = [visualization EXCEPT ![v] = [query |-> q, archived |-> FALSE]]
  /\ UNCHANGED <<widget, alert, subscription, remover, touched>>

\* fork copies every visualization, but not whether it is archived.
Fork(q, of) ==
  /\ q \in Fresh(queryRow) /\ of \in Born(queryRow)
  /\ queryRow' = [queryRow EXCEPT ![q] = [archived |-> FALSE, scheduled |-> FALSE]]
  /\ \E S \in SUBSET Fresh(visualization) :
       /\ Cardinality(S) = Cardinality(VisualizationsOf(of))
       /\ visualization' = [v \in VisualizationIds |->
            IF v \in S THEN [query |-> q, archived |-> FALSE] ELSE visualization[v]]
  /\ UNCHANGED <<widget, alert, subscription, remover, touched>>

\* VisualizationListResource.post
AddVisualization(v, q) ==
  /\ v \in Fresh(visualization) /\ q \in Born(queryRow)
  /\ visualization' = [visualization EXCEPT ![v] = [query |-> q, archived |-> FALSE]]
  /\ WriteAbout(q)
  /\ UNCHANGED <<queryRow, widget, alert, subscription>>

\* WidgetListResource.post: an archived visualization is as good as another.
AddWidget(w, v) ==
  /\ w \in Fresh(widget) /\ v \in Born(visualization)
  /\ widget' = [widget EXCEPT ![w] = v]
  /\ WriteAbout(visualization[v].query)
  /\ UNCHANGED <<queryRow, visualization, alert, subscription>>

\* AlertListResource.post
AddAlert(a, q) ==
  /\ a \in Fresh(alert) /\ q \in Born(queryRow)
  /\ alert' = [alert EXCEPT ![a] = q]
  /\ WriteAbout(q)
  /\ UNCHANGED <<queryRow, visualization, widget, subscription>>

\* AlertSubscriptionListResource.post
Subscribe(s, a) ==
  /\ s \in Fresh(subscription) /\ a \in Born(alert)
  /\ subscription' = [subscription EXCEPT ![s] = a]
  /\ UNCHANGED <<queryRow, visualization, widget, alert, remover, touched>>

-----------------------------------------------------------------------------
(* Editing                                                                 *)

\* QueryResource.post: a schedule, or whether it is archived, which is not among
\* the fields that are taken out.
EditQueryRow(q, row) ==
  /\ q \in Born(queryRow)
  /\ queryRow' = [queryRow EXCEPT ![q] = row]
  /\ WriteAbout(q)
  /\ UNCHANGED <<visualization, widget, alert, subscription>>

\* VisualizationResource.post: what is posted is set.
EditVisualization(v, archived) ==
  /\ v \in Born(visualization)
  /\ visualization' = [visualization EXCEPT ![v].archived = archived]
  /\ WriteAbout(visualization[v].query)
  /\ UNCHANGED <<queryRow, widget, alert, subscription>>

\* AlertResource.post: an alert may be moved to any query.
MoveAlert(a, q) ==
  /\ a \in Born(alert) /\ q \in Born(queryRow)
  /\ alert[a] # q
  /\ alert' = [alert EXCEPT ![a] = q]
  /\ WriteAbout(q)
  /\ UNCHANGED <<queryRow, visualization, widget, subscription>>

\* Visualization.archive deletes its widgets.
ArchiveVisualization(v) ==
  /\ v \in Born(visualization)
  /\ visualization' = [visualization EXCEPT ![v].archived = TRUE]
  /\ widget' = [w \in WidgetIds |-> IF widget[w] = v THEN Gone ELSE widget[w]]
  /\ UNCHANGED <<queryRow, alert, subscription, remover, touched>>

DeleteWidget(w) ==
  /\ w \in Born(widget)
  /\ widget' = [widget EXCEPT ![w] = Gone]
  /\ UNCHANGED <<queryRow, visualization, alert, subscription, remover, touched>>

Unsubscribe(s) ==
  /\ s \in Born(subscription)
  /\ subscription' = [subscription EXCEPT ![s] = Gone]
  /\ UNCHANGED <<queryRow, visualization, widget, alert, remover, touched>>

-----------------------------------------------------------------------------
(* Archiving a query and deleting an alert                                 *)

\* Query.archive has walked through the visualizations and their widgets, ...
ReadVisualizations(r, q) ==
  /\ remover[r] = Inactive
  /\ q \in Born(queryRow)
  /\ remover' = [remover EXCEPT ![r] =
       [pc |-> "visualizations", query |-> q, visualizations |-> VisualizationsOf(q),
        widgets |-> WidgetsOf(q), alerts |-> {}, subscriptions |-> {}, overlap |-> FALSE]]
  /\ UNCHANGED <<queryRow, visualization, widget, alert, subscription, touched>>

\* ... then the alerts, whose subscriptions go with them (cascade).
ReadAlerts(r) ==
  /\ remover[r].pc = "visualizations"
  /\ LET its == AlertsOf(remover[r].query)
     IN remover' = [remover EXCEPT ![r].pc = "alerts", ![r].alerts = its,
                                   ![r].subscriptions = SubscriptionsOf(its)]
  /\ UNCHANGED <<queryRow, visualization, widget, alert, subscription, touched>>

\* Rows that are deleted already only make a warning.
DeleteRead(r) ==
  /\ alert' = [a \in AlertIds |-> IF a \in remover[r].alerts THEN Gone ELSE alert[a]]
  /\ subscription' = [s \in SubscriptionIds |->
       IF s \in remover[r].subscriptions THEN Gone ELSE subscription[s]]

\* A subscription made since then refers to an alert that would go.
Held(r) == SubscriptionsOf(remover[r].alerts) \ remover[r].subscriptions # {}

\* Mutant: the widgets stay.
CommitArchiveOnly(r) ==
  LET x == remover[r]
  IN /\ x.pc = "alerts"
     /\ ~Held(r)
     /\ queryRow' = [queryRow EXCEPT ![x.query] = [archived |-> TRUE, scheduled |-> FALSE]]
     /\ visualization' = [v \in VisualizationIds |->
          IF v \in x.visualizations THEN [visualization[v] EXCEPT !.archived = TRUE]
          ELSE visualization[v]]
     /\ DeleteRead(r)
     /\ touched' = IF x.overlap THEN touched \cup {x.query} ELSE touched \ {x.query}
     /\ remover' = [remover EXCEPT ![r] = Inactive]
     /\ UNCHANGED widget

CommitArchive(r) ==
  LET x == remover[r]
  IN /\ x.pc = "alerts"
     /\ ~Held(r)
     /\ queryRow' = [queryRow EXCEPT ![x.query] = [archived |-> TRUE, scheduled |-> FALSE]]
     /\ visualization' = [v \in VisualizationIds |->
          IF v \in x.visualizations THEN [visualization[v] EXCEPT !.archived = TRUE]
          ELSE visualization[v]]
     /\ widget' = [w \in WidgetIds |-> IF w \in x.widgets THEN Gone ELSE widget[w]]
     /\ DeleteRead(r)
     /\ touched' = IF x.overlap THEN touched \cup {x.query} ELSE touched \ {x.query}
     /\ remover' = [remover EXCEPT ![r] = Inactive]

\* AlertResource.delete
ReadAlert(r, a) ==
  /\ remover[r] = Inactive
  /\ a \in Born(alert)
  /\ remover' = [remover EXCEPT ![r] =
       [pc |-> "alert", query |-> alert[a], visualizations |-> {}, widgets |-> {},
        alerts |-> {a}, subscriptions |-> SubscriptionsOf({a}), overlap |-> FALSE]]
  /\ UNCHANGED <<queryRow, visualization, widget, alert, subscription, touched>>

CommitAlert(r) ==
  /\ remover[r].pc = "alert"
  /\ ~Held(r)
  /\ DeleteRead(r)
  /\ remover' = [remover EXCEPT ![r] = Inactive]
  /\ UNCHANGED <<queryRow, visualization, widget, touched>>

\* IntegrityError, and nothing is written.
RemovalFails(r) ==
  /\ remover[r].pc \in {"alerts", "alert"}
  /\ Held(r)
  /\ remover' = [remover EXCEPT ![r] = Inactive]
  /\ UNCHANGED <<queryRow, visualization, widget, alert, subscription, touched>>

-----------------------------------------------------------------------------
ContentNext ==
  \/ \E q \in ContentQueries :
       \/ \E v \in VisualizationIds : MakeQuery(q, v) \/ AddVisualization(v, q)
       \/ \E of \in ContentQueries : Fork(q, of)
       \/ \E a \in AlertIds : AddAlert(a, q) \/ MoveAlert(a, q)
       \/ \E archived, scheduled \in BOOLEAN :
            EditQueryRow(q, [archived |-> archived, scheduled |-> scheduled])
       \/ \E r \in Removers : ReadVisualizations(r, q)
  \/ \E v \in VisualizationIds :
       \/ \E w \in WidgetIds : AddWidget(w, v)
       \/ \E archived \in BOOLEAN : EditVisualization(v, archived)
       \/ ArchiveVisualization(v)
  \/ \E w \in WidgetIds : DeleteWidget(w)
  \/ \E s \in SubscriptionIds : Unsubscribe(s) \/ \E a \in AlertIds : Subscribe(s, a)
  \/ \E r \in Removers :
       \/ ReadAlerts(r) \/ CommitArchive(r) \/ CommitAlert(r) \/ RemovalFails(r)
       \/ \E a \in AlertIds : ReadAlert(r, a)

ContentSpec == ContentInit /\ [][ContentNext]_contentVars

-----------------------------------------------------------------------------
(* Properties                                                              *)

IdOr(S) == S \cup {Unmade, Gone}

QueryStates == [archived : BOOLEAN, scheduled : BOOLEAN]
VisualizationRows == [query : Born(queryRow), archived : BOOLEAN]

RemoverStates ==
  [pc : {"visualizations", "alerts", "alert"}, query : Born(queryRow),
   visualizations : SUBSET VisualizationIds, widgets : SUBSET WidgetIds,
   alerts : SUBSET AlertIds, subscriptions : SUBSET SubscriptionIds, overlap : BOOLEAN]

\* The types of the state; the foreign keys refer to rows there are.
ContentTypeOK ==
  /\ queryRow \in [ContentQueries -> {Unmade} \cup QueryStates]
  /\ visualization \in [VisualizationIds -> {Unmade} \cup VisualizationRows]
  /\ widget \in [WidgetIds -> IdOr(Born(visualization))]
  /\ alert \in [AlertIds -> IdOr(Born(queryRow))]
  /\ subscription \in [SubscriptionIds -> IdOr(Born(alert))]
  /\ remover \in [Removers -> {Inactive} \cup RemoverStates]
  /\ touched \subseteq ContentQueries

\* models/__init__.py:484-499: unless somebody wrote about the query while it
\* was archived or later, an archived query has no schedule, no alert, only
\* archived visualizations and no widget on any dashboard.
ArchivedIsBare ==
  \A q \in Born(queryRow) \ touched : queryRow[q].archived =>
    /\ ~queryRow[q].scheduled
    /\ AlertsOf(q) = {} /\ WidgetsOf(q) = {}
    /\ \A v \in VisualizationsOf(q) : visualization[v].archived

=============================================================================
