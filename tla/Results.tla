------------------------------- MODULE Results -------------------------------
(***************************************************************************)
(* Query results and the queries that link to them. An executor inserts a  *)
(* result and selects the queries with its text and data source, then links *)
(* them to it and commits. Meanwhile queries are created, forked and edited *)
(* (a client may post the data source and the result of what it shows),    *)
(* old results that no query links to are cleaned up, and data sources are *)
(* deleted. What a transaction has written is seen when it commits; a row   *)
(* that it has written, nobody else writes before. Texts stand for hashes. *)
(***************************************************************************)
EXTENDS Naturals, FiniteSets

CONSTANTS
  Sources,    \* data sources, there from the beginning
  Texts,
  QueryIds,
  Executors,  \* executions that store a result at a time
  Limit,      \* QUERY_RESULTS_CLEANUP_COUNT
  MaxResults  \* bound: the results that are inserted

ASSUME ResultsAssumption == Limit \in Nat \ {0} /\ MaxResults \in Nat

ResultIds == 1..MaxResults

NoSource == "no source"
NoResult == 0
NoExecution == [pc |-> "idle"]
NoRemoval == [pc |-> "idle"]
Unborn == [born |-> FALSE]

VARIABLES
  sources,     \* the data sources there are
  query,       \* of each query: data source, text, latest_query_data
  stored,      \* the results that are committed, by their id
  nextId,      \* ids come from a sequence, in the order of retrieved_at
  execution,   \* executions in store_result; `moved` is history
  removal,     \* the deletion of a data source; `raced` is history
  seen,        \* the result shown to the client that edits
  last,        \* history: the result stored last for a source and a text
  settled      \* history: queries not touched since they were selected for it

resultVars == <<sources, query, stored, nextId, execution, removal, seen, last, settled>>

Existing == {q \in QueryIds : query[q].born}

QueryRow(s, t, r) == [born |-> TRUE, source |-> s, text |-> t, link |-> r]

ResultsInit ==
  /\ sources = Sources
  /\ query \in [QueryIds -> {Unborn} \cup {QueryRow(s, t, NoResult) : s \in Sources, t \in Texts}]
  /\ stored = [r \in {} |-> Unborn]
  /\ nextId = 1
  /\ execution = [e \in Executors |-> NoExecution]
  /\ removal = NoRemoval
  /\ seen = NoResult
  /\ last = [p \in Sources \X Texts |-> NoResult]
  /\ settled = {}

Active == {e \in Executors : execution[e] # NoExecution}

Matching(s, T) == {q \in Existing : query[q].source = s /\ query[q].text \in T}

\* Rows written by a deletion that has not committed.
Locked == IF removal = NoRemoval THEN {} ELSE removal.cleared
Doomed == IF removal = NoRemoval THEN {} ELSE removal.purged

RefersTo(row, s) ==
  row.source = s \/ (row.link # NoResult /\ stored[row.link].source = s)

\* A query is written: executions that are under way may have missed it, and so
\* may the deletion of its data source or of that of its result.
Touch(q, row) ==
  /\ execution' = [e \in Executors |->
       IF e \in Active THEN [execution[e] EXCEPT !.moved = @ \cup {q}] ELSE NoExecution]
  /\ removal' = IF removal # NoRemoval /\ RefersTo(row, removal.source)
                THEN [removal EXCEPT !.raced = TRUE] ELSE removal
  /\ query' = [query EXCEPT ![q] = row]
  /\ settled' = settled \ {q}

\* The foreign keys of a query that is written.
Valid(row) ==
  /\ row.source \in sources \cup {NoSource}
  /\ row.link \in (DOMAIN stored \ Doomed) \cup {NoResult}

-----------------------------------------------------------------------------
(* Queries                                                                 *)

\* QueryListResource.post; what is posted as latest_query_data_id is kept.
CreateQuery(q, s, t, r) ==
  /\ q \notin Existing
  /\ s \in sources
  /\ r \in {NoResult, seen}
  /\ Valid(QueryRow(s, t, r))
  /\ Touch(q, QueryRow(s, t, r))
  /\ UNCHANGED <<sources, stored, nextId, seen, last>>

\* fork: the link is copied with the text.
ForkQuery(q, of) ==
  /\ q \notin Existing
  /\ of \in Existing
  /\ Valid(query[of])
  /\ Touch(q, query[of])
  /\ UNCHANGED <<sources, stored, nextId, seen, last>>

\* QueryResource.post: text, data source and result are set when posted.
EditQuery(q, s, t, r) ==
  /\ q \in Existing \ Locked
  /\ s \in {query[q].source} \cup Sources
  /\ r \in {query[q].link, seen}
  /\ QueryRow(s, t, r) # query[q]
  /\ Valid(QueryRow(s, t, r))
  /\ Touch(q, QueryRow(s, t, r))
  /\ UNCHANGED <<sources, stored, nextId, seen, last>>

\* The query is shown with its result (QueryResultResource.get).
View(q) ==
  /\ q \in Existing
  /\ query[q].link # NoResult
  /\ seen' = query[q].link
  /\ UNCHANGED <<sources, query, stored, nextId, execution, removal, last, settled>>

\* run_query with max_age -1: the cached result retrieved last for the text.
Ask(s, t) ==
  /\ s \in sources
  /\ \E r \in DOMAIN stored :
       /\ stored[r].source = s /\ stored[r].text = t
       /\ \A x \in DOMAIN stored :
            stored[x].source = s /\ stored[x].text = t => x <= r
       /\ seen' = r
  /\ UNCHANGED <<sources, query, stored, nextId, execution, removal, last, settled>>

-----------------------------------------------------------------------------
(* store_result                                                            *)

\* Mutant: the data source is not compared.
SelectByHash(e, s, t) ==
  /\ execution[e] = NoExecution
  /\ s \in sources
  /\ nextId <= MaxResults
  /\ nextId' = nextId + 1
  /\ execution' = [execution EXCEPT ![e] =
       [pc |-> "selected", source |-> s, text |-> t, result |-> nextId,
        found |-> {q \in Existing : query[q].text = t}, moved |-> {}]]
  /\ UNCHANGED <<sources, query, stored, removal, seen, last, settled>>

\* The result is inserted (autoflush) and the queries are selected.
Select(e, s, t) ==
  /\ execution[e] = NoExecution
  /\ s \in sources
  /\ nextId <= MaxResults
  /\ nextId' = nextId + 1
  /\ execution' = [execution EXCEPT ![e] =
       [pc |-> "selected", source |-> s, text |-> t, result |-> nextId,
        found |-> Matching(s, {t}), moved |-> {}]]
  /\ UNCHANGED <<sources, query, stored, removal, seen, last, settled>>

\* The second SELECT sends the links; then the commit. Queries that match only
\* now are told to the alerts, but not linked.
Store(e) ==
  LET x == execution[e]
  IN /\ x # NoExecution
     /\ x.found \cap Locked = {}
     /\ stored' = [r \in DOMAIN stored \cup {x.result} |->
          IF r = x.result THEN [source |-> x.source, text |-> x.text]
          ELSE stored[r]]
     /\ query' = [q \in QueryIds |->
          IF q \in x.found THEN [query[q] EXCEPT !.link = x.result] ELSE query[q]]
     /\ execution' = [execution EXCEPT ![e] = NoExecution]
     /\ removal' = IF removal # NoRemoval /\ removal.source = x.source
                   THEN [removal EXCEPT !.raced = TRUE] ELSE removal
     /\ last' = [last EXCEPT ![<<x.source, x.text>>] = x.result]
     /\ settled' = (settled \cup x.found) \ x.moved
     /\ UNCHANGED <<sources, nextId, seen>>

\* The executor is lost, or Postgres ends a deadlock with a deletion.
Abort(e) ==
  /\ execution[e] # NoExecution
  /\ execution' = [execution EXCEPT ![e] = NoExecution]
  /\ UNCHANGED <<sources, query, stored, nextId, removal, seen, last, settled>>

-----------------------------------------------------------------------------
(* cleanup_query_results                                                   *)

Linked == {query[q].link : q \in Existing}

\* One DELETE of results that no query links to, at most Limit of them. Any of
\* them may be older than a week; those that are being deleted are waited for.
Cleanup ==
  /\ \E S \in SUBSET (DOMAIN stored \ (Linked \cup Doomed)) :
       /\ S # {} /\ Cardinality(S) <= Limit
       /\ stored' = [r \in DOMAIN stored \ S |-> stored[r]]
  /\ UNCHANGED <<sources, query, nextId, execution, removal, seen, last, settled>>

-----------------------------------------------------------------------------
(* DataSource.delete                                                       *)

Of(s) == {r \in DOMAIN stored : stored[r].source = s}

\* Queries of other data sources that link to a result of this one.
Elsewhere(s) == {q \in Existing : query[q].source # s /\ query[q].link \in Of(s)}

\* The bulk update of its queries.
ClearQueries(s) ==
  /\ removal = NoRemoval
  /\ s \in sources
  /\ removal' = [pc |-> "cleared", source |-> s, cleared |-> Matching(s, Texts),
       nulled |-> {}, purged |-> {}, rest |-> {}, raced |-> FALSE, foreign |-> Elsewhere(s) # {}]
  /\ UNCHANGED <<sources, query, stored, nextId, execution, seen, last, settled>>

\* The delete command of the server only deletes the row: what refers to it
\* loses its data source, and the results stay.
DeleteByCommand(s) ==
  /\ removal = NoRemoval
  /\ s \in sources
  /\ removal' = [pc |-> "purged", source |-> s, cleared |-> {}, nulled |-> {},
       purged |-> {}, rest |-> {}, raced |-> FALSE, foreign |-> FALSE]
  /\ UNCHANGED <<sources, query, stored, nextId, execution, seen, last, settled>>

StillLinked(r) == \E q \in Existing \ removal.cleared : query[q].link = r

\* Mutant: the results first, then the references to them.
PurgeUncleared ==
  /\ removal.pc = "cleared"
  /\ removal' = IF \E r \in Of(removal.source) : r \in Linked
                THEN [removal EXCEPT !.pc = "failed"]
                ELSE [removal EXCEPT !.pc = "purged", !.purged = Of(removal.source)]
  /\ UNCHANGED <<sources, query, stored, nextId, execution, seen, last, settled>>

\* The bulk deletion of its results; one that a query links to cannot go.
PurgeResults ==
  /\ removal.pc = "cleared"
  /\ removal' = IF \E r \in Of(removal.source) : StillLinked(r)
                THEN [removal EXCEPT !.pc = "failed"]
                ELSE [removal EXCEPT !.pc = "purged", !.purged = Of(removal.source)]
  /\ UNCHANGED <<sources, query, stored, nextId, execution, seen, last, settled>>

\* session.delete loads what refers to the data source by now; the flush will
\* set these references to NULL.
LoadRest ==
  /\ removal.pc = "purged"
  /\ removal' = [removal EXCEPT !.pc = "loaded",
       !.nulled = Matching(removal.source, Texts) \ removal.cleared,
       !.rest = Of(removal.source) \ removal.purged]
  /\ UNCHANGED <<sources, query, stored, nextId, execution, seen, last, settled>>

\* The row is deleted and the transaction committed, once no execution holds the
\* row; what has come to refer to it since then makes it fail.
Remove ==
  LET s == removal.source
      lost == removal.cleared \cup removal.nulled
  IN /\ removal.pc = "loaded"
     /\ \A e \in Active : execution[e].source # s
     /\ IF Matching(s, Texts) \subseteq lost /\ Of(s) \subseteq removal.purged \cup removal.rest
        THEN /\ sources' = sources \ {s}
             /\ query' = [q \in QueryIds |->
                  IF q \in removal.cleared THEN QueryRow(NoSource, query[q].text, NoResult)
                  ELSE IF q \in removal.nulled THEN [query[q] EXCEPT !.source = NoSource]
                  ELSE query[q]]
             /\ stored' = [r \in DOMAIN stored \ removal.purged |->
                  IF r \in removal.rest THEN [stored[r] EXCEPT !.source = NoSource] ELSE stored[r]]
             /\ settled' = settled \ lost
             /\ execution' = [e \in Executors |-> IF e \in Active
                  THEN [execution[e] EXCEPT !.moved = @ \cup lost] ELSE NoExecution]
             /\ removal' = NoRemoval
        ELSE /\ removal' = [removal EXCEPT !.pc = "failed"]
             /\ UNCHANGED <<sources, query, stored, settled, execution>>
     /\ UNCHANGED <<nextId, seen, last>>

\* The error is sent; or the deletion is ended for a deadlock.
EndRemoval ==
  /\ removal # NoRemoval
  /\ removal' = NoRemoval
  /\ UNCHANGED <<sources, query, stored, nextId, execution, seen, last, settled>>

-----------------------------------------------------------------------------
ResultsNext ==
  \/ \E q \in QueryIds :
       \/ \E of \in QueryIds : ForkQuery(q, of)
       \/ \E s \in Sources \cup {NoSource}, t \in Texts, r \in ResultIds \cup {NoResult} :
            CreateQuery(q, s, t, r) \/ EditQuery(q, s, t, r)
       \/ View(q)
  \/ \E s \in Sources : ClearQueries(s) \/ DeleteByCommand(s) \/ \E t \in Texts : Ask(s, t)
  \/ \E e \in Executors :
       \/ \E s \in Sources, t \in Texts : Select(e, s, t)
       \/ Store(e) \/ Abort(e)
  \/ Cleanup
  \/ PurgeResults \/ LoadRest \/ Remove \/ EndRemoval

ResultsSpec == ResultsInit /\ [][ResultsNext]_resultVars

-----------------------------------------------------------------------------
(* Properties                                                              *)

SourceOrNone == Sources \cup {NoSource}

QueryRows == [born : {TRUE}, source : SourceOrNone, text : Texts, link : {NoResult} \cup ResultIds]

\* The types of the state, and that links and data sources exist.
ResultsTypeOK ==
  /\ sources \subseteq Sources
  /\ nextId \in 1..(MaxResults + 1)
  /\ query \in [QueryIds -> {Unborn} \cup QueryRows]
  /\ DOMAIN stored \subseteq 1..(nextId - 1)
  /\ stored \in [DOMAIN stored -> [source : SourceOrNone, text : Texts]]
  /\ \A q \in Existing : Valid([query[q] EXCEPT !.link = NoResult])
  /\ \A q \in Existing : query[q].link \in DOMAIN stored \cup {NoResult}
  /\ \A e \in Active :
       execution[e].result \in 1..(nextId - 1) /\ execution[e].source \in sources
  /\ removal # NoRemoval => removal.source \in sources
  /\ seen \in 0..MaxResults

\* models/__init__.py:302-325: the queries whose text, data source and link
\* nobody wrote since an execution selected them for its result are linked to
\* the result that was stored last for their text and data source.
LinkedToLatest ==
  \A q \in settled \cap Existing :
    query[q].link = last[<<query[q].source, query[q].text>>]

\* models/__init__.py:144-149: a data source can be deleted, with its results,
\* unless a query of another data source links to one of them, or a query or
\* result came to refer to it while it was being deleted.
DeletionFailsOnlyIf ==
  removal.pc = "failed" => removal.foreign \/ removal.raced

=============================================================================
