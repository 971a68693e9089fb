---------------------------- MODULE Content_proofs ----------------------------
(***************************************************************************)
(* Proofs about what belongs to queries, and about the lists of them, for   *)
(* any number of queries, results, data sources, texts and requests: the   *)
(* types of Results, Content and Catalog, that queries are linked to the   *)
(* latest result, why the deletion of a data source fails, that archived   *)
(* queries are bare, and when a walk through the pages misses an object.   *)
(***************************************************************************)
EXTENDS Results, Content, Catalog, FiniteSetTheorems, WellFoundedInduction, TLAPS

-----------------------------------------------------------------------------
(* Results: types, and the foreign keys                                    *)

Selections ==
  [pc : {"selected"}, source : sources, text : Texts, result : 1..(nextId - 1),
   found : SUBSET Existing, moved : SUBSET QueryIds]

Removals ==
  [pc : {"cleared", "purged", "loaded", "failed"}, source : sources,
   cleared : SUBSET Existing, nulled : SUBSET Existing, purged : SUBSET DOMAIN stored,
   rest : SUBSET ResultIds, raced : BOOLEAN, foreign : BOOLEAN]

\* What the executions that are under way will insert is not there yet.
Pending ==
  \A e \in Active :
    /\ execution[e].result \notin DOMAIN stored
    /\ \A f \in Active : execution[f].result = execution[e].result => f = e

\* No query keeps a link to a result that goes with its data source.
PurgedAreUnlinked ==
  removal # NoRemoval =>
    \A q \in Existing \ removal.cleared : query[q].link \notin removal.purged

ResultsInv ==
  /\ ResultsTypeOK
  /\ execution \in [Executors -> {NoExecution} \cup Selections]
  /\ removal \in {NoRemoval} \cup Removals
  /\ last \in [Sources \X Texts -> {NoResult} \cup ResultIds]
  /\ Pending
  /\ PurgedAreUnlinked

\* Queries that nobody has written since an execution selected them are those
\* that still have its text and data source.
FoundStillMatch ==
  \A e \in Active : \A q \in Existing \ execution[e].moved :
    q \in execution[e].found <=>
      query[q].source = execution[e].source /\ query[q].text = execution[e].text

SettledExist == \A q \in settled : q \in Existing /\ query[q].source \in Sources

LinksInv == FoundStillMatch /\ SettledExist /\ LinkedToLatest

\* Until somebody interferes, the deletion of a data source has cleared or loaded
\* whatever would make it fail.
NothingInTheWay ==
  removal # NoRemoval /\ ~removal.raced =>
    /\ removal.pc = "cleared" /\ ~removal.foreign =>
         \A q \in Existing \ removal.cleared : query[q].link \notin Of(removal.source)
    /\ removal.pc = "loaded" =>
         /\ Matching(removal.source, Texts) \subseteq removal.cleared \cup removal.nulled
         /\ Of(removal.source) \subseteq removal.purged \cup removal.rest
    /\ removal.pc = "failed" => removal.foreign

\* What the invariant says of one query, one execution and the deletion.
LEMMA ResultShapes ==
  ASSUME ResultsInv
  PROVE  /\ MaxResults \in Nat /\ nextId \in 1..(MaxResults + 1) /\ DOMAIN stored \subseteq ResultIds
         /\ \A r \in DOMAIN stored :
              r # NoResult /\ stored[r].source \in SourceOrNone /\ stored[r].text \in Texts
         /\ \A q \in Existing :
              /\ q \in QueryIds /\ query[q] \in QueryRows
              /\ query[q].source \in sources \cup {NoSource}
              /\ query[q].link \in DOMAIN stored \cup {NoResult}
         /\ \A e \in Active : e \in Executors /\ execution[e] \in Selections
         /\ removal # NoRemoval => removal \in Removals
<1> USE DEF ResultsInv, ResultsTypeOK
<1>1. MaxResults \in Nat /\ nextId \in 1..(MaxResults + 1) /\ DOMAIN stored \subseteq ResultIds
  BY ResultsAssumption DEF ResultIds
<1>2. ASSUME NEW r \in DOMAIN stored
      PROVE  r # NoResult /\ stored[r].source \in SourceOrNone /\ stored[r].text \in Texts
  BY <1>1 DEF NoResult, ResultIds
<1>3. ASSUME NEW q \in Existing
      PROVE  /\ q \in QueryIds /\ query[q] \in QueryRows
             /\ query[q].source \in sources \cup {NoSource}
             /\ query[q].link \in DOMAIN stored \cup {NoResult}
  <2>1. q \in QueryIds /\ query[q] \in QueryRows
    BY DEF Existing, Unborn
  <2>2. [query[q] EXCEPT !.link = NoResult].source = query[q].source
    BY <2>1 DEF QueryRows
  <2> QED
    BY <2>1, <2>2 DEF Valid
<1>4. \A e \in Active : e \in Executors /\ execution[e] \in Selections
  BY DEF Active
<1> QED
  BY <1>1, <1>2, <1>3, <1>4

\* A query that is written refers to rows there are, and is noted by whoever is
\* under way.
LEMMA TouchKeepsInv ==
  ASSUME ResultsInv, NEW q \in QueryIds, NEW row \in QueryRows, Valid(row), Touch(q, row),
         q \notin Locked, UNCHANGED <<sources, stored, nextId, seen, last>>
  PROVE  ResultsInv'
<1>1. query' = [query EXCEPT ![q] = row] /\ Existing' = Existing \cup {q}
  BY DEF Touch, ResultsInv, ResultsTypeOK, Existing, QueryRows
<1>2. \A p \in Existing' : query'[p] = IF p = q THEN row ELSE query[p]
  BY <1>1 DEF ResultsInv, ResultsTypeOK, Existing
<1>3. row.source \in sources \cup {NoSource} /\ row.link \in DOMAIN stored \cup {NoResult}
  BY DEF Valid
<1>4. ResultsTypeOK'
  <2>1. query' \in [QueryIds -> {Unborn} \cup QueryRows]
    BY <1>1 DEF ResultsInv, ResultsTypeOK
  <2>2. \A p \in Existing' : query'[p].link \in DOMAIN stored \cup {NoResult}
    BY <1>1, <1>2, <1>3 DEF ResultsInv, ResultsTypeOK
  <2>3. ASSUME NEW p \in Existing' PROVE Valid([query[p] EXCEPT !.link = NoResult])'
    <3>1. query'[p] \in QueryRows /\ query'[p].source \in sources \cup {NoSource}
      BY <1>1, <1>2, <1>3, ResultShapes
    <3> QED
      BY <3>1 DEF Valid, QueryRows
  <2>4. \A e \in Active' : execution'[e].result \in 1..(nextId' - 1) /\ execution'[e].source \in sources'
    BY ResultShapes DEF Touch, Active, NoExecution, Selections
  <2>5. removal' # NoRemoval => removal'.source \in sources'
    BY ResultShapes DEF Touch, Removals
  <2> QED
    BY <2>1, <2>2, <2>3, <2>4, <2>5 DEF ResultsInv, ResultsTypeOK
<1>5. execution' \in [Executors -> {NoExecution} \cup Selections'] /\ Pending'
  BY <1>1, ResultShapes DEF Touch, Active, NoExecution, Selections, ResultsInv, Pending
<1>6. removal' \in {NoRemoval} \cup Removals' /\ PurgedAreUnlinked'
  BY <1>1, <1>2, ResultShapes DEF Touch, NoRemoval, Removals, ResultsInv, PurgedAreUnlinked, Locked, Valid, Doomed
<1> QED
  BY <1>4, <1>5, <1>6 DEF ResultsInv

\* The actions that write a query, and what each of them is.
WriteQuery(q) ==
  \/ \E of \in QueryIds : ForkQuery(q, of)
  \/ \E s \in Sources \cup {NoSource}, t \in Texts, r \in ResultIds \cup {NoResult} :
       CreateQuery(q, s, t, r) \/ EditQuery(q, s, t, r)

LEMMA WritesAreTouches ==
  ASSUME ResultsInv, NEW q \in QueryIds, WriteQuery(q)
  PROVE  /\ \E row \in QueryRows : Valid(row) /\ Touch(q, row)
         /\ q \notin Locked /\ UNCHANGED <<sources, stored, nextId, seen, last>>
<1>1. Locked \subseteq Existing
  BY ResultShapes DEF Locked, Removals
<1>2. ASSUME NEW of \in QueryIds, ForkQuery(q, of)
      PROVE  /\ \E row \in QueryRows : Valid(row) /\ Touch(q, row)
             /\ q \notin Locked /\ UNCHANGED <<sources, stored, nextId, seen, last>>
  BY <1>1, <1>2, ResultShapes DEF ForkQuery
<1>3. ASSUME NEW s \in Sources \cup {NoSource}, NEW t \in Texts, NEW r \in ResultIds \cup {NoResult},
             CreateQuery(q, s, t, r) \/ EditQuery(q, s, t, r)
      PROVE  /\ \E row \in QueryRows : Valid(row) /\ Touch(q, row)
             /\ q \notin Locked /\ UNCHANGED <<sources, stored, nextId, seen, last>>
  <2>1. QueryRow(s, t, r) \in QueryRows
    BY DEF QueryRow, QueryRows, SourceOrNone
  <2> QED
    BY <1>1, <1>3, <2>1 DEF CreateQuery, EditQuery
<1> QED
  BY <1>2, <1>3 DEF WriteQuery

\* Steps that write no query, result or data source.
LEMMA OthersKeepInv ==
  ASSUME ResultsInv, UNCHANGED <<sources, query, stored, nextId, last>>,
         seen' \in 0..MaxResults,
         execution' \in [Executors -> {NoExecution} \cup Selections],
         \A e \in Active' : e \in Active /\ execution'[e] = execution[e],
         removal' \in {NoRemoval} \cup Removals,
         PurgedAreUnlinked'
  PROVE  ResultsInv'
<1>1. Existing' = Existing /\ Selections' = Selections /\ Removals' = Removals
  BY DEF Existing, Selections, Removals
<1>2. ResultsTypeOK'
  <2>1. \A q \in Existing' : Valid([query[q] EXCEPT !.link = NoResult])'
    <3>1. ASSUME NEW q \in Existing' PROVE Valid([query[q] EXCEPT !.link = NoResult])'
      BY <1>1, ResultShapes DEF Valid, QueryRows
    <3> QED
      BY <3>1
  <2>2. \A e \in Active' : execution'[e].result \in 1..(nextId' - 1) /\ execution'[e].source \in sources'
    BY ResultShapes DEF Selections
  <2>3. removal' # NoRemoval => removal'.source \in sources'
    BY DEF Removals
  <2> QED
    BY <1>1, <2>1, <2>2, <2>3 DEF ResultsInv, ResultsTypeOK
<1>3. Pending'
  BY DEF Pending, ResultsInv
<1> QED
  BY <1>1, <1>2, <1>3 DEF ResultsInv

LEMMA ViewsKeepInv ==
  ASSUME ResultsInv,
         (\E q \in QueryIds : View(q)) \/ (\E s \in Sources, t \in Texts : Ask(s, t))
  PROVE  ResultsInv'
<1>1. seen' \in 0..MaxResults
  BY ResultShapes DEF View, Ask, ResultIds, NoResult
<1>2. UNCHANGED <<sources, query, stored, nextId, execution, removal, last>>
  BY DEF View, Ask
<1> QED
  BY <1>1, <1>2, OthersKeepInv DEF ResultsInv, Active, PurgedAreUnlinked, Existing

LEMMA AbortKeepsInv ==
  ASSUME ResultsInv, NEW e \in Executors, Abort(e)
  PROVE  ResultsInv'
<1>1. execution' = [execution EXCEPT ![e] = NoExecution]
  BY DEF Abort
<1>2. execution' \in [Executors -> {NoExecution} \cup Selections]
  BY <1>1 DEF ResultsInv
<1>3. \A f \in Active' : f \in Active /\ execution'[f] = execution[f]
  BY <1>1 DEF ResultsInv, Active
<1> QED
  BY <1>2, <1>3, OthersKeepInv DEF Abort, ResultsInv, ResultsTypeOK, PurgedAreUnlinked, Existing

\* An execution inserts its result with an id that was not used.
LEMMA SelectKeepsInv ==
  ASSUME ResultsInv, NEW e \in Executors, NEW s \in Sources, NEW t \in Texts, Select(e, s, t)
  PROVE  ResultsInv'
<1> DEFINE x == [pc |-> "selected", source |-> s, text |-> t, result |-> nextId,
                 found |-> Matching(s, {t}), moved |-> {}]
<1>1. nextId \in Nat /\ nextId' = nextId + 1 /\ nextId' \in 1..(MaxResults + 1)
  BY ResultShapes DEF Select
<1>2. UNCHANGED <<sources, query, stored, removal, seen, last>> /\ Existing' = Existing
  BY DEF Select, Existing
<1>3. Active' = Active \cup {e} /\ e \notin Active
      /\ \A f \in Executors : execution'[f] = IF f = e THEN x ELSE execution[f]
  BY DEF Select, Active, ResultsInv, NoExecution
<1>4. x \in Selections' /\ \A f \in Active : execution[f] \in Selections'
  BY <1>1, <1>2, ResultShapes DEF Select, Matching, Selections
<1>5. execution' \in [Executors -> {NoExecution} \cup Selections']
  BY <1>3, <1>4 DEF Select, ResultsInv, Active
<1>6. ResultsTypeOK'
  <2>1. DOMAIN stored \subseteq 1..(nextId' - 1)
    BY <1>1 DEF ResultsInv, ResultsTypeOK
  <2>2. ASSUME NEW f \in Active'
        PROVE  execution'[f].result \in 1..(nextId' - 1) /\ execution'[f].source \in sources'
    <3>1. execution'[f] \in Selections'
      BY <1>3, <1>4 DEF Active
    <3> QED
      BY <3>1 DEF Selections
  <2>3. \A q \in Existing' : Valid([query[q] EXCEPT !.link = NoResult])'
    BY <1>2 DEF ResultsInv, ResultsTypeOK, Valid, Doomed
  <2> QED
    BY <1>1, <1>2, <2>1, <2>2, <2>3 DEF ResultsInv, ResultsTypeOK
<1>7. Pending'
  <2>1. nextId \notin DOMAIN stored /\ \A f \in Active : execution[f].result # nextId
    BY <1>1, ResultShapes DEF ResultsInv, ResultsTypeOK
  <2>2. ASSUME NEW f \in Active', NEW g \in Active', execution'[g].result = execution'[f].result
        PROVE  g = f
    BY <1>3, <2>1, <2>2 DEF Pending, ResultsInv, Active
  <2>3. \A f \in Active' : execution'[f].result \notin DOMAIN stored
    BY <1>3, <2>1 DEF Pending, ResultsInv, Active
  <2> QED
    BY <1>2, <2>2, <2>3 DEF Pending
<1>8. removal' \in {NoRemoval} \cup Removals' /\ PurgedAreUnlinked'
  BY <1>2 DEF ResultsInv, Removals, PurgedAreUnlinked
<1> QED
  BY <1>2, <1>5, <1>6, <1>7, <1>8 DEF ResultsInv

\* An execution links the queries that it has found and commits.
LEMMA StoreKeepsInv ==
  ASSUME ResultsInv, NEW e \in Executors, Store(e)
  PROVE  ResultsInv'
<1> DEFINE x == execution[e]
<1>1. /\ x \in Selections /\ e \in Active /\ x.result \in ResultIds
      /\ x.source \in sources /\ sources \subseteq Sources /\ x.found \subseteq Existing
  BY ResultShapes DEF Store, Active, Selections, ResultIds, ResultsInv, ResultsTypeOK
<1>2. /\ UNCHANGED <<sources, nextId, seen>>
      /\ stored' = [r \in DOMAIN stored \cup {x.result} |->
           IF r = x.result THEN [source |-> x.source, text |-> x.text] ELSE stored[r]]
      /\ x.found \cap Locked = {}
      /\ execution' = [execution EXCEPT ![e] = NoExecution]
      /\ last' = [last EXCEPT ![<<x.source, x.text>>] = x.result]
  BY DEF Store
<1>3. /\ query' \in [QueryIds -> {Unborn} \cup QueryRows]
      /\ Existing' = Existing
      /\ \A q \in Existing :
           query'[q] = IF q \in x.found THEN [query[q] EXCEPT !.link = x.result] ELSE query[q]
  <2>1. \A q \in QueryIds : query'[q] = IF q \in x.found THEN [query[q] EXCEPT !.link = x.result] ELSE query[q]
    BY DEF Store
  <2>2. ASSUME NEW q \in QueryIds
        PROVE  /\ query'[q] \in {Unborn} \cup QueryRows
               /\ q \in Existing' <=> q \in Existing
    <3>1. CASE q \in x.found
      <4>1. q \in Existing /\ query[q] \in QueryRows
        BY <1>1, <3>1, ResultShapes
      <4>2. query'[q] = [query[q] EXCEPT !.link = x.result]
        BY <2>1, <3>1
      <4>3. query'[q] \in QueryRows
        BY <1>1, <4>1, <4>2 DEF QueryRows
      <4> QED
        BY <4>1, <4>3 DEF QueryRows, Existing
    <3>2. CASE q \notin x.found
      BY <2>1, <3>2 DEF ResultsInv, ResultsTypeOK, Existing
    <3> QED
      BY <3>1, <3>2
  <2> QED
    BY <2>1, <2>2 DEF Store, Existing
<1>4. DOMAIN stored' = DOMAIN stored \cup {x.result} /\ x.result \notin DOMAIN stored
  BY <1>1, <1>2 DEF ResultsInv, Pending
<1>5. Active' = Active \ {e} /\ \A f \in Active' : execution'[f] = execution[f]
  BY <1>2 DEF Active, ResultsInv
<1>6. ResultsTypeOK'
  <2>1. DOMAIN stored' \subseteq 1..(nextId' - 1)
    BY <1>1, <1>2, <1>4 DEF Selections, ResultsInv, ResultsTypeOK
  <2>2. stored' \in [DOMAIN stored' -> [source : SourceOrNone, text : Texts]]
    BY <1>1, <1>2, <1>4, ResultShapes DEF Selections, SourceOrNone, ResultsInv, ResultsTypeOK
  <2>3. ASSUME NEW q \in Existing'
        PROVE  /\ Valid([query[q] EXCEPT !.link = NoResult])'
               /\ query'[q].link \in DOMAIN stored' \cup {NoResult}
    BY <1>2, <1>3, <1>4, ResultShapes DEF Valid, QueryRows
  <2>4. removal' # NoRemoval => removal'.source \in sources'
    BY <1>2, ResultShapes DEF Store, Removals
  <2>5. \A f \in Active' : execution'[f].result \in 1..(nextId' - 1) /\ execution'[f].source \in sources'
    BY <1>2, <1>5, ResultShapes DEF Selections
  <2>6. sources' \subseteq Sources /\ nextId' \in 1..(MaxResults + 1) /\ seen' \in 0..MaxResults
    BY <1>2 DEF ResultsInv, ResultsTypeOK
  <2>7. /\ \A q \in Existing' : Valid([query[q] EXCEPT !.link = NoResult])'
        /\ \A q \in Existing' : query'[q].link \in DOMAIN stored' \cup {NoResult}
    BY <2>3
  <2> QED
    BY <1>3, <2>1, <2>2, <2>4, <2>5, <2>6, <2>7 DEF ResultsTypeOK
<1>7. execution' \in [Executors -> {NoExecution} \cup Selections'] /\ Pending'
  <2>1. \A f \in Executors : execution'[f] = IF f = e THEN NoExecution ELSE execution[f]
    BY <1>2 DEF ResultsInv
  <2>2. Selections' = Selections
    BY <1>2, <1>3 DEF Selections
  <2> QED
    BY <1>1, <1>2, <1>4, <1>5, <2>1, <2>2 DEF ResultsInv, Pending
<1>8. last' \in [Sources \X Texts -> {NoResult} \cup ResultIds]
  BY <1>1, <1>2 DEF ResultsInv
<1>9. removal' \in {NoRemoval} \cup Removals'
  <2>1. removal # NoRemoval => removal \in Removals'
    BY <1>2, <1>3, <1>4, ResultShapes DEF Removals
  <2> QED
    BY <2>1 DEF Store, Removals
<1>10. PurgedAreUnlinked'
  <2>1. /\ removal' # NoRemoval => removal # NoRemoval
        /\ removal # NoRemoval => removal'.cleared = removal.cleared /\ removal'.purged = removal.purged
    BY ResultShapes DEF Store, Removals
  <2>2. removal # NoRemoval => x.result \notin removal.purged
    BY <1>4, ResultShapes DEF Removals
  <2>3. ASSUME NEW q \in Existing', removal' # NoRemoval, q \notin removal'.cleared
        PROVE  query'[q].link \notin removal'.purged
    BY <1>3, <2>1, <2>2, <2>3, ResultShapes DEF QueryRows, ResultsInv, PurgedAreUnlinked
  <2> QED
    BY <2>3 DEF PurgedAreUnlinked
<1> QED
  BY <1>6, <1>7, <1>8, <1>9, <1>10 DEF ResultsInv

\* What is cleaned up, nobody links to.
LEMMA CleanupKeepsInv ==
  ASSUME ResultsInv, Cleanup
  PROVE  ResultsInv'
<1>1. PICK S \in SUBSET (DOMAIN stored \ (Linked \cup Doomed)) :
        stored' = [r \in DOMAIN stored \ S |-> stored[r]]
  BY DEF Cleanup
<1>2. /\ UNCHANGED <<sources, query, nextId, execution, removal, seen, last>>
      /\ DOMAIN stored' = DOMAIN stored \ S /\ Existing' = Existing
  BY <1>1 DEF Cleanup, Existing
<1>3. ResultsTypeOK'
  <2>1. stored' \in [DOMAIN stored' -> [source : SourceOrNone, text : Texts]]
    BY <1>1, <1>2 DEF ResultsInv, ResultsTypeOK
  <2>2. ASSUME NEW q \in Existing'
        PROVE  /\ Valid([query[q] EXCEPT !.link = NoResult])'
               /\ query'[q].link \in DOMAIN stored' \cup {NoResult}
    BY <1>1, <1>2, ResultShapes DEF Valid, QueryRows, Linked
  <2>3. DOMAIN stored' \subseteq 1..(nextId' - 1)
    BY <1>2 DEF ResultsInv, ResultsTypeOK
  <2>4. /\ \A e \in Active' :
             execution'[e].result \in 1..(nextId' - 1) /\ execution'[e].source \in sources'
        /\ removal' # NoRemoval => removal'.source \in sources'
        /\ seen' \in 0..MaxResults /\ sources' \subseteq Sources
        /\ nextId' \in 1..(MaxResults + 1) /\ query' \in [QueryIds -> {Unborn} \cup QueryRows]
    BY <1>2 DEF ResultsInv, ResultsTypeOK, Active
  <2>5. /\ \A q \in Existing' : Valid([query[q] EXCEPT !.link = NoResult])'
        /\ \A q \in Existing' : query'[q].link \in DOMAIN stored' \cup {NoResult}
    BY <2>2
  <2> QED
    BY <2>1, <2>3, <2>4, <2>5 DEF ResultsTypeOK
<1>4. execution' \in [Executors -> {NoExecution} \cup Selections']
  BY <1>2 DEF Selections, ResultsInv
<1>5. Pending'
  BY <1>2 DEF Pending, ResultsInv, Active
<1>6. removal' \in {NoRemoval} \cup Removals'
  <2>1. CASE removal # NoRemoval
    BY <1>1, <1>2, <2>1, ResultShapes DEF Removals, Doomed
  <2> QED
    BY <1>2, <2>1
<1>7. PurgedAreUnlinked'
  BY <1>2 DEF ResultsInv, PurgedAreUnlinked
<1> QED
  BY <1>2, <1>3, <1>4, <1>5, <1>6, <1>7 DEF ResultsInv

\* The steps of a deletion before the last one write nothing that others see.
StepOfRemoval ==
  (\E s \in Sources : ClearQueries(s) \/ DeleteByCommand(s)) \/ PurgeResults \/ LoadRest \/ EndRemoval

LEMMA RemovalKeepsInv ==
  ASSUME ResultsInv, StepOfRemoval
  PROVE  ResultsInv'
<1> USE DEF StepOfRemoval
<1>1. UNCHANGED <<sources, query, stored, nextId, execution, seen, last>>
  BY DEF ClearQueries, DeleteByCommand, PurgeResults, LoadRest, EndRemoval
<1>2. (PurgeResults \/ LoadRest) => removal \in Removals
  BY ResultShapes DEF PurgeResults, LoadRest, NoRemoval
<1>3. removal' \in {NoRemoval} \cup Removals /\ PurgedAreUnlinked'
  <2>1. ASSUME NEW s \in Sources, ClearQueries(s)
        PROVE  removal' \in {NoRemoval} \cup Removals /\ PurgedAreUnlinked'
    BY <1>1, <2>1, ResultShapes DEF ClearQueries, Removals, Matching, Elsewhere, PurgedAreUnlinked, Existing
  <2>2. ASSUME NEW s \in Sources, DeleteByCommand(s)
        PROVE  removal' \in {NoRemoval} \cup Removals /\ PurgedAreUnlinked'
    BY <1>1, <2>2, ResultShapes DEF DeleteByCommand, Removals, PurgedAreUnlinked, Existing
  <2>3. CASE PurgeResults
    <3>1. CASE \E r \in Of(removal.source) : StillLinked(r)
      <4>1. removal' = [removal EXCEPT !.pc = "failed"]
        BY <2>3, <3>1 DEF PurgeResults
      <4> QED
        BY <1>1, <1>2, <2>3, <4>1 DEF Removals, PurgedAreUnlinked, ResultsInv, Existing, NoRemoval
    <3>2. CASE ~ \E r \in Of(removal.source) : StillLinked(r)
      <4>1. removal' = [removal EXCEPT !.pc = "purged", !.purged = Of(removal.source)]
        BY <2>3, <3>2 DEF PurgeResults
      <4>2. removal' \in Removals /\ removal'.cleared = removal.cleared
            /\ removal'.purged = Of(removal.source)
        BY <1>2, <2>3, <4>1 DEF Removals, Of
      <4>3. PurgedAreUnlinked'
        BY <1>1, <3>2, <4>2 DEF PurgedAreUnlinked, StillLinked, Existing
      <4> QED
        BY <4>2, <4>3
    <3> QED
      BY <3>1, <3>2
  <2>4. CASE LoadRest
    <3>1. removal' \in Removals /\ removal'.cleared = removal.cleared
          /\ removal'.purged = removal.purged
      BY <1>2, <2>4, ResultShapes DEF LoadRest, Removals, Matching, Of
    <3>2. removal # NoRemoval
      BY <2>4 DEF LoadRest, NoRemoval
    <3> QED
      BY <1>1, <3>1, <3>2 DEF PurgedAreUnlinked, ResultsInv, Existing
  <2>5. CASE EndRemoval
    BY <2>5 DEF EndRemoval, PurgedAreUnlinked
  <2> QED
    BY <2>1, <2>2, <2>3, <2>4, <2>5
<1> QED
  BY <1>1, <1>3, OthersKeepInv DEF ResultsInv, ResultsTypeOK, Active

\* A deletion commits only when nothing refers to the data source or its results.
LEMMA RemoveKeepsInv ==
  ASSUME ResultsInv, Remove
  PROVE  ResultsInv'
<1> DEFINE s == removal.source
           lost == removal.cleared \cup removal.nulled
<1>1. removal \in Removals /\ removal # NoRemoval
  BY ResultShapes DEF Remove, NoRemoval
<1>2. UNCHANGED <<nextId, seen, last>>
  BY DEF Remove
<1>3. CASE ~(Matching(s, Texts) \subseteq lost /\ Of(s) \subseteq removal.purged \cup removal.rest)
  <2>1. removal' = [removal EXCEPT !.pc = "failed"] /\ UNCHANGED <<sources, query, stored, execution>>
    BY <1>3 DEF Remove
  <2>2. removal' \in Removals /\ removal'.cleared = removal.cleared
        /\ removal'.purged = removal.purged
    BY <1>1, <2>1 DEF Removals
  <2>3. PurgedAreUnlinked'
    BY <1>1, <2>1, <2>2 DEF PurgedAreUnlinked, ResultsInv, Existing
  <2> QED
    BY <1>2, <2>1, <2>2, <2>3, OthersKeepInv DEF ResultsInv, ResultsTypeOK, Active
<1>4. CASE Matching(s, Texts) \subseteq lost /\ Of(s) \subseteq removal.purged \cup removal.rest
  <2>1. /\ \A e \in Active : execution[e].source # s
        /\ sources' = sources \ {s} /\ removal' = NoRemoval
        /\ query' = [q \in QueryIds |->
             IF q \in removal.cleared THEN QueryRow(NoSource, query[q].text, NoResult)
             ELSE IF q \in removal.nulled THEN [query[q] EXCEPT !.source = NoSource]
             ELSE query[q]]
        /\ stored' = [r \in DOMAIN stored \ removal.purged |->
             IF r \in removal.rest THEN [stored[r] EXCEPT !.source = NoSource] ELSE stored[r]]
        /\ execution' = [e \in Executors |-> IF e \in Active
             THEN [execution[e] EXCEPT !.moved = @ \cup lost] ELSE NoExecution]
    BY <1>4 DEF Remove
  <2>2. ASSUME NEW q \in QueryIds
        PROVE  /\ query'[q] \in {Unborn} \cup QueryRows
               /\ q \in Existing' <=> q \in Existing
    <3>1. CASE q \in Existing
      <4>1. query[q] \in QueryRows
        BY <3>1, ResultShapes
      <4>2. query'[q] \in QueryRows
        BY <2>1, <4>1 DEF QueryRow, QueryRows, SourceOrNone
      <4> QED
        BY <3>1, <4>2 DEF QueryRows, Existing
    <3>2. CASE q \notin Existing
      BY <1>1, <2>1, <3>2 DEF Removals, Existing, ResultsInv, ResultsTypeOK
    <3> QED
      BY <3>1, <3>2
  <2>3. Existing' = Existing /\ query' \in [QueryIds -> {Unborn} \cup QueryRows]
    BY <2>1, <2>2 DEF Existing
  <2>4. DOMAIN stored' = DOMAIN stored \ removal.purged
        /\ stored' \in [DOMAIN stored' -> [source : SourceOrNone, text : Texts]]
    BY <2>1, ResultShapes DEF SourceOrNone, ResultsInv, ResultsTypeOK
  <2>5. ASSUME NEW q \in Existing
        PROVE  /\ query'[q].source \in sources' \cup {NoSource}
               /\ query'[q].link \in DOMAIN stored' \cup {NoResult}
    <3>1. query[q] \in QueryRows /\ q \in QueryIds
      BY ResultShapes
    <3>2. CASE q \in removal.cleared
      BY <2>1, <3>1, <3>2 DEF QueryRow
    <3>3. CASE q \notin removal.cleared
      <4>1. query[q].link \in DOMAIN stored' \cup {NoResult}
        BY <1>1, <2>4, <3>3, ResultShapes DEF ResultsInv, PurgedAreUnlinked
      <4>2. query'[q].link = query[q].link
            /\ query'[q].source = IF q \in removal.nulled THEN NoSource ELSE query[q].source
        BY <2>1, <3>1, <3>3 DEF QueryRows
      <4>3. q \notin removal.nulled => query[q].source # s
        BY <1>4, <3>1, <3>3 DEF Matching, QueryRows
      <4> QED
        BY <2>1, <4>1, <4>2, <4>3, ResultShapes
    <3> QED
      BY <3>2, <3>3
  <2>6. ASSUME NEW e \in Executors
        PROVE  /\ e \in Active' <=> e \in Active
               /\ e \notin Active => execution'[e] = NoExecution
               /\ e \in Active => /\ execution'[e] \in Selections'
                                  /\ execution'[e].result = execution[e].result
    <3>1. CASE e \in Active
      <4>1. execution[e] \in Selections
        BY <3>1, ResultShapes
      <4>2. execution'[e] = [execution[e] EXCEPT !.moved = @ \cup lost]
        BY <2>1, <3>1
      <4>3. lost \subseteq QueryIds
        BY <1>1 DEF Removals, Existing
      <4>4. execution'[e] \in Selections' /\ execution'[e].result = execution[e].result
        BY <1>2, <2>1, <2>3, <3>1, <4>1, <4>2, <4>3 DEF Selections
      <4> QED
        BY <3>1, <4>4 DEF Active, Selections, NoExecution
    <3>2. CASE e \notin Active
      BY <2>1, <3>2 DEF Active
    <3> QED
      BY <3>1, <3>2
  <2>7. execution' \in [Executors -> {NoExecution} \cup Selections']
    BY <2>1, <2>6
  <2>8. Pending'
    BY <2>4, <2>6 DEF Pending, Active, ResultsInv
  <2>9. ResultsTypeOK'
    <3>1. \A q \in Existing' : Valid([query[q] EXCEPT !.link = NoResult])'
      <4>1. ASSUME NEW q \in Existing' PROVE Valid([query[q] EXCEPT !.link = NoResult])'
        <5>1. query'[q] \in QueryRows
          BY <2>3 DEF Existing, Unborn
        <5> QED
          BY <2>3, <2>5, <5>1 DEF Valid, QueryRows
      <4> QED
        BY <4>1
    <3>2. \A e \in Active' : execution'[e].result \in 1..(nextId' - 1) /\ execution'[e].source \in sources'
      BY <2>6 DEF Active, Selections
    <3>3. /\ sources' \subseteq Sources /\ nextId' \in 1..(MaxResults + 1)
          /\ seen' \in 0..MaxResults /\ DOMAIN stored' \subseteq 1..(nextId' - 1)
      BY <1>2, <2>1, <2>4 DEF ResultsInv, ResultsTypeOK
    <3> QED
      BY <2>1, <2>3, <2>4, <2>5, <3>1, <3>2, <3>3 DEF ResultsTypeOK
  <2> QED
    BY <1>2, <2>1, <2>7, <2>8, <2>9 DEF ResultsInv, PurgedAreUnlinked
<1> QED
  BY <1>3, <1>4

LEMMA InitResultsInv ==
  ASSUME ResultsInit
  PROVE  ResultsInv /\ LinksInv /\ NothingInTheWay
<1>1. ASSUME NEW q \in Existing
      PROVE  \E s \in Sources, t \in Texts : query[q] = QueryRow(s, t, NoResult)
  BY DEF ResultsInit, Existing, Unborn
<1>2. Active = {} /\ removal = NoRemoval /\ settled = {}
  BY DEF ResultsInit, Active
<1>3. query \in [QueryIds -> {Unborn} \cup QueryRows]
  <2>1. \A s \in Sources, t \in Texts : QueryRow(s, t, NoResult) \in QueryRows
    BY DEF QueryRow, QueryRows, SourceOrNone
  <2>2. ASSUME NEW q \in QueryIds
        PROVE  query[q] = Unborn \/ \E s \in Sources, t \in Texts : query[q] = QueryRow(s, t, NoResult)
    BY DEF ResultsInit
  <2>3. query = [q \in QueryIds |-> query[q]]
    BY DEF ResultsInit
  <2> QED
    BY <2>1, <2>2, <2>3
<1>4. ASSUME NEW q \in Existing
      PROVE  Valid([query[q] EXCEPT !.link = NoResult]) /\ query[q].link = NoResult
  <2>1. PICK s \in Sources, t \in Texts : query[q] = QueryRow(s, t, NoResult)
    BY <1>1
  <2>2. query[q].link = NoResult
    BY <2>1 DEF QueryRow
  <2>3. /\ [query[q] EXCEPT !.link = NoResult].source = s
        /\ [query[q] EXCEPT !.link = NoResult].link = NoResult
    BY <2>1 DEF QueryRow
  <2> QED
    BY <2>2, <2>3 DEF Valid, ResultsInit
<1>5. ResultsTypeOK
  <2>1. stored = [r \in {} |-> Unborn]
    BY DEF ResultsInit
  <2>2. DOMAIN stored = {} /\ stored \in [DOMAIN stored -> [source : SourceOrNone, text : Texts]]
    BY <2>1
  <2>3. sources \subseteq Sources /\ nextId \in 1..(MaxResults + 1) /\ seen \in 0..MaxResults
    BY ResultsAssumption DEF ResultsInit, NoResult
  <2> QED
    BY <1>2, <1>3, <1>4, <2>2, <2>3 DEF ResultsTypeOK
<1>6. last \in [Sources \X Texts -> {NoResult} \cup ResultIds]
  BY DEF ResultsInit
<1>7. execution \in [Executors -> {NoExecution} \cup Selections]
  BY DEF ResultsInit
<1>8. removal = NoRemoval => removal.pc # "failed"
  BY DEF NoRemoval
<1> QED
  BY <1>2, <1>5, <1>6, <1>7, <1>8 DEF ResultsInv, Pending, PurgedAreUnlinked, LinksInv, FoundStillMatch,
     SettledExist, LinkedToLatest, NothingInTheWay

LEMMA NextKeepsResultsInv ==
  ASSUME ResultsInv, [ResultsNext]_resultVars
  PROVE  ResultsInv'
<1>1. CASE ResultsNext
  <2>1. ASSUME NEW q \in QueryIds, WriteQuery(q) PROVE ResultsInv'
    BY <2>1, WritesAreTouches, TouchKeepsInv
  <2> QED
    BY <1>1, <2>1, ViewsKeepInv, SelectKeepsInv, StoreKeepsInv, AbortKeepsInv, CleanupKeepsInv,
       RemovalKeepsInv, RemoveKeepsInv DEF ResultsNext, WriteQuery, StepOfRemoval
<1>2. CASE UNCHANGED resultVars
  BY <1>2, OthersKeepInv DEF resultVars, ResultsInv, ResultsTypeOK, Active, PurgedAreUnlinked, Existing
<1> QED
  BY <1>1, <1>2

\* The types of Results, and its foreign keys: a query's data source and result
\* are rows there are, whatever is stored, cleaned up and deleted at a time
\* (models/__init__.py:144, :276, :302; tasks/queries.py:196).
THEOREM ResultsTypeCorrect == ResultsSpec => []ResultsTypeOK
<1>1. ResultsInit => ResultsInv
  BY InitResultsInv
<1>2. ResultsInv /\ [ResultsNext]_resultVars => ResultsInv'
  BY NextKeepsResultsInv
<1>3. ResultsInv => ResultsTypeOK
  BY DEF ResultsInv
<1> QED
  BY <1>1, <1>2, <1>3, PTL DEF ResultsSpec

-----------------------------------------------------------------------------
(* Results: the result that a query links to                               *)

\* Whoever writes a query takes it from the settled ones, and from those that the
\* executions under way have selected rightly.
LEMMA TouchKeepsLinks ==
  ASSUME ResultsInv, LinksInv, NEW q \in QueryIds, NEW row \in QueryRows, Touch(q, row), last' = last
  PROVE  LinksInv'
<1>1. \A p \in Existing' : p # q => p \in Existing /\ query'[p] = query[p]
  BY DEF Touch, ResultsInv, ResultsTypeOK, Existing
<1>2. ASSUME NEW e \in Active'
      PROVE  /\ e \in Active /\ execution'[e].moved = execution[e].moved \cup {q}
             /\ execution'[e].found = execution[e].found
             /\ execution'[e].source = execution[e].source /\ execution'[e].text = execution[e].text
  <2>1. e \in Active /\ execution'[e] = [execution[e] EXCEPT !.moved = @ \cup {q}]
    BY DEF Touch, Active
  <2>2. execution[e] \in Selections
    BY <2>1, ResultShapes
  <2> QED
    BY <2>1, <2>2 DEF Selections
<1>3. settled' = settled \ {q}
  BY DEF Touch
<1>4. FoundStillMatch'
  BY <1>1, <1>2 DEF LinksInv, FoundStillMatch
<1>5. SettledExist' /\ LinkedToLatest'
  <2>1. Existing \subseteq Existing'
    BY DEF Touch, ResultsInv, ResultsTypeOK, Existing, QueryRows
  <2> QED
    BY <1>1, <1>3, <2>1 DEF LinksInv, SettledExist, LinkedToLatest
<1> QED
  BY <1>4, <1>5 DEF LinksInv

\* An execution settles the queries that it links and nobody wrote meanwhile; the
\* other settled ones have another text or data source.
LEMMA StoreKeepsLinks ==
  ASSUME ResultsInv, LinksInv, NEW e \in Executors, Store(e)
  PROVE  LinksInv'
<1> DEFINE x == execution[e]
<1>1. /\ e \in Active /\ x \in Selections /\ x.source \in Sources /\ x.text \in Texts
      /\ x.found \subseteq Existing
  BY ResultShapes DEF Store, Active, Selections, ResultsInv, ResultsTypeOK
<1>2. /\ settled' = (settled \cup x.found) \ x.moved
      /\ last' = [last EXCEPT ![<<x.source, x.text>>] = x.result]
      /\ execution' = [execution EXCEPT ![e] = NoExecution]
  BY DEF Store
<1>3. Existing' = Existing
      /\ \A q \in Existing : /\ query'[q].source = query[q].source /\ query'[q].text = query[q].text
                             /\ query'[q].link = IF q \in x.found THEN x.result ELSE query[q].link
  <2>1. ASSUME NEW q \in QueryIds
        PROVE  /\ q \in Existing' <=> q \in Existing
               /\ q \in Existing =>
                    /\ query'[q].source = query[q].source /\ query'[q].text = query[q].text
                    /\ query'[q].link = IF q \in x.found THEN x.result ELSE query[q].link
    <3>1. query'[q] = IF q \in x.found THEN [query[q] EXCEPT !.link = x.result] ELSE query[q]
      BY DEF Store
    <3>2. q \in Existing => query[q] \in QueryRows
      BY ResultShapes
    <3> QED
      BY <1>1, <3>1, <3>2 DEF QueryRows, Existing
  <2> QED
    BY <2>1 DEF Existing
<1>4. FoundStillMatch'
  <2>1. \A f \in Active' : f \in Active /\ execution'[f] = execution[f]
    BY <1>2 DEF Active, ResultsInv
  <2> QED
    BY <1>3, <2>1 DEF LinksInv, FoundStillMatch
<1>5. ASSUME NEW q \in settled'
      PROVE  /\ q \in Existing' /\ query'[q].source \in Sources
             /\ query'[q].link = last'[<<query'[q].source, query'[q].text>>]
  <2>1. q \in Existing /\ q \notin x.moved
    BY <1>1, <1>2 DEF LinksInv, SettledExist
  <2>2. q \in x.found <=> query[q].source = x.source /\ query[q].text = x.text
    BY <1>1, <2>1 DEF LinksInv, FoundStillMatch
  <2>3. query[q].text \in Texts
    BY <2>1, ResultShapes DEF QueryRows
  <2>4. CASE q \in x.found
    BY <1>1, <1>2, <1>3, <2>1, <2>2, <2>4 DEF ResultsInv
  <2>5. CASE q \notin x.found
    <3>1. q \in settled /\ query[q].source \in Sources
          /\ query[q].link = last[<<query[q].source, query[q].text>>]
      BY <1>2, <2>1, <2>5 DEF LinksInv, SettledExist, LinkedToLatest
    <3>2. <<query[q].source, query[q].text>> # <<x.source, x.text>>
      BY <2>2, <2>5
    <3> QED
      BY <1>2, <1>3, <2>1, <2>3, <2>5, <3>1, <3>2 DEF ResultsInv
  <2> QED
    BY <2>4, <2>5
<1> QED
  BY <1>4, <1>5 DEF LinksInv, SettledExist, LinkedToLatest

LEMMA RemoveKeepsLinks ==
  ASSUME ResultsInv, LinksInv, Remove
  PROVE  LinksInv'
<1> DEFINE s == removal.source
           lost == removal.cleared \cup removal.nulled
<1>1. CASE UNCHANGED <<query, execution, settled, last>>
  BY <1>1 DEF LinksInv, FoundStillMatch, SettledExist, LinkedToLatest, Existing, Active
<1>2. CASE Matching(s, Texts) \subseteq lost /\ Of(s) \subseteq removal.purged \cup removal.rest
  <2>1. /\ settled' = settled \ lost /\ last' = last
        /\ query' = [q \in QueryIds |->
             IF q \in removal.cleared THEN QueryRow(NoSource, query[q].text, NoResult)
             ELSE IF q \in removal.nulled THEN [query[q] EXCEPT !.source = NoSource]
             ELSE query[q]]
        /\ execution' = [e \in Executors |-> IF e \in Active
             THEN [execution[e] EXCEPT !.moved = @ \cup lost] ELSE NoExecution]
    BY <1>2 DEF Remove
  <2>2. \A q \in QueryIds \ lost : query'[q] = query[q] /\ (q \in Existing' <=> q \in Existing)
    BY <2>1 DEF Existing
  <2>3. ASSUME NEW e \in Active'
        PROVE  /\ e \in Active /\ execution'[e].moved = execution[e].moved \cup lost
               /\ execution'[e].found = execution[e].found
               /\ execution'[e].source = execution[e].source /\ execution'[e].text = execution[e].text
    <3>1. e \in Active /\ execution'[e] = [execution[e] EXCEPT !.moved = @ \cup lost]
      BY <2>1 DEF Active
    <3>2. execution[e] \in Selections
      BY <3>1, ResultShapes
    <3> QED
      BY <3>1, <3>2 DEF Selections
  <2>4. FoundStillMatch'
    <3>1. ASSUME NEW e \in Active', NEW q \in Existing', q \notin execution'[e].moved
          PROVE  q \in execution'[e].found <=>
                   query'[q].source = execution'[e].source /\ query'[q].text = execution'[e].text
      <4>1. q \in QueryIds \ lost
        BY <2>3, <3>1 DEF Existing
      <4> QED
        BY <2>2, <2>3, <3>1, <4>1 DEF LinksInv, FoundStillMatch
    <3> QED
      BY <3>1 DEF FoundStillMatch
  <2>5. ASSUME NEW q \in settled'
        PROVE  q \in Existing' /\ q \in Existing /\ q \in settled /\ query'[q] = query[q]
    BY <2>1, <2>2 DEF LinksInv, SettledExist, Existing
  <2> QED
    BY <2>1, <2>4, <2>5 DEF LinksInv, SettledExist, LinkedToLatest
<1> QED
  BY <1>1, <1>2 DEF Remove

LEMMA NextKeepsLinks ==
  ASSUME ResultsInv, LinksInv, [ResultsNext]_resultVars
  PROVE  LinksInv'
<1> USE DEF LinksInv, FoundStillMatch, SettledExist, LinkedToLatest, Existing, Active
<1>1. CASE UNCHANGED <<query, execution, settled, last>>
  BY <1>1
<1>2. ASSUME NEW e \in Executors, Abort(e)
      PROVE  LinksInv'
  <2>1. UNCHANGED <<query, settled, last>>
        /\ \A f \in Active' : f \in Active /\ execution'[f] = execution[f]
    BY <1>2 DEF Abort, ResultsInv
  <2> QED
    BY <2>1
<1>3. ASSUME NEW e \in Executors, NEW s \in Sources, NEW t \in Texts, Select(e, s, t)
      PROVE  LinksInv'
  <2>1. UNCHANGED <<query, settled, last>>
        /\ \A f \in Executors : execution'[f] = IF f = e
             THEN [pc |-> "selected", source |-> s, text |-> t, result |-> nextId,
                   found |-> Matching(s, {t}), moved |-> {}]
             ELSE execution[f]
    BY <1>3 DEF Select, ResultsInv
  <2>2. Matching(s, {t}) = {q \in Existing : query[q].source = s /\ query[q].text = t}
    BY DEF Matching
  <2>3. ASSUME NEW f \in Active', NEW q \in Existing', q \notin execution'[f].moved
        PROVE  q \in execution'[f].found <=>
                 query'[q].source = execution'[f].source /\ query'[q].text = execution'[f].text
    <3>1. CASE f = e
      <4> HIDE DEF LinksInv, FoundStillMatch, SettledExist, LinkedToLatest, Existing
      <4>1. execution'[f].found = Matching(s, {t}) /\ execution'[f].source = s /\ execution'[f].text = t
        BY <1>3, <2>1, <3>1
      <4>2. query' = query /\ Existing' = Existing
        BY <2>1 DEF Existing
      <4> QED
        BY <2>2, <4>1, <4>2
    <3>2. CASE f # e
      <4>1. f \in Active /\ execution'[f] = execution[f]
        BY <2>1, <3>2
      <4> QED
        BY <2>1, <2>3, <4>1
    <3> QED
      BY <3>1, <3>2
  <2> QED
    BY <2>1, <2>3
<1>4. CASE ResultsNext
  <2>1. ASSUME NEW q \in QueryIds, WriteQuery(q) PROVE LinksInv'
    BY <2>1, WritesAreTouches, TouchKeepsLinks
  <2>2. \/ \E q \in QueryIds : View(q)
        \/ \E s \in Sources, t \in Texts : Ask(s, t)
        \/ Cleanup \/ StepOfRemoval
        => UNCHANGED <<query, execution, settled, last>>
    BY DEF View, Ask, Cleanup, StepOfRemoval, ClearQueries, DeleteByCommand, PurgeResults, LoadRest, EndRemoval
  <2>3. /\ \A e \in Executors : Store(e) => LinksInv'
        /\ Remove => LinksInv'
    BY StoreKeepsLinks, RemoveKeepsLinks
  <2> HIDE DEF LinksInv
  <2> QED
    BY <1>1, <1>2, <1>3, <1>4, <2>1, <2>2, <2>3 DEF ResultsNext, WriteQuery, StepOfRemoval
<1> QED
  BY <1>1, <1>4 DEF resultVars

\* Queries whose text, data source and link nobody wrote since an execution
\* selected them for its result are linked to the result that was stored last for
\* their text and data source (models/__init__.py:302-325).
THEOREM QueriesAreLinkedToLatest == ResultsSpec => []LinkedToLatest
<1>1. ResultsInit => ResultsInv /\ LinksInv
  BY InitResultsInv
<1>2. ResultsInv /\ LinksInv /\ [ResultsNext]_resultVars => (ResultsInv /\ LinksInv)'
  BY NextKeepsResultsInv, NextKeepsLinks
<1>3. ResultsInv /\ LinksInv => LinkedToLatest
  BY DEF LinksInv
<1> QED
  BY <1>1, <1>2, <1>3, PTL DEF ResultsSpec

-----------------------------------------------------------------------------
(* Results: when a data source cannot be deleted                           *)

\* A query that refers to the data source, or to a result of it, is interference.
LEMMA TouchKeepsWay ==
  ASSUME ResultsInv, NothingInTheWay, NEW q \in QueryIds, NEW row \in QueryRows, Touch(q, row),
         stored' = stored
  PROVE  NothingInTheWay'
<1> SUFFICES ASSUME removal' # NoRemoval, ~removal'.raced
             PROVE  NothingInTheWay'
  BY DEF NothingInTheWay
<1>1. removal' = removal /\ removal \in Removals /\ ~RefersTo(row, removal.source)
  BY ResultShapes DEF Touch, Removals
<1>2. \A p \in Existing' : p = q \/ (p \in Existing /\ query'[p] = query[p])
  BY DEF Touch, ResultsInv, ResultsTypeOK, Existing
<1>3. query'[q] = row /\ row.source # removal.source /\ row.link \notin Of(removal.source)
  BY <1>1, ResultShapes DEF Touch, RefersTo, Of, ResultsInv, ResultsTypeOK
<1>4. Of(removal.source)' = Of(removal.source)
  BY <1>1 DEF Of
<1>5. Matching(removal.source, Texts)' \subseteq Matching(removal.source, Texts)
  BY <1>1, <1>2, <1>3 DEF Matching
<1> QED
  BY <1>1, <1>2, <1>3, <1>4, <1>5 DEF NothingInTheWay

\* A result of another data source is in nobody's way.
LEMMA StoreKeepsWay ==
  ASSUME ResultsInv, NothingInTheWay, NEW e \in Executors, Store(e)
  PROVE  NothingInTheWay'
<1> DEFINE x == execution[e]
           s == removal.source
<1> SUFFICES ASSUME removal' # NoRemoval, ~removal'.raced
             PROVE  NothingInTheWay'
  BY DEF NothingInTheWay
<1>1. removal' = removal /\ removal \in Removals /\ s # x.source
  BY ResultShapes DEF Store, Removals
<1>2. e \in Active /\ x \in Selections /\ x.result \notin DOMAIN stored
      /\ x.found \subseteq Existing
  BY ResultShapes DEF Store, Active, Pending, ResultsInv, Selections
<1>3. Of(s)' = Of(s) /\ x.result \notin Of(s)
  BY <1>1, <1>2 DEF Store, Of
<1>4. ASSUME NEW q \in Existing'
      PROVE  /\ q \in Existing /\ query'[q].source = query[q].source /\ query'[q].text = query[q].text
             /\ query'[q].link \in {query[q].link, x.result}
  <2>1. q \in QueryIds
    BY DEF Existing
  <2>2. query'[q] = IF q \in x.found THEN [query[q] EXCEPT !.link = x.result] ELSE query[q]
    BY <2>1 DEF Store
  <2>3. q \in Existing
    BY <1>2, <2>2 DEF Existing
  <2> QED
    BY <2>2, <2>3, ResultShapes DEF QueryRows
<1>5. Matching(s, Texts)' \subseteq Matching(s, Texts)
  BY <1>1, <1>4 DEF Matching
<1> QED
  BY <1>1, <1>3, <1>4, <1>5 DEF NothingInTheWay

\* The deletion itself looks at every query and result that there are.
LEMMA RemovalKeepsWay ==
  ASSUME ResultsInv, NothingInTheWay, StepOfRemoval \/ Remove
  PROVE  NothingInTheWay'
<1>1. CASE StepOfRemoval
  <2>1. UNCHANGED <<query, stored>>
    BY <1>1 DEF StepOfRemoval, ClearQueries, DeleteByCommand, PurgeResults, LoadRest, EndRemoval
  <2>2. \A s \in Sources : Of(s)' = Of(s) /\ Matching(s, Texts)' = Matching(s, Texts) /\ Existing' = Existing
    BY <2>1 DEF Of, Matching, Existing
  <2>3. ASSUME NEW s \in Sources, ClearQueries(s)
        PROVE  NothingInTheWay'
    <3>1. removal'.pc = "cleared" /\ removal'.source = s /\ removal'.cleared = Matching(s, Texts)
          /\ removal'.foreign = (Elsewhere(s) # {})
      BY <2>3 DEF ClearQueries
    <3>2. ASSUME Elsewhere(s) = {}, NEW q \in Existing \ Matching(s, Texts)
          PROVE  query[q].link \notin Of(s)
      BY <3>2, ResultShapes DEF Elsewhere, Matching, QueryRows
    <3> QED
      BY <2>1, <2>2, <3>1, <3>2 DEF NothingInTheWay
  <2>4. ASSUME NEW s \in Sources, DeleteByCommand(s)
        PROVE  NothingInTheWay'
    BY <2>4 DEF DeleteByCommand, NothingInTheWay
  <2>5. CASE PurgeResults
    <3>1. removal \in Removals /\ removal.pc = "cleared"
      BY <2>5, ResultShapes DEF PurgeResults, NoRemoval
    <3>2. CASE \E r \in Of(removal.source) : StillLinked(r)
      <4>1. removal' = [removal EXCEPT !.pc = "failed"]
        BY <2>5, <3>2 DEF PurgeResults
      <4>2. removal'.pc = "failed" /\ removal'.foreign = removal.foreign /\ removal'.raced = removal.raced
        BY <3>1, <4>1 DEF Removals
      <4>3. ~removal.raced => removal.foreign
        BY <3>1, <3>2 DEF StillLinked, NothingInTheWay, NoRemoval
      <4> QED
        BY <4>2, <4>3 DEF NothingInTheWay
    <3>3. CASE ~ \E r \in Of(removal.source) : StillLinked(r)
      <4>1. removal' = [removal EXCEPT !.pc = "purged", !.purged = Of(removal.source)]
        BY <2>5, <3>3 DEF PurgeResults
      <4>2. removal'.pc = "purged"
        BY <3>1, <4>1 DEF Removals
      <4> QED
        BY <4>2 DEF NothingInTheWay
    <3> QED
      BY <3>2, <3>3
  <2>6. CASE LoadRest
    <3>1. removal \in Removals /\ removal.source \in Sources
      BY <2>6, ResultShapes DEF LoadRest, NoRemoval, Removals, ResultsInv, ResultsTypeOK
    <3>2. /\ removal'.pc = "loaded" /\ removal'.source = removal.source
          /\ removal'.cleared = removal.cleared /\ removal'.purged = removal.purged
          /\ removal'.nulled = Matching(removal.source, Texts) \ removal.cleared
          /\ removal'.rest = Of(removal.source) \ removal.purged
      BY <2>6, <3>1 DEF LoadRest, Removals
    <3> QED
      BY <2>2, <3>1, <3>2 DEF NothingInTheWay
  <2>7. CASE EndRemoval
    BY <2>7 DEF EndRemoval, NothingInTheWay
  <2> QED
    BY <1>1, <2>3, <2>4, <2>5, <2>6, <2>7 DEF StepOfRemoval
<1>2. CASE Remove
  <2>1. removal \in Removals /\ removal.pc = "loaded" /\ removal # NoRemoval
    BY <1>2, ResultShapes DEF Remove, NoRemoval
  <2>2. CASE removal' = NoRemoval
    BY <2>2 DEF NothingInTheWay
  <2>3. CASE removal' # NoRemoval
    <3>1. /\ removal' = [removal EXCEPT !.pc = "failed"]
          /\ ~(Matching(removal.source, Texts) \subseteq removal.cleared \cup removal.nulled
               /\ Of(removal.source) \subseteq removal.purged \cup removal.rest)
      BY <1>2, <2>3 DEF Remove
    <3>2. removal.raced /\ removal'.raced
      BY <2>1, <3>1 DEF NothingInTheWay, Removals
    <3> QED
      BY <3>2 DEF NothingInTheWay
  <2> QED
    BY <2>2, <2>3
<1> QED
  BY <1>1, <1>2

LEMMA NextKeepsWay ==
  ASSUME ResultsInv, NothingInTheWay, [ResultsNext]_resultVars
  PROVE  NothingInTheWay'
<1>1. CASE UNCHANGED <<query, stored, removal>>
  BY <1>1 DEF NothingInTheWay, Of, Matching, Existing
<1>2. CASE Cleanup
  <2>1. UNCHANGED <<query, removal>>
        /\ \A s : Of(s)' \subseteq Of(s) /\ Matching(s, Texts)' = Matching(s, Texts) /\ Existing' = Existing
    BY <1>2 DEF Cleanup, Of, Matching, Existing
  <2> QED
    BY <2>1 DEF NothingInTheWay
<1>3. CASE ResultsNext
  <2>1. ASSUME NEW q \in QueryIds, WriteQuery(q) PROVE NothingInTheWay'
    BY <2>1, WritesAreTouches, TouchKeepsWay
  <2>2. \/ \E q \in QueryIds : View(q)
        \/ \E s \in Sources, t \in Texts : Ask(s, t)
        \/ \E e \in Executors : Abort(e) \/ \E s \in Sources, t \in Texts : Select(e, s, t)
        => UNCHANGED <<query, stored, removal>>
    BY DEF View, Ask, Abort, Select
  <2> QED
    BY <1>1, <1>2, <1>3, <2>1, <2>2, StoreKeepsWay, RemovalKeepsWay DEF ResultsNext, WriteQuery, StepOfRemoval
<1> QED
  BY <1>1, <1>3 DEF resultVars

\* A data source can be deleted, with its results, unless a query of another data
\* source links to one of them, or a query or result came to refer to it while it
\* was being deleted (models/__init__.py:144-149).
THEOREM DeletionFailsForAReason == ResultsSpec => []DeletionFailsOnlyIf
<1>1. ResultsInit => ResultsInv /\ NothingInTheWay
  BY InitResultsInv
<1>2. ResultsInv /\ NothingInTheWay /\ [ResultsNext]_resultVars => (ResultsInv /\ NothingInTheWay)'
  BY NextKeepsResultsInv, NextKeepsWay
<1>3. NothingInTheWay => DeletionFailsOnlyIf
  BY DEF NothingInTheWay, DeletionFailsOnlyIf, NoRemoval
<1> QED
  BY <1>1, <1>2, <1>3, PTL DEF ResultsSpec

-----------------------------------------------------------------------------
(* Content: types, and the foreign keys                                    *)

\* While nobody else writes about it, a query that is being archived has nothing
\* that the request has not read.
ReadsAreComplete ==
  \A r \in Removers : remover[r].pc \in {"visualizations", "alerts"} =>
    LET x == remover[r]
    IN /\ x.visualizations \subseteq Born(visualization)
       /\ ~x.overlap =>
            /\ VisualizationsOf(x.query) \subseteq x.visualizations
            /\ WidgetsOf(x.query) \subseteq x.widgets
            /\ x.pc = "alerts" => AlertsOf(x.query) \subseteq x.alerts

ContentInv == ContentTypeOK /\ ReadsAreComplete /\ ArchivedIsBare

\* Rows differ from the marks of rows that are not there.
LEMMA RowsAreNotMarks ==
  /\ \A row \in QueryStates \cup VisualizationRows : row # Unmade /\ row # Gone
  /\ \A x \in RemoverStates : x # Inactive
  /\ Unmade # Gone
<1>1. ASSUME NEW row \in QueryStates PROVE row # Unmade /\ row # Gone
  BY DEF QueryStates, Unmade, Gone
<1>2. ASSUME NEW row \in VisualizationRows PROVE row # Unmade /\ row # Gone
  BY DEF VisualizationRows, Unmade, Gone
<1>3. ASSUME NEW x \in RemoverStates PROVE x # Inactive
  BY DEF RemoverStates, Inactive
<1>4. Unmade # Gone
  BY DEF Unmade, Gone
<1> QED
  BY <1>1, <1>2, <1>3, <1>4

\* What the invariant says of one row and one request.
LEMMA ContentShapes ==
  ASSUME ContentTypeOK
  PROVE  /\ \A q \in Born(queryRow) : q \in ContentQueries /\ queryRow[q] \in QueryStates
         /\ \A v \in Born(visualization) : v \in VisualizationIds /\ visualization[v] \in VisualizationRows
         /\ \A w \in Born(widget) : w \in WidgetIds /\ widget[w] \in Born(visualization)
         /\ \A a \in Born(alert) : a \in AlertIds /\ alert[a] \in Born(queryRow)
         /\ \A s \in Born(subscription) : s \in SubscriptionIds /\ subscription[s] \in Born(alert)
         /\ \A r \in Removers : remover[r] # Inactive => remover[r] \in RemoverStates
         /\ DOMAIN queryRow = ContentQueries /\ DOMAIN visualization = VisualizationIds
         /\ DOMAIN widget = WidgetIds /\ DOMAIN alert = AlertIds
         /\ DOMAIN subscription = SubscriptionIds
<1> USE DEF ContentTypeOK
<1>1. DOMAIN queryRow = ContentQueries /\ DOMAIN visualization = VisualizationIds
      /\ DOMAIN widget = WidgetIds /\ DOMAIN alert = AlertIds /\ DOMAIN subscription = SubscriptionIds
  OBVIOUS
<1>2. \A q \in Born(queryRow) : q \in ContentQueries /\ queryRow[q] \in QueryStates
  BY DEF Born, QueryStates
<1>3. \A v \in Born(visualization) : v \in VisualizationIds /\ visualization[v] \in VisualizationRows
  <2>1. visualization \in [VisualizationIds -> {Unmade} \cup VisualizationRows]
    BY DEF VisualizationRows
  <2> QED
    BY <2>1 DEF Born
<1>4. \A w \in Born(widget) : w \in WidgetIds /\ widget[w] \in Born(visualization)
  BY DEF Born, IdOr
<1>5. \A a \in Born(alert) : a \in AlertIds /\ alert[a] \in Born(queryRow)
  BY DEF Born, IdOr
<1>6. \A s \in Born(subscription) : s \in SubscriptionIds /\ subscription[s] \in Born(alert)
  BY DEF Born, IdOr
<1>7. \A r \in Removers : remover[r] # Inactive => remover[r] \in RemoverStates
  BY DEF RemoverStates
<1> QED
  BY <1>1, <1>2, <1>3, <1>4, <1>5, <1>6, <1>7

LEMMA WriteAboutKeepsTypes ==
  ASSUME ContentTypeOK, NEW q \in Born(queryRow), WriteAbout(q), Born(queryRow) \subseteq Born(queryRow')
  PROVE  /\ remover' \in [Removers -> {Inactive} \cup RemoverStates']
         /\ touched' \subseteq ContentQueries
<1>1. ASSUME NEW r \in Removers, remover[r] # Inactive
      PROVE  remover[r] \in RemoverStates' /\ [remover[r] EXCEPT !.overlap = TRUE] \in RemoverStates'
  BY <1>1, ContentShapes DEF RemoverStates
<1>2. \A r \in Removers : remover'[r] \in {Inactive} \cup RemoverStates'
  BY <1>1 DEF WriteAbout, ContentTypeOK
<1>3. remover' = [r \in Removers |-> remover'[r]]
  BY DEF WriteAbout
<1>4. touched' \subseteq ContentQueries
  BY ContentShapes DEF WriteAbout, ContentTypeOK
<1> QED
  BY <1>2, <1>3, <1>4

\* What refers to rows that stay is still typed.
LEMMA ReferencesKeepTypes ==
  ASSUME ContentTypeOK
  PROVE  /\ Born(queryRow) \subseteq Born(queryRow') =>
              /\ visualization' = visualization =>
                   visualization' \in [VisualizationIds -> {Unmade} \cup VisualizationRows']
              /\ alert' = alert => alert' \in [AlertIds -> IdOr(Born(queryRow'))]
              /\ remover' = remover => remover' \in [Removers -> {Inactive} \cup RemoverStates']
         /\ Born(visualization) \subseteq Born(visualization') /\ widget' = widget =>
              widget' \in [WidgetIds -> IdOr(Born(visualization'))]
         /\ Born(alert) \subseteq Born(alert') /\ subscription' = subscription =>
              subscription' \in [SubscriptionIds -> IdOr(Born(alert'))]
<1>1. ASSUME Born(queryRow) \subseteq Born(queryRow')
      PROVE  /\ VisualizationRows \subseteq VisualizationRows'
             /\ RemoverStates \subseteq RemoverStates'
             /\ IdOr(Born(queryRow)) \subseteq IdOr(Born(queryRow'))
  BY <1>1 DEF VisualizationRows, RemoverStates, IdOr
<1>2. /\ visualization \in [VisualizationIds -> {Unmade} \cup VisualizationRows]
      /\ remover \in [Removers -> {Inactive} \cup RemoverStates]
      /\ alert \in [AlertIds -> IdOr(Born(queryRow))]
      /\ widget \in [WidgetIds -> IdOr(Born(visualization))]
      /\ subscription \in [SubscriptionIds -> IdOr(Born(alert))]
  BY DEF ContentTypeOK, VisualizationRows, RemoverStates
<1> QED
  BY <1>1, <1>2 DEF IdOr

\* The requests by what they do to a query.
AddStep ==
  \/ \E v \in VisualizationIds, q \in ContentQueries : AddVisualization(v, q)
  \/ \E w \in WidgetIds, v \in VisualizationIds : AddWidget(w, v)
  \/ \E a \in AlertIds, q \in ContentQueries : AddAlert(a, q) \/ MoveAlert(a, q)

EditStep ==
  \/ \E q \in ContentQueries, row \in QueryStates : EditQueryRow(q, row)
  \/ \E v \in VisualizationIds, b \in BOOLEAN : EditVisualization(v, b)

DeleteStep ==
  \/ \E v \in VisualizationIds : ArchiveVisualization(v)
  \/ \E w \in WidgetIds : DeleteWidget(w)
  \/ \E s \in SubscriptionIds : Unsubscribe(s) \/ \E a \in AlertIds : Subscribe(s, a)

LEMMA MakingKeepsTypes ==
  ASSUME ContentTypeOK, NEW q \in ContentQueries,
         (\E v \in VisualizationIds : MakeQuery(q, v)) \/ (\E of \in ContentQueries : Fork(q, of))
  PROVE  ContentTypeOK'
<1> DEFINE new == [archived |-> FALSE, scheduled |-> FALSE]
           view == [query |-> q, archived |-> FALSE]
<1>1. queryRow' = [queryRow EXCEPT ![q] = new] /\ UNCHANGED <<widget, alert, subscription, remover, touched>>
  BY DEF MakeQuery, Fork
<1>2. new \in QueryStates
  BY DEF QueryStates
<1>3. /\ queryRow' \in [ContentQueries -> {Unmade} \cup QueryStates]
      /\ Born(queryRow') = Born(queryRow) \cup {q}
  BY <1>1, <1>2, RowsAreNotMarks DEF ContentTypeOK, Born
<1>4. view \in VisualizationRows' /\ VisualizationRows \subseteq VisualizationRows'
  BY <1>3 DEF VisualizationRows
<1>5. \E S \in SUBSET Fresh(visualization) :
        visualization' = [x \in VisualizationIds |-> IF x \in S THEN view ELSE visualization[x]]
  <2>1. ASSUME NEW v \in VisualizationIds, MakeQuery(q, v)
        PROVE  \E S \in SUBSET Fresh(visualization) :
                 visualization' = [x \in VisualizationIds |-> IF x \in S THEN view ELSE visualization[x]]
    <3>1. {v} \in SUBSET Fresh(visualization)
      BY <2>1 DEF MakeQuery
    <3>2. visualization' = [x \in VisualizationIds |-> IF x \in {v} THEN view ELSE visualization[x]]
      BY <2>1 DEF ContentTypeOK, MakeQuery
    <3> QED
      BY <3>1, <3>2
  <2>2. ASSUME NEW of \in ContentQueries, Fork(q, of)
        PROVE  \E S \in SUBSET Fresh(visualization) :
                 visualization' = [x \in VisualizationIds |-> IF x \in S THEN view ELSE visualization[x]]
    BY <2>2 DEF Fork
  <2> QED
    BY <2>1, <2>2
<1>6. /\ visualization' \in [VisualizationIds -> {Unmade} \cup VisualizationRows']
      /\ Born(visualization) \subseteq Born(visualization')
  <2>1. PICK S \in SUBSET Fresh(visualization) :
          visualization' = [x \in VisualizationIds |-> IF x \in S THEN view ELSE visualization[x]]
    BY <1>5
  <2>2. view # Unmade /\ view # Gone
    BY DEF Unmade, Gone
  <2> QED
    BY <1>4, <2>1, <2>2 DEF ContentTypeOK, Born
<1>7. Born(alert') = Born(alert)
  BY <1>1
<1> QED
  BY <1>1, <1>3, <1>6, <1>7, ReferencesKeepTypes DEF ContentTypeOK

LEMMA AdditionsKeepTypes ==
  ASSUME ContentTypeOK, AddStep
  PROVE  ContentTypeOK'
<1>1. ASSUME NEW v \in VisualizationIds, NEW q \in ContentQueries,
             AddVisualization(v, q)
      PROVE  ContentTypeOK'
  <2> DEFINE view == [query |-> q, archived |-> FALSE]
  <2>1. view \in VisualizationRows /\ visualization' = [visualization EXCEPT ![v] = view]
        /\ UNCHANGED <<queryRow, widget, alert, subscription>>
    BY <1>1 DEF AddVisualization, VisualizationRows
  <2>2. visualization' \in [VisualizationIds -> {Unmade} \cup VisualizationRows]
        /\ Born(visualization') = Born(visualization) \cup {v}
    BY <2>1, RowsAreNotMarks DEF ContentTypeOK, Born
  <2>3. VisualizationRows' = VisualizationRows
    BY <2>1 DEF VisualizationRows
  <2>4. remover' \in [Removers -> {Inactive} \cup RemoverStates'] /\ touched' \subseteq ContentQueries
    BY <1>1, <2>1, WriteAboutKeepsTypes DEF AddVisualization
  <2> QED
    BY <2>1, <2>2, <2>3, <2>4, ReferencesKeepTypes DEF ContentTypeOK
<1>2. ASSUME NEW w \in WidgetIds, NEW v \in VisualizationIds,
             AddWidget(w, v)
      PROVE  ContentTypeOK'
  <2>1. widget' = [widget EXCEPT ![w] = v] /\ UNCHANGED <<queryRow, visualization, alert, subscription>>
        /\ v \in Born(visualization) /\ WriteAbout(visualization[v].query)
    BY <1>2 DEF AddWidget
  <2>2. widget' \in [WidgetIds -> IdOr(Born(visualization'))]
    BY <2>1 DEF ContentTypeOK, IdOr
  <2>3. visualization[v].query \in Born(queryRow)
    BY <2>1, ContentShapes DEF VisualizationRows
  <2>4. remover' \in [Removers -> {Inactive} \cup RemoverStates'] /\ touched' \subseteq ContentQueries
    BY <2>1, <2>3, WriteAboutKeepsTypes
  <2> QED
    BY <2>1, <2>2, <2>4, ReferencesKeepTypes DEF ContentTypeOK
<1>3. ASSUME NEW a \in AlertIds, NEW q \in ContentQueries,
             AddAlert(a, q) \/ MoveAlert(a, q)
      PROVE  ContentTypeOK'
  <2>1. alert' = [alert EXCEPT ![a] = q] /\ UNCHANGED <<queryRow, visualization, widget, subscription>>
        /\ q \in Born(queryRow) /\ WriteAbout(q)
    BY <1>3 DEF AddAlert, MoveAlert
  <2>2. alert' \in [AlertIds -> IdOr(Born(queryRow'))] /\ Born(alert) \subseteq Born(alert')
    BY <2>1, ContentAssumption DEF ContentTypeOK, Born, IdOr
  <2>3. remover' \in [Removers -> {Inactive} \cup RemoverStates'] /\ touched' \subseteq ContentQueries
    BY <2>1, WriteAboutKeepsTypes
  <2> QED
    BY <2>1, <2>2, <2>3, ReferencesKeepTypes DEF ContentTypeOK
<1> QED
  BY <1>1, <1>2, <1>3 DEF AddStep

LEMMA EditsKeepTypes ==
  ASSUME ContentTypeOK, EditStep \/ DeleteStep
  PROVE  ContentTypeOK'
<1>1. ASSUME NEW v, NEW archived \in BOOLEAN, v \in Born(visualization), queryRow' = queryRow,
             visualization' = [visualization EXCEPT ![v].archived = archived]
      PROVE  /\ visualization' \in [VisualizationIds -> {Unmade} \cup VisualizationRows']
             /\ Born(visualization') = Born(visualization)
  <2> DEFINE view == [visualization[v] EXCEPT !.archived = archived]
  <2>1. view \in VisualizationRows
    BY <1>1, ContentShapes DEF VisualizationRows
  <2>2. v \in VisualizationIds /\ visualization \in [VisualizationIds -> {Unmade} \cup VisualizationRows]
    BY <1>1, ContentShapes DEF ContentTypeOK
  <2>3. visualization' = [visualization EXCEPT ![v] = view]
    BY <1>1
  <2>4. visualization' \in [VisualizationIds -> {Unmade} \cup VisualizationRows]
    BY <2>1, <2>2, <2>3
  <2>5. Born(visualization') = Born(visualization) \cup {v}
    BY <2>1, <2>2, <2>3, RowsAreNotMarks DEF Born
  <2> QED
    BY <1>1, <2>4, <2>5 DEF VisualizationRows
<1>2. ASSUME NEW q \in ContentQueries, NEW row \in QueryStates,
             EditQueryRow(q, row)
      PROVE  ContentTypeOK'
  <2>1. queryRow' = [queryRow EXCEPT ![q] = row] /\ UNCHANGED <<visualization, widget, alert, subscription>>
        /\ q \in Born(queryRow) /\ WriteAbout(q)
    BY <1>2 DEF EditQueryRow
  <2>2. queryRow' \in [ContentQueries -> {Unmade} \cup QueryStates]
        /\ Born(queryRow') = Born(queryRow) \cup {q}
    BY <2>1, RowsAreNotMarks DEF ContentTypeOK, Born
  <2>3. remover' \in [Removers -> {Inactive} \cup RemoverStates'] /\ touched' \subseteq ContentQueries
    BY <2>1, <2>2, WriteAboutKeepsTypes
  <2> QED
    BY <2>1, <2>2, <2>3, ReferencesKeepTypes DEF ContentTypeOK
<1>3. ASSUME NEW v \in VisualizationIds, NEW b \in BOOLEAN,
             EditVisualization(v, b)
      PROVE  ContentTypeOK'
  <2>1. /\ v \in Born(visualization) /\ WriteAbout(visualization[v].query)
        /\ visualization' = [visualization EXCEPT ![v].archived = b]
        /\ UNCHANGED <<queryRow, widget, alert, subscription>>
    BY <1>3 DEF EditVisualization
  <2>2. visualization[v].query \in Born(queryRow)
    BY <2>1, ContentShapes DEF VisualizationRows
  <2>3. remover' \in [Removers -> {Inactive} \cup RemoverStates'] /\ touched' \subseteq ContentQueries
    BY <2>1, <2>2, WriteAboutKeepsTypes
  <2> QED
    BY <1>1, <2>1, <2>3, ReferencesKeepTypes DEF ContentTypeOK
<1>4. ASSUME NEW v \in VisualizationIds,
             ArchiveVisualization(v)
      PROVE  ContentTypeOK'
  <2>1. /\ v \in Born(visualization)
        /\ visualization' = [visualization EXCEPT ![v].archived = TRUE]
        /\ widget' = [x \in WidgetIds |-> IF widget[x] = v THEN Gone ELSE widget[x]]
        /\ UNCHANGED <<queryRow, alert, subscription, remover, touched>>
    BY <1>4 DEF ArchiveVisualization
  <2>2. widget' \in [WidgetIds -> IdOr(Born(visualization'))]
    BY <1>1, <2>1 DEF ContentTypeOK, IdOr
  <2> QED
    BY <1>1, <2>1, <2>2, ReferencesKeepTypes DEF ContentTypeOK
<1>5. ASSUME NEW w \in WidgetIds,
             DeleteWidget(w)
      PROVE  ContentTypeOK'
  <2>1. widget' = [widget EXCEPT ![w] = Gone]
        /\ UNCHANGED <<queryRow, visualization, alert, subscription, remover, touched>>
    BY <1>5 DEF DeleteWidget
  <2>2. widget' \in [WidgetIds -> IdOr(Born(visualization'))]
    BY <2>1 DEF ContentTypeOK, IdOr
  <2> QED
    BY <2>1, <2>2, ReferencesKeepTypes DEF ContentTypeOK
<1>6. ASSUME NEW s \in SubscriptionIds,
             Unsubscribe(s)
      PROVE  ContentTypeOK'
  <2>1. subscription' = [subscription EXCEPT ![s] = Gone]
        /\ UNCHANGED <<queryRow, visualization, widget, alert, remover, touched>>
    BY <1>6 DEF Unsubscribe
  <2>2. subscription' \in [SubscriptionIds -> IdOr(Born(alert'))]
    BY <2>1 DEF ContentTypeOK, IdOr
  <2> QED
    BY <2>1, <2>2, ReferencesKeepTypes DEF ContentTypeOK
<1>7. ASSUME NEW s \in SubscriptionIds, NEW a \in AlertIds,
             Subscribe(s, a)
      PROVE  ContentTypeOK'
  <2>1. subscription' = [subscription EXCEPT ![s] = a] /\ a \in Born(alert)
        /\ UNCHANGED <<queryRow, visualization, widget, alert, remover, touched>>
    BY <1>7 DEF Subscribe
  <2>2. subscription' \in [SubscriptionIds -> IdOr(Born(alert'))]
    BY <2>1 DEF ContentTypeOK, IdOr
  <2> QED
    BY <2>1, <2>2, ReferencesKeepTypes DEF ContentTypeOK
<1> QED
  BY <1>2, <1>3, <1>4, <1>5, <1>6, <1>7 DEF EditStep, DeleteStep

\* What a request deletes takes along the subscriptions that refer to it.
LEMMA DeletionKeepsTypes ==
  ASSUME ContentTypeOK, NEW r \in Removers, DeleteRead(r), ~Held(r)
  PROVE  /\ Born(alert') = Born(alert) \ remover[r].alerts
         /\ subscription' \in [SubscriptionIds -> IdOr(Born(alert'))]
         /\ alert' \in [AlertIds -> IdOr(Born(queryRow))]
<1> DEFINE x == remover[r]
<1>1. /\ alert' = [a \in AlertIds |-> IF a \in x.alerts THEN Gone ELSE alert[a]]
      /\ subscription' = [s \in SubscriptionIds |-> IF s \in x.subscriptions THEN Gone ELSE subscription[s]]
  BY DEF DeleteRead
<1>2. Born(alert') = Born(alert) \ x.alerts
  BY <1>1 DEF ContentTypeOK, Born
<1>3. \A s \in Born(subscription) : subscription[s] \in x.alerts => s \in x.subscriptions
  BY DEF Held, SubscriptionsOf
<1>4. ASSUME NEW s \in SubscriptionIds PROVE subscription'[s] \in IdOr(Born(alert'))
  <2>1. CASE s \in x.subscriptions \/ s \notin Born(subscription)
    BY <1>1, <2>1 DEF ContentTypeOK, Born, IdOr
  <2>2. CASE s \notin x.subscriptions /\ s \in Born(subscription)
    BY <1>1, <1>2, <1>3, <2>2, ContentShapes DEF IdOr
  <2> QED
    BY <2>1, <2>2
<1>5. alert' \in [AlertIds -> IdOr(Born(queryRow))]
  BY <1>1 DEF ContentTypeOK, IdOr
<1> QED
  BY <1>1, <1>2, <1>4, <1>5

\* The completeness of what a request has read, for one request.
Complete(r) ==
  remover[r].pc \in {"visualizations", "alerts"} =>
    LET x == remover[r]
    IN /\ x.visualizations \subseteq Born(visualization)
       /\ ~x.overlap =>
            /\ VisualizationsOf(x.query) \subseteq x.visualizations
            /\ WidgetsOf(x.query) \subseteq x.widgets
            /\ x.pc = "alerts" => AlertsOf(x.query) \subseteq x.alerts

LEMMA CompleteForEach == ReadsAreComplete <=> \A r \in Removers : Complete(r)
  BY DEF ReadsAreComplete, Complete

LEMMA CommitArchiveKeepsTypes ==
  ASSUME ContentInv, NEW r \in Removers, CommitArchive(r)
  PROVE  ContentTypeOK' /\ Born(queryRow') = Born(queryRow) /\ Born(visualization') = Born(visualization)
<1> DEFINE x == remover[r]
           bare == [archived |-> TRUE, scheduled |-> FALSE]
<1>1. /\ x.pc = "alerts" /\ ~Held(r) /\ DeleteRead(r)
      /\ queryRow' = [queryRow EXCEPT ![x.query] = bare]
      /\ visualization' = [v \in VisualizationIds |->
           IF v \in x.visualizations THEN [visualization[v] EXCEPT !.archived = TRUE] ELSE visualization[v]]
      /\ widget' = [w \in WidgetIds |-> IF w \in x.widgets THEN Gone ELSE widget[w]]
      /\ touched' = IF x.overlap THEN touched \cup {x.query} ELSE touched \ {x.query}
      /\ remover' = [remover EXCEPT ![r] = Inactive]
  BY DEF CommitArchive
<1>2. x \in RemoverStates /\ x.query \in Born(queryRow) /\ x.query \in ContentQueries
  BY <1>1, ContentShapes DEF ContentInv, RemoverStates, Inactive
<1>3. x.visualizations \subseteq Born(visualization)
  BY <1>1 DEF ContentInv, ReadsAreComplete
<1>4. bare \in QueryStates
  BY DEF QueryStates
<1>5. queryRow' \in [ContentQueries -> {Unmade} \cup QueryStates] /\ Born(queryRow') = Born(queryRow)
  BY <1>1, <1>2, <1>4, RowsAreNotMarks DEF ContentInv, ContentTypeOK, Born
<1>6. ASSUME NEW v \in VisualizationIds
      PROVE  /\ visualization'[v] \in {Unmade} \cup VisualizationRows
             /\ visualization'[v] \notin {Unmade, Gone} <=> visualization[v] \notin {Unmade, Gone}
  <2>1. CASE v \in x.visualizations
    <3>1. visualization[v] \in VisualizationRows
      BY <1>3, <2>1, ContentShapes DEF ContentInv
    <3>2. visualization'[v] = [visualization[v] EXCEPT !.archived = TRUE]
      BY <1>1, <2>1
    <3>3. visualization'[v] \in VisualizationRows
      BY <3>1, <3>2 DEF VisualizationRows
    <3> QED
      BY <3>1, <3>3, RowsAreNotMarks
  <2>2. CASE v \notin x.visualizations
    BY <1>1, <2>2 DEF ContentInv, ContentTypeOK
  <2> QED
    BY <2>1, <2>2
<1>7. Born(visualization') = Born(visualization)
  BY <1>1, <1>6 DEF Born, ContentInv, ContentTypeOK
<1>8. visualization' \in [VisualizationIds -> {Unmade} \cup VisualizationRows']
  <2>1. VisualizationRows' = VisualizationRows
    BY <1>5 DEF VisualizationRows
  <2> QED
    BY <1>1, <1>6, <2>1
<1>9. widget' \in [WidgetIds -> IdOr(Born(visualization'))]
  BY <1>1, <1>7 DEF ContentInv, ContentTypeOK, IdOr
<1>10. remover' \in [Removers -> {Inactive} \cup RemoverStates']
  <2>1. RemoverStates' = RemoverStates
    BY <1>5 DEF RemoverStates
  <2> QED
    BY <1>1, <2>1 DEF ContentInv, ContentTypeOK
<1>11. touched' \subseteq ContentQueries
  BY <1>1, <1>2 DEF ContentInv, ContentTypeOK
<1>12. /\ subscription' \in [SubscriptionIds -> IdOr(Born(alert'))]
       /\ alert' \in [AlertIds -> IdOr(Born(queryRow'))]
  BY <1>1, <1>5, DeletionKeepsTypes DEF ContentInv
<1> QED
  BY <1>5, <1>7, <1>8, <1>9, <1>10, <1>11, <1>12 DEF ContentTypeOK

LEMMA RequestsKeepTypes ==
  ASSUME ContentTypeOK, NEW r \in Removers,
         \/ (\E q \in ContentQueries : ReadVisualizations(r, q)) \/ (\E a \in AlertIds : ReadAlert(r, a))
         \/ ReadAlerts(r) \/ CommitAlert(r) \/ RemovalFails(r)
  PROVE  ContentTypeOK'
<1>1. ASSUME NEW x \in {Inactive} \cup RemoverStates, remover' = [remover EXCEPT ![r] = x],
             UNCHANGED <<queryRow, visualization, widget, touched>>,
             \/ UNCHANGED <<alert, subscription>>
             \/ DeleteRead(r) /\ ~Held(r)
      PROVE  ContentTypeOK'
  <2>1. RemoverStates' = RemoverStates
    BY <1>1 DEF RemoverStates
  <2>2. remover' \in [Removers -> {Inactive} \cup RemoverStates']
    BY <1>1, <2>1 DEF ContentTypeOK
  <2>3. alert' \in [AlertIds -> IdOr(Born(queryRow'))] /\ subscription' \in [SubscriptionIds -> IdOr(Born(alert'))]
    BY <1>1, DeletionKeepsTypes DEF ContentTypeOK
  <2> QED
    BY <1>1, <2>2, <2>3, ReferencesKeepTypes DEF ContentTypeOK
<1>2. ASSUME NEW q \in ContentQueries, ReadVisualizations(r, q)
      PROVE  ContentTypeOK'
  <2> DEFINE x == [pc |-> "visualizations", query |-> q, visualizations |-> VisualizationsOf(q),
                   widgets |-> WidgetsOf(q), alerts |-> {}, subscriptions |-> {}, overlap |-> FALSE]
  <2>1. x \in RemoverStates
    BY <1>2, ContentShapes DEF ReadVisualizations, RemoverStates, VisualizationsOf, WidgetsOf
  <2> QED
    BY <1>1, <1>2, <2>1 DEF ReadVisualizations
<1>3. ASSUME NEW a \in AlertIds, ReadAlert(r, a)
      PROVE  ContentTypeOK'
  <2> DEFINE x == [pc |-> "alert", query |-> alert[a], visualizations |-> {}, widgets |-> {},
                   alerts |-> {a}, subscriptions |-> SubscriptionsOf({a}), overlap |-> FALSE]
  <2>1. x \in RemoverStates
    BY <1>3, ContentShapes DEF ReadAlert, RemoverStates, SubscriptionsOf
  <2> QED
    BY <1>1, <1>3, <2>1 DEF ReadAlert
<1>4. CASE ReadAlerts(r)
  <2> DEFINE its == AlertsOf(remover[r].query)
             x == [remover[r] EXCEPT !.pc = "alerts", !.alerts = its, !.subscriptions = SubscriptionsOf(its)]
  <2>1. remover[r] \in RemoverStates
    BY <1>4, ContentShapes DEF ReadAlerts, Inactive
  <2>2. its \subseteq AlertIds /\ SubscriptionsOf(its) \subseteq SubscriptionIds
    BY ContentShapes DEF AlertsOf, SubscriptionsOf
  <2>3. x \in RemoverStates
    BY <2>1, <2>2 DEF RemoverStates
  <2>4. remover' = [remover EXCEPT ![r] = x]
    BY <1>4 DEF ReadAlerts, ContentTypeOK
  <2> QED
    BY <1>1, <1>4, <2>3, <2>4 DEF ReadAlerts
<1>5. CASE CommitAlert(r) \/ RemovalFails(r)
  BY <1>1, <1>5 DEF CommitAlert, RemovalFails
<1> QED
  BY <1>2, <1>3, <1>4, <1>5

-----------------------------------------------------------------------------
(* Content: what is left of an archived query                              *)

\* A step adds nothing to what belongs to the query, and shows nothing of it again.
Shrinks(q) ==
  /\ VisualizationsOf(q)' \subseteq VisualizationsOf(q)
  /\ WidgetsOf(q)' \subseteq WidgetsOf(q)
  /\ AlertsOf(q)' \subseteq AlertsOf(q)
  /\ \A v \in VisualizationsOf(q)' : visualization'[v].archived \/ visualization'[v] = visualization[v]

LEMMA ReadsStayComplete ==
  ASSUME ContentInv, Born(visualization) \subseteq Born(visualization'),
         \A r \in Removers :
           \/ remover'[r] = Inactive
           \/ remover'[r] = remover[r] /\ Shrinks(remover[r].query)
           \/ remover[r] # Inactive /\ remover'[r] = [remover[r] EXCEPT !.overlap = TRUE]
  PROVE  ReadsAreComplete'
<1> SUFFICES ASSUME NEW r \in Removers PROVE Complete(r)'
  BY DEF ReadsAreComplete, Complete
<1>1. Complete(r)
  BY CompleteForEach DEF ContentInv
<1>2. CASE remover'[r] = Inactive
  BY <1>2 DEF Complete, Inactive
<1>3. CASE remover'[r] = remover[r] /\ Shrinks(remover[r].query)
  BY <1>1, <1>3 DEF Complete, Shrinks
<1>4. CASE remover[r] # Inactive /\ remover'[r] = [remover[r] EXCEPT !.overlap = TRUE]
  <2>1. remover[r] \in RemoverStates
    BY <1>4, ContentShapes DEF ContentInv
  <2>2. /\ remover'[r].overlap /\ remover'[r].pc = remover[r].pc
        /\ remover'[r].visualizations = remover[r].visualizations
    BY <1>4, <2>1 DEF RemoverStates
  <2> QED
    BY <1>1, <2>2 DEF Complete
<1> QED
  BY <1>2, <1>3, <1>4

LEMMA OthersStayBare ==
  ASSUME ContentInv,
         \A q \in Born(queryRow') :
           \/ q \in touched' \/ ~queryRow'[q].archived
           \/ q \in Born(queryRow) \ touched /\ queryRow'[q] = queryRow[q] /\ Shrinks(q)
  PROVE  ArchivedIsBare'
  BY DEF ContentInv, ArchivedIsBare, Shrinks

\* Requests that write about a query: those that archive it know of the overlap.
LEMMA WriteAboutKeepsInv ==
  ASSUME ContentInv, NEW q \in Born(queryRow), WriteAbout(q), ContentTypeOK',
         Born(visualization) \subseteq Born(visualization'),
         Born(queryRow') = Born(queryRow),
         \A p \in Born(queryRow) \ {q} : queryRow'[p] = queryRow[p] /\ Shrinks(p)
  PROVE  ContentInv'
<1>1. \A r \in Removers : remover[r] # Inactive /\ remover[r].query # q => Shrinks(remover[r].query)
  BY ContentShapes DEF ContentInv, RemoverStates
<1>2. ReadsAreComplete'
  BY <1>1, ReadsStayComplete DEF WriteAbout
<1>3. ArchivedIsBare'
  BY OthersStayBare DEF WriteAbout
<1> QED
  BY <1>2, <1>3 DEF ContentInv

LEMMA AdditionsKeepInv ==
  ASSUME ContentInv, AddStep \/ EditStep
  PROVE  ContentInv'
<1> USE DEF Shrinks, VisualizationsOf, WidgetsOf, AlertsOf
<1>1. ContentTypeOK /\ ContentTypeOK'
  BY AdditionsKeepTypes, EditsKeepTypes DEF ContentInv
<1>2. ASSUME NEW v \in VisualizationIds, NEW q \in ContentQueries,
             AddVisualization(v, q)
      PROVE  ContentInv'
  <2>1. /\ v \notin Born(visualization) /\ q \in Born(queryRow) /\ WriteAbout(q)
        /\ visualization' = [visualization EXCEPT ![v] = [query |-> q, archived |-> FALSE]]
        /\ UNCHANGED <<queryRow, widget, alert>>
    BY <1>2 DEF AddVisualization, Fresh, Born
  <2>2. Born(visualization') = Born(visualization) \cup {v} /\ visualization'[v].query = q
        /\ \A x \in Born(visualization) : visualization'[x] = visualization[x]
    BY <1>1, <2>1 DEF ContentTypeOK, Born, Unmade, Gone
  <2>3. \A x \in Born(widget) : widget[x] \in Born(visualization)
    BY <1>1, ContentShapes
  <2>4. \A p \in Born(queryRow) \ {q} : Shrinks(p)
    BY <2>1, <2>2, <2>3
  <2> QED
    BY <1>1, <2>1, <2>2, <2>4, WriteAboutKeepsInv
<1>3. ASSUME NEW w \in WidgetIds, NEW v \in VisualizationIds,
             AddWidget(w, v)
      PROVE  ContentInv'
  <2>1. /\ v \in Born(visualization) /\ WriteAbout(visualization[v].query)
        /\ widget' = [widget EXCEPT ![w] = v]
        /\ UNCHANGED <<queryRow, visualization, alert>>
    BY <1>3 DEF AddWidget
  <2>2. visualization[v].query \in Born(queryRow)
    BY <1>1, <2>1, ContentShapes DEF VisualizationRows
  <2>3. \A x \in Born(widget') : (x = w /\ widget'[x] = v) \/ (x \in Born(widget) /\ widget'[x] = widget[x])
    <3>1. \A x \in WidgetIds : widget'[x] = IF x = w THEN v ELSE widget[x]
      BY <1>1, <2>1 DEF ContentTypeOK
    <3>2. DOMAIN widget = WidgetIds /\ DOMAIN widget' = WidgetIds
      BY <1>1 DEF ContentTypeOK
    <3> QED
      BY <3>1, <3>2 DEF Born
  <2>4. \A p \in Born(queryRow) \ {visualization[v].query} : Shrinks(p)
    BY <2>1, <2>3
  <2> QED
    BY <1>1, <2>1, <2>2, <2>4, WriteAboutKeepsInv
<1>4. ASSUME NEW a \in AlertIds, NEW q \in ContentQueries,
             AddAlert(a, q) \/ MoveAlert(a, q)
      PROVE  ContentInv'
  <2>1. /\ q \in Born(queryRow) /\ WriteAbout(q) /\ alert' = [alert EXCEPT ![a] = q]
        /\ UNCHANGED <<queryRow, visualization, widget>>
    BY <1>4 DEF AddAlert, MoveAlert
  <2>2. \A x \in Born(alert') : (x = a /\ alert'[x] = q) \/ (x \in Born(alert) /\ alert'[x] = alert[x])
    <3>1. \A x \in AlertIds : alert'[x] = IF x = a THEN q ELSE alert[x]
      BY <1>1, <2>1 DEF ContentTypeOK
    <3>2. DOMAIN alert = AlertIds /\ DOMAIN alert' = AlertIds
      BY <1>1 DEF ContentTypeOK
    <3> QED
      BY <3>1, <3>2 DEF Born
  <2>3. \A p \in Born(queryRow) \ {q} : Shrinks(p)
    BY <2>1, <2>2
  <2> QED
    BY <1>1, <2>1, <2>3, WriteAboutKeepsInv
<1>5. ASSUME NEW q \in ContentQueries, NEW row \in QueryStates,
             EditQueryRow(q, row)
      PROVE  ContentInv'
  <2>1. /\ q \in Born(queryRow) /\ WriteAbout(q) /\ queryRow' = [queryRow EXCEPT ![q] = row]
        /\ UNCHANGED <<visualization, widget, alert>>
    BY <1>5 DEF EditQueryRow
  <2>2. Born(queryRow') = Born(queryRow) /\ \A p \in Born(queryRow) \ {q} : queryRow'[p] = queryRow[p]
    BY <1>1, <2>1, RowsAreNotMarks DEF ContentTypeOK, Born
  <2> QED
    BY <1>1, <2>1, <2>2, WriteAboutKeepsInv
<1>6. ASSUME NEW v \in VisualizationIds, NEW b \in BOOLEAN,
             EditVisualization(v, b)
      PROVE  ContentInv'
  <2>1. /\ v \in Born(visualization) /\ WriteAbout(visualization[v].query)
        /\ visualization' = [visualization EXCEPT ![v].archived = b]
        /\ UNCHANGED <<queryRow, widget, alert>>
    BY <1>6 DEF EditVisualization
  <2>2. visualization[v] \in VisualizationRows /\ visualization[v].query \in Born(queryRow)
    BY <1>1, <2>1, ContentShapes DEF VisualizationRows
  <2>3. visualization'[v] \in VisualizationRows /\ visualization'[v].query = visualization[v].query
        /\ \A x \in VisualizationIds \ {v} : visualization'[x] = visualization[x]
    BY <1>1, <2>1, <2>2 DEF ContentTypeOK, VisualizationRows
  <2>4. Born(visualization') = Born(visualization)
    BY <1>1, <2>1, <2>3, RowsAreNotMarks, ContentShapes DEF Born
  <2>5. \A p \in Born(queryRow) \ {visualization[v].query} : Shrinks(p)
    BY <1>1, <2>1, <2>3, <2>4, ContentShapes
  <2> QED
    BY <1>1, <2>1, <2>2, <2>4, <2>5, WriteAboutKeepsInv
<1> QED
  BY <1>2, <1>3, <1>4, <1>5, <1>6 DEF AddStep, EditStep

\* A query that is new is not archived, and nothing else gets what it gets.
LEMMA MakingKeepsInv ==
  ASSUME ContentInv, NEW q \in ContentQueries,
         (\E v \in VisualizationIds : MakeQuery(q, v)) \/ (\E of \in ContentQueries : Fork(q, of))
  PROVE  ContentInv'
<1> DEFINE view == [query |-> q, archived |-> FALSE]
<1>1. ContentTypeOK /\ ContentTypeOK'
  BY MakingKeepsTypes DEF ContentInv
<1>2. /\ q \notin Born(queryRow) /\ UNCHANGED <<widget, alert, remover, touched>>
      /\ queryRow' = [queryRow EXCEPT ![q] = [archived |-> FALSE, scheduled |-> FALSE]]
  BY DEF MakeQuery, Fork, Fresh, Born
<1>3. PICK S \in SUBSET Fresh(visualization) :
        visualization' = [x \in VisualizationIds |-> IF x \in S THEN view ELSE visualization[x]]
  <2>1. ASSUME NEW v \in VisualizationIds, MakeQuery(q, v)
        PROVE  \E S \in SUBSET Fresh(visualization) :
                 visualization' = [x \in VisualizationIds |-> IF x \in S THEN view ELSE visualization[x]]
    <3>1. {v} \in SUBSET Fresh(visualization)
      BY <2>1 DEF MakeQuery
    <3>2. visualization' = [x \in VisualizationIds |-> IF x \in {v} THEN view ELSE visualization[x]]
      BY <1>1, <2>1 DEF MakeQuery, ContentTypeOK
    <3> QED
      BY <3>1, <3>2
  <2>2. ASSUME NEW of \in ContentQueries, Fork(q, of)
        PROVE  \E S \in SUBSET Fresh(visualization) :
                 visualization' = [x \in VisualizationIds |-> IF x \in S THEN view ELSE visualization[x]]
    BY <2>2 DEF Fork
  <2> QED
    BY <2>1, <2>2
<1>4. /\ Born(visualization) \subseteq Born(visualization')
      /\ \A x \in Born(visualization') :
           \/ x \in Born(visualization) /\ visualization'[x] = visualization[x]
           \/ x \notin Born(visualization) /\ visualization'[x].query = q
  BY <1>1, <1>3 DEF ContentTypeOK, Born, Fresh
<1>5. \A x \in Born(widget) : widget[x] \in Born(visualization)
  BY <1>1, ContentShapes
<1>6. \A p \in Born(queryRow) : Shrinks(p)
  BY <1>2, <1>4, <1>5 DEF Shrinks, VisualizationsOf, WidgetsOf, AlertsOf
<1>7. ~queryRow'[q].archived
      /\ \A p \in Born(queryRow') : p = q \/ (p \in Born(queryRow) /\ queryRow'[p] = queryRow[p])
  <2>1. \A p \in ContentQueries :
          queryRow'[p] = IF p = q THEN [archived |-> FALSE, scheduled |-> FALSE] ELSE queryRow[p]
    BY <1>1, <1>2 DEF ContentTypeOK
  <2>2. DOMAIN queryRow = ContentQueries /\ DOMAIN queryRow' = ContentQueries
    BY <1>1 DEF ContentTypeOK
  <2> QED
    BY <2>1, <2>2 DEF Born
<1>8. ReadsAreComplete'
  <2>1. \A r \in Removers : remover[r] # Inactive => remover[r].query \in Born(queryRow)
    BY <1>1, ContentShapes DEF RemoverStates
  <2> QED
    BY <1>2, <1>4, <1>6, <2>1, ReadsStayComplete
<1>9. ArchivedIsBare'
  BY <1>2, <1>6, <1>7, OthersStayBare
<1> QED
  BY <1>1, <1>8, <1>9 DEF ContentInv

\* What is deleted or archived is deleted or archived for every query.
LEMMA DeletionsKeepInv ==
  ASSUME ContentInv, DeleteStep \/ \E r \in Removers : CommitAlert(r) \/ RemovalFails(r)
  PROVE  ContentInv'
<1>1. ContentTypeOK /\ ContentTypeOK'
  BY EditsKeepTypes, RequestsKeepTypes DEF ContentInv
<1> USE DEF DeleteStep
<1>2. UNCHANGED <<queryRow, touched>>
      /\ \A x \in Removers : remover'[x] = Inactive \/ remover'[x] = remover[x]
  BY <1>1 DEF ArchiveVisualization, DeleteWidget, Unsubscribe, Subscribe, CommitAlert, RemovalFails, ContentTypeOK
<1>3. /\ Born(visualization') = Born(visualization)
      /\ \A x \in Born(visualization) :
           /\ visualization'[x].query = visualization[x].query
           /\ visualization'[x].archived \/ visualization'[x] = visualization[x]
  <2>1. ASSUME NEW v \in VisualizationIds, ArchiveVisualization(v)
        PROVE  /\ Born(visualization') = Born(visualization)
               /\ \A x \in Born(visualization) :
                    /\ visualization'[x].query = visualization[x].query
                    /\ visualization'[x].archived \/ visualization'[x] = visualization[x]
    <3>1. v \in Born(visualization) /\ visualization' = [visualization EXCEPT ![v].archived = TRUE]
      BY <2>1 DEF ArchiveVisualization
    <3>2. visualization[v] \in VisualizationRows
      BY <1>1, <3>1, ContentShapes
    <3>3. /\ visualization'[v] \in VisualizationRows /\ visualization'[v].archived
          /\ visualization'[v].query = visualization[v].query
          /\ \A x \in VisualizationIds \ {v} : visualization'[x] = visualization[x]
      BY <1>1, <3>1, <3>2 DEF ContentTypeOK, VisualizationRows
    <3>4. Born(visualization') = Born(visualization)
      BY <1>1, <3>1, <3>3, RowsAreNotMarks, ContentShapes DEF Born
    <3> QED
      BY <1>1, <3>3, <3>4, ContentShapes
  <2>2. CASE UNCHANGED visualization
    BY <2>2
  <2> QED
    BY <2>1, <2>2 DEF DeleteWidget, Unsubscribe, Subscribe, CommitAlert, RemovalFails
<1>4. \A x \in Born(widget') : x \in Born(widget) /\ widget'[x] = widget[x]
  BY <1>1 DEF ArchiveVisualization, DeleteWidget, Unsubscribe, Subscribe, CommitAlert, RemovalFails,
     ContentTypeOK, Born
<1>5. \A x \in Born(alert') : x \in Born(alert) /\ alert'[x] = alert[x]
  BY <1>1 DEF ArchiveVisualization, DeleteWidget, Unsubscribe, Subscribe, CommitAlert, RemovalFails,
     DeleteRead, ContentTypeOK, Born
<1>6. \A p : Shrinks(p)
  BY <1>3, <1>4, <1>5 DEF Shrinks, VisualizationsOf, WidgetsOf, AlertsOf
<1>7. ReadsAreComplete'
  BY <1>2, <1>3, <1>6, ReadsStayComplete
<1>8. ArchivedIsBare'
  BY <1>2, <1>6, OthersStayBare
<1> QED
  BY <1>1, <1>7, <1>8 DEF ContentInv

\* A request that reads what belongs to a query.
LEMMA ReadingKeepsInv ==
  ASSUME ContentInv, NEW r \in Removers,
         \/ (\E q \in ContentQueries : ReadVisualizations(r, q)) \/ (\E a \in AlertIds : ReadAlert(r, a))
         \/ ReadAlerts(r)
  PROVE  ContentInv'
<1>1. ContentTypeOK /\ ContentTypeOK'
  BY RequestsKeepTypes DEF ContentInv
<1>2. UNCHANGED <<queryRow, visualization, widget, alert, subscription, touched>>
      /\ \A p \in Removers \ {r} : remover'[p] = remover[p]
  BY <1>1 DEF ReadVisualizations, ReadAlert, ReadAlerts, ContentTypeOK
<1>3. /\ \A q : VisualizationsOf(q)' = VisualizationsOf(q) /\ WidgetsOf(q)' = WidgetsOf(q)
                /\ AlertsOf(q)' = AlertsOf(q)
      /\ Born(visualization') = Born(visualization)
  BY <1>2 DEF VisualizationsOf, WidgetsOf, AlertsOf
<1>4. Complete(r)'
  <2>1. ASSUME NEW q \in ContentQueries, ReadVisualizations(r, q)
        PROVE  Complete(r)'
    <3>1. remover'[r] =
            [pc |-> "visualizations", query |-> q, visualizations |-> VisualizationsOf(q),
             widgets |-> WidgetsOf(q), alerts |-> {}, subscriptions |-> {}, overlap |-> FALSE]
      BY <1>1, <2>1 DEF ReadVisualizations, ContentTypeOK
    <3>2. VisualizationsOf(q) \subseteq Born(visualization)
      BY DEF VisualizationsOf
    <3> QED
      BY <1>3, <3>1, <3>2 DEF Complete
  <2>2. ASSUME NEW a \in AlertIds, ReadAlert(r, a)
        PROVE  Complete(r)'
    <3>1. remover'[r].pc = "alert"
      BY <1>1, <2>2 DEF ReadAlert, ContentTypeOK
    <3> QED
      BY <3>1 DEF Complete
  <2>3. CASE ReadAlerts(r)
    <3>1. remover[r].pc = "visualizations" /\ remover[r] \in RemoverStates
      BY <1>1, <2>3, ContentShapes DEF ReadAlerts, Inactive
    <3>2. /\ remover'[r].pc = "alerts" /\ remover'[r].query = remover[r].query
          /\ remover'[r].overlap = remover[r].overlap /\ remover'[r].widgets = remover[r].widgets
          /\ remover'[r].visualizations = remover[r].visualizations
          /\ remover'[r].alerts = AlertsOf(remover[r].query)
      BY <1>1, <2>3, <3>1 DEF ReadAlerts, ContentTypeOK, RemoverStates
    <3>3. Complete(r)
      BY CompleteForEach DEF ContentInv
    <3> QED
      BY <1>3, <3>1, <3>2, <3>3 DEF Complete
  <2> QED
    BY <2>1, <2>2, <2>3
<1>5. \A p \in Removers \ {r} : Complete(p)'
  BY <1>2, <1>3, CompleteForEach DEF Complete, ContentInv
<1>6. ReadsAreComplete'
  BY <1>4, <1>5 DEF ReadsAreComplete, Complete
<1>7. ArchivedIsBare'
  BY <1>2, <1>3 DEF ContentInv, ArchivedIsBare
<1> QED
  BY <1>1, <1>6, <1>7 DEF ContentInv

\* What is archived is bare unless somebody wrote about it meanwhile.
LEMMA CommitArchiveKeepsInv ==
  ASSUME ContentInv, NEW r \in Removers, CommitArchive(r)
  PROVE  ContentInv'
<1> DEFINE x == remover[r]
<1>1. /\ ContentTypeOK /\ ContentTypeOK' /\ Born(queryRow') = Born(queryRow)
      /\ Born(visualization') = Born(visualization)
  BY CommitArchiveKeepsTypes DEF ContentInv
<1>2. /\ x.pc = "alerts" /\ ~Held(r) /\ DeleteRead(r)
      /\ queryRow' = [queryRow EXCEPT ![x.query] = [archived |-> TRUE, scheduled |-> FALSE]]
      /\ visualization' = [v \in VisualizationIds |->
           IF v \in x.visualizations THEN [visualization[v] EXCEPT !.archived = TRUE] ELSE visualization[v]]
      /\ widget' = [w \in WidgetIds |-> IF w \in x.widgets THEN Gone ELSE widget[w]]
      /\ touched' = IF x.overlap THEN touched \cup {x.query} ELSE touched \ {x.query}
      /\ remover' = [remover EXCEPT ![r] = Inactive]
  BY DEF CommitArchive
<1>3. x \in RemoverStates /\ x.query \in Born(queryRow) /\ Complete(r)
  BY <1>1, <1>2, ContentShapes, CompleteForEach DEF ContentInv, RemoverStates, Inactive
<1>4. \A v \in Born(visualization) :
        /\ visualization'[v].query = visualization[v].query
        /\ v \in x.visualizations => visualization'[v].archived
        /\ v \notin x.visualizations => visualization'[v] = visualization[v]
  BY <1>1, <1>2, ContentShapes DEF VisualizationRows
<1>5. \A w \in Born(widget') : w \in Born(widget) \ x.widgets /\ widget'[w] = widget[w]
  BY <1>1, <1>2 DEF ContentTypeOK, Born
<1>6. \A a \in Born(alert') : a \in Born(alert) \ x.alerts /\ alert'[a] = alert[a]
  BY <1>1, <1>2 DEF DeleteRead, ContentTypeOK, Born
<1>7. \A q : Shrinks(q)
  BY <1>1, <1>4, <1>5, <1>6 DEF Shrinks, VisualizationsOf, WidgetsOf, AlertsOf
<1>8. ReadsAreComplete'
  <2>1. \A p \in Removers : remover'[p] = Inactive \/ remover'[p] = remover[p]
    BY <1>1, <1>2 DEF ContentTypeOK
  <2> QED
    BY <1>1, <1>7, <2>1, ReadsStayComplete
<1>9. ArchivedIsBare'
  <2>1. ASSUME NEW q \in Born(queryRow'), q \notin touched', queryRow'[q].archived
        PROVE  /\ ~queryRow'[q].scheduled
               /\ AlertsOf(q)' = {} /\ WidgetsOf(q)' = {}
               /\ \A v \in VisualizationsOf(q)' : visualization'[v].archived
    <3>1. CASE q # x.query
      <4>1. q \in Born(queryRow) \ touched /\ queryRow'[q] = queryRow[q]
        BY <1>1, <1>2, <2>1, <3>1 DEF ContentTypeOK
      <4> QED
        BY <1>7, <2>1, <4>1 DEF ContentInv, ArchivedIsBare, Shrinks
    <3>2. CASE q = x.query
      <4>1. ~x.overlap
        BY <1>2, <2>1, <3>2
      <4>2. /\ VisualizationsOf(q) \subseteq x.visualizations
            /\ WidgetsOf(q) \subseteq x.widgets /\ AlertsOf(q) \subseteq x.alerts
        BY <1>2, <1>3, <3>2, <4>1 DEF Complete
      <4>3. AlertsOf(q)' = {} /\ WidgetsOf(q)' = {}
        BY <1>5, <1>6, <1>7, <4>2 DEF Shrinks, AlertsOf, WidgetsOf
      <4>4. \A v \in VisualizationsOf(q)' : visualization'[v].archived
        BY <1>4, <1>7, <4>2 DEF Shrinks, VisualizationsOf
      <4>5. queryRow'[q] = [archived |-> TRUE, scheduled |-> FALSE]
        BY <1>1, <1>2, <1>3, <3>2, ContentShapes DEF ContentTypeOK
      <4> QED
        BY <4>3, <4>4, <4>5
    <3> QED
      BY <3>1, <3>2
  <2> QED
    BY <2>1 DEF ArchivedIsBare
<1> QED
  BY <1>1, <1>8, <1>9 DEF ContentInv

LEMMA InitContentInv == ContentInit => ContentInv
<1> SUFFICES ASSUME ContentInit PROVE ContentInv
  OBVIOUS
<1>1. ContentTypeOK /\ Born(queryRow) = {}
  BY DEF ContentInit, ContentTypeOK, Born, IdOr
<1>2. ReadsAreComplete
  BY DEF ContentInit, ReadsAreComplete, Inactive
<1> QED
  BY <1>1, <1>2 DEF ContentInv, ArchivedIsBare

LEMMA NextKeepsContentInv ==
  ASSUME ContentInv, [ContentNext]_contentVars
  PROVE  ContentInv'
<1>1. CASE ContentNext
  <2>1. \A archived, scheduled \in BOOLEAN : [archived |-> archived, scheduled |-> scheduled] \in QueryStates
    BY DEF QueryStates
  <2>2. \/ \E q \in ContentQueries :
             \/ \E v \in VisualizationIds : MakeQuery(q, v)
             \/ \E of \in ContentQueries : Fork(q, of)
        \/ AddStep \/ EditStep \/ DeleteStep
        \/ \E r \in Removers :
             \/ \E q \in ContentQueries : ReadVisualizations(r, q)
             \/ \E a \in AlertIds : ReadAlert(r, a)
             \/ ReadAlerts(r) \/ CommitArchive(r) \/ CommitAlert(r) \/ RemovalFails(r)
    BY <1>1, <2>1 DEF ContentNext, AddStep, EditStep, DeleteStep
  <2> QED
    BY <2>2, MakingKeepsInv, AdditionsKeepInv, DeletionsKeepInv, ReadingKeepsInv, CommitArchiveKeepsInv
<1>2. CASE UNCHANGED contentVars
  BY <1>2 DEF contentVars, ContentInv, ContentTypeOK, VisualizationRows, RemoverStates, ReadsAreComplete,
     ArchivedIsBare, VisualizationsOf, WidgetsOf, AlertsOf
<1> QED
  BY <1>1, <1>2

\* The types of Content, and its foreign keys: widgets have visualizations,
\* visualizations and alerts have queries, subscriptions have alerts
\* (models/__init__.py:484, :901, :1217, :1302, :1460).
THEOREM ContentTypeCorrect == ContentSpec => []ContentTypeOK
<1>1. ContentInv /\ [ContentNext]_contentVars => ContentInv'
  BY NextKeepsContentInv
<1>2. ContentInv => ContentTypeOK
  BY DEF ContentInv
<1> QED
  BY InitContentInv, <1>1, <1>2, PTL DEF ContentSpec

\* Unless somebody wrote about the query while it was archived or later, an
\* archived query has no schedule, no alert, only archived visualizations and no
\* widget on any dashboard (models/__init__.py:484-499).
THEOREM ArchivedQueriesAreBare == ContentSpec => []ArchivedIsBare
<1>1. ContentInv /\ [ContentNext]_contentVars => ContentInv'
  BY NextKeepsContentInv
<1>2. ContentInv => ArchivedIsBare
  BY DEF ContentInv
<1> QED
  BY InitContentInv, <1>1, <1>2, PTL DEF ContentSpec

-----------------------------------------------------------------------------
(* Catalog: counting rows                                                  *)

ItemRows ==
  [key : SortKeys, archived : BOOLEAN, draft : BOOLEAN, source : BOOLEAN,
   mine : 0..MaxLinked, others : 0..MaxLinked, favorite : BOOLEAN]

RowSet(list, S) == UNION {{i} \X (1..RowsOf(list, i)) : i \in S}

\* Every nonempty set of naturals has a least element.
LEMMA Least ==
  ASSUME NEW T \in SUBSET Nat, T # {}
  PROVE  \E least \in T : \A n \in T : least <= n
<1>1. PICK least \in T : \A n \in T : ~(<<n, least>> \in OpToRel(<, Nat))
  BY WFMin, NatLessThanWellFounded
<1>2. \A n \in T : ~(n < least)
  BY <1>1 DEF OpToRel
<1> QED
  BY <1>2

LEMMA RowsOfItems ==
  ASSUME item \in [Items -> ItemRows], NEW list, NEW i \in Items
  PROVE  RowsOf(list, i) \in Nat
<1>1. item[i].mine \in Nat /\ item[i].others \in Nat
  BY CatalogAssumption DEF ItemRows
<1>2. RowsByGroup(i) \in Nat
  <2> DEFINE n == item[i].mine + item[i].others
  <2>1. n \in Nat
    BY <1>1
  <2>2. \E x \in {1, n} : \A y \in {1, n} : x >= y
    BY <2>1
  <2>3. Max({1, n}) \in {1, n}
    BY <2>2 DEF Max
  <2> QED
    BY <1>1, <2>1, <2>3 DEF RowsByGroup
<1>3. \A b : Once(b) \in Nat
  BY DEF Once
<1> QED
  BY <1>2, <1>3 DEF RowsOf

LEMMA RowSets ==
  ASSUME item \in [Items -> ItemRows], NEW list, NEW S \in SUBSET Items
  PROVE  /\ IsFiniteSet(RowSet(list, S))
         /\ RowsIn(list, S) \in Nat /\ RowsIn(list, S) = Cardinality(RowSet(list, S))
<1>1. IsFiniteSet(S)
  BY FS_Subset, CatalogAssumption
<1> DEFINE f == [i \in S |-> {i} \X (1..RowsOf(list, i))]
<1>2. \A i \in S : IsFiniteSet(f[i])
  <2> SUFFICES ASSUME NEW i \in S PROVE IsFiniteSet({i} \X (1..RowsOf(list, i)))
    OBVIOUS
  <2>1. IsFiniteSet(1..RowsOf(list, i))
    BY FS_Interval, RowsOfItems
  <2> QED
    BY <2>1, FS_Singleton, FS_Product
<1> DEFINE T == {f[i] : i \in S}
<1>4. RowSet(list, S) = UNION T
  <2>1. T = {{i} \X (1..RowsOf(list, i)) : i \in S}
    OBVIOUS
  <2> QED
    BY <2>1 DEF RowSet
<1>3. IsFiniteSet(T)
  <2>1. f \in Surjection(S, T)
    BY DEF Surjection
  <2> QED
    BY <1>1, <2>1, FS_Surjection
<1>7. \A t \in T : IsFiniteSet(t)
  BY <1>2
<1> HIDE DEF f, T
<1>5. IsFiniteSet(RowSet(list, S))
  BY <1>3, <1>4, <1>7, FS_UNION
<1>6. RowsIn(list, S) = Cardinality(RowSet(list, S))
  BY DEF RowsIn, RowSet
<1> QED
  BY <1>5, <1>6, FS_CardinalityType

LEMMA RowPairs ==
  ASSUME NEW list, NEW S
  PROVE  \A p : p \in RowSet(list, S) <=>
                \E i \in S : \E k \in 1..RowsOf(list, i) : p = <<i, k>>
<1> SUFFICES ASSUME NEW p
             PROVE  p \in RowSet(list, S) <=>
                      \E i \in S : \E k \in 1..RowsOf(list, i) : p = <<i, k>>
  OBVIOUS
<1>1. p \in RowSet(list, S) <=> \E i \in S : p \in {i} \X (1..RowsOf(list, i))
  BY DEF RowSet
<1>2. \A i \in S : p \in {i} \X (1..RowsOf(list, i)) <=>
                   \E k \in 1..RowsOf(list, i) : p = <<i, k>>
  OBVIOUS
<1> QED
  BY <1>1, <1>2

\* The rows of objects that are not the same are not the same.
LEMMA RowsAdd ==
  ASSUME item \in [Items -> ItemRows], NEW list,
         NEW S \in SUBSET Items, NEW T \in SUBSET Items, S \cap T = {}
  PROVE  RowsIn(list, S \cup T) = RowsIn(list, S) + RowsIn(list, T)
<1>1. S \cup T \in SUBSET Items
  OBVIOUS
<1>2. RowSet(list, S \cup T) = RowSet(list, S) \cup RowSet(list, T)
  BY DEF RowSet
<1>3. RowSet(list, S) \cap RowSet(list, T) = {}
  BY RowPairs
<1>4. /\ IsFiniteSet(RowSet(list, S)) /\ RowsIn(list, S) = Cardinality(RowSet(list, S))
      /\ IsFiniteSet(RowSet(list, T)) /\ RowsIn(list, T) = Cardinality(RowSet(list, T))
      /\ RowsIn(list, S \cup T) = Cardinality(RowSet(list, S \cup T))
      /\ RowsIn(list, S) \in Nat /\ RowsIn(list, T) \in Nat
  BY <1>1, RowSets
<1>5. Cardinality(RowSet(list, S) \cap RowSet(list, T)) = 0
  BY <1>3, FS_EmptySet
<1>6. ASSUME NEW A, NEW B, IsFiniteSet(A), IsFiniteSet(B), Cardinality(A \cap B) = 0,
             Cardinality(A) \in Nat, Cardinality(B) \in Nat
      PROVE  Cardinality(A \cup B) = Cardinality(A) + Cardinality(B)
  <2>1. Cardinality(A \cup B) = Cardinality(A) + Cardinality(B) - Cardinality(A \cap B)
    BY <1>6, FS_Union
  <2> QED
    BY <1>6, <2>1
<1>7. Cardinality(RowSet(list, S) \cup RowSet(list, T)) =
        Cardinality(RowSet(list, S)) + Cardinality(RowSet(list, T))
  BY <1>4, <1>5, <1>6
<1> QED
  BY <1>2, <1>4, <1>7

LEMMA RowsGrow ==
  ASSUME item \in [Items -> ItemRows], NEW list,
         NEW S \in SUBSET Items, NEW T \in SUBSET S
  PROVE  RowsIn(list, T) <= RowsIn(list, S)
<1>1. T \in SUBSET Items /\ S \ T \in SUBSET Items /\ T \cap (S \ T) = {} /\ S = T \cup (S \ T)
  OBVIOUS
<1>2. RowsIn(list, T \cup (S \ T)) = RowsIn(list, T) + RowsIn(list, S \ T)
  BY <1>1, RowsAdd
<1>3. RowsIn(list, T) \in Nat /\ RowsIn(list, S \ T) \in Nat
  BY <1>1, RowSets
<1>4. RowsIn(list, S) = RowsIn(list, T) + RowsIn(list, S \ T)
  BY <1>1, <1>2
<1> QED
  BY <1>3, <1>4

LEMMA RowsOfListed ==
  ASSUME item \in [Items -> ItemRows], NEW list, NEW S \in SUBSET Items
  PROVE  RowsIn(list, S) > 0 <=> S \cap Listed(list) # {}
<1>1. IsFiniteSet(RowSet(list, S)) /\ RowsIn(list, S) = Cardinality(RowSet(list, S))
  BY RowSets
<1>2. RowsIn(list, S) \in Nat /\ (RowsIn(list, S) = 0 <=> RowSet(list, S) = {})
  BY <1>1, FS_EmptySet, FS_CardinalityType
<1>3. ASSUME NEW i \in S, i \in Listed(list) PROVE RowSet(list, S) # {}
  <2>1. 1 \in 1..RowsOf(list, i)
    BY <1>3, RowsOfItems DEF Listed
  <2>2. <<i, 1>> \in RowSet(list, S)
    BY <2>1, RowPairs
  <2> QED
    BY <2>2
<1>4. ASSUME NEW i \in S, NEW k \in 1..RowsOf(list, i) PROVE i \in Listed(list)
  BY <1>4, RowsOfItems DEF Listed
<1>5. RowSet(list, S) # {} => S \cap Listed(list) # {}
  BY <1>4, RowPairs
<1> QED
  BY <1>2, <1>3, <1>5

-----------------------------------------------------------------------------
(* Catalog: the order, and windows                                         *)

Keyed(list, key, n) ==
  RowsIn(list, Before(key)) < n /\ n <= RowsIn(list, Before(key)) + RowsIn(list, With(key))

\* Each row has a sort key: the greatest one whose predecessors have fewer rows.
LEMMA RowsHaveKeys ==
  ASSUME item \in [Items -> ItemRows], NEW list, NEW behind \in SortKeys, NEW n \in Nat \ {0},
         n <= RowsIn(list, Before(behind))
  PROVE  \E key \in SortKeys : Keyed(list, key, n)
<1>1. SortKeys \subseteq Nat /\ \A i \in Items : item[i].key \in Nat /\ item[i].key \in SortKeys
  BY CatalogAssumption DEF ItemRows
<1>2. \A k \in Nat : Before(k) \in SUBSET Items /\ With(k) \in SUBSET Items
  BY DEF Before, With
<1> DEFINE T == {k \in Nat : n <= RowsIn(list, Before(k))}
<1>3. PICK least \in T : \A k \in T : least <= k
  <2>1. T \in SUBSET Nat /\ behind \in T
    BY <1>1
  <2> HIDE DEF T
  <2> QED
    BY <2>1, Least
<1>4. least \in Nat /\ n <= RowsIn(list, Before(least))
  OBVIOUS
<1>5. least # 0
  <2>1. Before(0) = {}
    BY <1>1 DEF Before
  <2>2. ~(RowsIn(list, {}) > 0) /\ RowsIn(list, {}) \in Nat
    BY RowsOfListed, RowSets
  <2> QED
    BY <1>4, <2>1, <2>2
<1> DEFINE key == least - 1
<1>6. key \in Nat /\ key \notin T
  BY <1>3, <1>4, <1>5
<1>7. /\ Before(least) = Before(key) \cup With(key) /\ Before(key) \cap With(key) = {}
  <2>1. \A m \in Nat : (m < least <=> m < key \/ m = key) /\ ~(m < key /\ m = key)
    BY <1>4, <1>6
  <2> HIDE DEF key
  <2> QED
    BY <1>1, <2>1 DEF Before, With
<1>8. RowsIn(list, Before(least)) = RowsIn(list, Before(key)) + RowsIn(list, With(key))
  <2> HIDE DEF key
  <2> QED
    BY <1>2, <1>6, <1>7, RowsAdd
<1>9. RowsIn(list, Before(key)) \in Nat /\ RowsIn(list, With(key)) \in Nat
  <2> HIDE DEF key
  <2> QED
    BY <1>2, <1>6, RowSets
<1>10. Keyed(list, key, n)
  BY <1>4, <1>6, <1>8, <1>9 DEF Keyed
<1>11. key \in SortKeys
  <2>1. RowsIn(list, With(key)) > 0
    BY <1>9, <1>10 DEF Keyed
  <2> HIDE DEF key
  <2>2. With(key) \cap Listed(list) # {}
    BY <1>2, <1>6, <2>1, RowsOfListed
  <2>3. PICK i \in Items : item[i].key = key
    BY <2>2 DEF With
  <2> QED
    BY <1>1, <2>3
<1> QED
  BY <1>10, <1>11

\* A window shows an object for each of its rows.
LEMMA WindowsShow ==
  ASSUME item \in [Items -> ItemRows], NEW list, NEW page \in Nat \ {0},
         NEW S \in Pages(list, page), NEW key \in SortKeys, NEW n \in Window(page),
         Keyed(list, key, n)
  PROVE  S \cap With(key) \cap Listed(list) # {}
<1> DEFINE a == RowsIn(list, Before(key))
           b == RowsIn(list, With(key))
           rows == (a + 1)..(a + b)
           share == Cardinality(rows \cap Window(page))
<1>1. a \in Nat /\ b \in Nat
  BY RowSets DEF Before, With
<1>2. n \in Nat /\ n \in rows \cap Window(page)
  <2>1. (page - 1) * PageSize \in Int /\ page * PageSize \in Int
    BY CatalogAssumption
  <2>2. n \in Int
    BY <2>1 DEF Window
  <2> QED
    BY <1>1, <2>2 DEF Keyed
<1>3. IsFiniteSet(rows \cap Window(page)) /\ share \in Nat
  <2>1. IsFiniteSet(rows)
    BY <1>1, FS_Interval
  <2>2. rows \cap Window(page) \in SUBSET rows
    OBVIOUS
  <2> HIDE DEF rows
  <2> QED
    BY <2>1, <2>2, FS_Subset, FS_CardinalityType
<1>4. share # 0
  BY <1>2, <1>3, FS_EmptySet
<1>5. share <= RowsIn(list, S \cap With(key))
  BY DEF Pages
<1>6. S \cap With(key) \in SUBSET Items /\ RowsIn(list, S \cap With(key)) \in Nat
  BY RowSets DEF With
<1>7. RowsIn(list, S \cap With(key)) > 0
  BY <1>3, <1>4, <1>5, <1>6
<1> QED
  BY <1>6, <1>7, RowsOfListed

-----------------------------------------------------------------------------
(* Catalog: the walk                                                       *)

Walks ==
  [pc : {"count", "select", "done"}, list : Lists, page : Nat \ {0}, count : Nat,
   shown : SUBSET Items, free : SUBSET Items]

\* What the client has to see still and has not seen has all its rows behind the
\* pages that it has seen, and in front of where the count says that the list ends.
BehindTheWalk(list) ==
  \A i \in Items \ walk.free :
    /\ i \notin Loose(list)
    /\ i \notin walk.shown =>
         /\ Ahead(list, i) >= (walk.page - 1) * PageSize
         /\ walk.pc = "select" => Ahead(list, i) < walk.count

CatalogInv ==
  /\ CatalogTypeOK
  /\ walk = AtHome \/ walk \in Walks
  /\ \A list \in Lists :
       walk \in Walks /\ walk.list = list /\ walk.pc \in {"count", "select"} => BehindTheWalk(list)
  /\ PagesMissOnlyIf

LEMMA TypedItems ==
  CatalogTypeOK => item \in [Items -> ItemRows] /\ \A i \in Items : item[i].key \in SortKeys
BY DEF CatalogTypeOK, ItemRows

LEMMA Pagewise ==
  ASSUME NEW page \in Nat \ {0}
  PROVE  /\ (page - 1) * PageSize \in Nat /\ page * PageSize \in Nat
         /\ page * PageSize = (page - 1) * PageSize + PageSize
         /\ (page # 1 => (page - 1) * PageSize >= 1)
         /\ Window(page) = ((page - 1) * PageSize + 1)..(page * PageSize)
<1>1. PageSize \in Nat \ {0} /\ page - 1 \in Nat
  BY CatalogAssumption
<1>2. (page - 1) * PageSize \in Nat /\ page * PageSize \in Nat
  BY <1>1
<1>3. page * PageSize = (page - 1) * PageSize + PageSize
  <2>1. PICK n \in Nat : n = page - 1
    BY <1>1
  <2>2. page = n + 1
    BY <2>1
  <2>3. (n + 1) * PageSize = n * PageSize + PageSize
    BY <1>1, <2>1
  <2> QED
    BY <2>1, <2>2, <2>3
<1>4. page # 1 => (page - 1) * PageSize >= 1
  <2> SUFFICES ASSUME page # 1 PROVE (page - 1) * PageSize >= 1
    OBVIOUS
  <2>1. PICK n \in Nat : page - 1 = n + 1
    <3>1. page - 2 \in Nat /\ page - 1 = (page - 2) + 1
      OBVIOUS
    <3> QED
      BY <3>1
  <2>2. (n + 1) * PageSize = n * PageSize + PageSize /\ n * PageSize \in Nat
    BY <1>1, <2>1
  <2> QED
    BY <1>1, <2>1, <2>2
<1> QED
  BY <1>2, <1>3, <1>4 DEF Window

\* An object that has a place of its own has its rows in the list, behind those
\* ahead of it.
LEMMA OwnPlace ==
  ASSUME item \in [Items -> ItemRows], NEW list, NEW i \in Items, i \notin Loose(list)
  PROVE  /\ item[i].key \in SortKeys /\ i \in Listed(list)
         /\ With(item[i].key) \cap Listed(list) = {i}
         /\ Ahead(list, i) \in Nat /\ Ahead(list, i) = RowsIn(list, Before(item[i].key))
         /\ Keyed(list, item[i].key, Ahead(list, i) + 1)
         /\ Ahead(list, i) < RowsIn(list, Items) /\ RowsIn(list, Items) \in Nat
<1> DEFINE key == item[i].key
<1>1. key \in SortKeys /\ key \in Nat
  BY CatalogAssumption DEF ItemRows
<1>2. i \in Listed(list) /\ With(key) \cap Listed(list) = {i}
  BY DEF Loose, With, Listed
<1>3. Before(key) \in SUBSET Items /\ With(key) \in SUBSET Items /\ i \in With(key)
  BY DEF Before, With
<1>4. Before(key) \cap With(key) = {}
  BY <1>1 DEF Before, With
<1>5. RowsIn(list, Before(key)) \in Nat /\ RowsIn(list, With(key)) \in Nat /\ RowsIn(list, Items) \in Nat
  BY <1>3, RowSets
<1>6. RowsIn(list, With(key)) > 0
  BY <1>2, <1>3, RowsOfListed
<1>7. RowsIn(list, Before(key) \cup With(key)) = RowsIn(list, Before(key)) + RowsIn(list, With(key))
  BY <1>3, <1>4, RowsAdd
<1>8. RowsIn(list, Before(key) \cup With(key)) <= RowsIn(list, Items)
  BY <1>3, RowsGrow
<1> QED
  BY <1>1, <1>2, <1>5, <1>6, <1>7, <1>8 DEF Ahead, Keyed

PlacesAreNumbers == \A list \in Lists : \A i \in Items : Ahead(list, i) \in Nat

LEMMA AheadIsNat == CatalogTypeOK => PlacesAreNumbers
<1> SUFFICES ASSUME CatalogTypeOK, NEW list \in Lists, NEW i \in Items
             PROVE  Ahead(list, i) \in Nat
  BY DEF PlacesAreNumbers
<1>1. Before(item[i].key) \in SUBSET Items
  BY DEF Before
<1> QED
  BY <1>1, TypedItems, RowSets DEF Ahead

LEMMA AheadIsNatNext == CatalogTypeOK' => PlacesAreNumbers'
BY AheadIsNat, PTL

\* Nothing but the columns decides on the place of an object.
LEMMA SamePlaces ==
  ASSUME item' = item, NEW list
  PROVE  /\ Loose(list)' = Loose(list)
         /\ \A i \in Items : Ahead(list, i)' = Ahead(list, i)
BY DEF Loose, Ahead, Before, Listed, RowsIn, RowsOf, Once, InAllQueries, RowsByGroup, InArchive,
  InMine, InFavorites, InAllDashboards, InSourceDashboards, InDashboards, InVisualizations

\* What others do shows in `free`.
LEMMA ChangesKeepWalks ==
  ASSUME CatalogInv, NEW i \in Items, NEW row \in ItemRows, Change(i, row)
  PROVE  CatalogInv'
<1>1. /\ edits < MaxEdits /\ edits' = edits + 1 /\ item' = [item EXCEPT ![i] = row]
  BY DEF Change
<1>2. item' \in [Items -> ItemRows] /\ edits' \in 0..MaxEdits
  BY <1>1, CatalogAssumption DEF CatalogInv, CatalogTypeOK, ItemRows
<1>3. CASE walk = AtHome /\ UNCHANGED walk
  <2>1. walk.pc = "home" /\ walk' = AtHome /\ walk'.pc = "home"
    BY <1>3 DEF AtHome
  <2>2. walk' \notin Walks
    BY <2>1 DEF Walks
  <2> QED
    BY <1>2, <2>1, <2>2 DEF CatalogInv, CatalogTypeOK, ItemRows, PagesMissOnlyIf, Walks
<1>4. ASSUME NEW list \in Lists, walk # AtHome, walk.list = list,
             walk' = [walk EXCEPT !.free = @ \cup Loose(list)' \cup
               {j \in Items : \/ Ahead(list, j)' < Ahead(list, j)
                              \/ walk.pc = "select" /\ Ahead(list, j)' # Ahead(list, j)}]
      PROVE  CatalogInv'
  <2> DEFINE free == walk.free \cup Loose(list)' \cup
               {j \in Items : \/ Ahead(list, j)' < Ahead(list, j)
                              \/ walk.pc = "select" /\ Ahead(list, j)' # Ahead(list, j)}
  <2>1. walk \in Walks
    BY <1>4 DEF CatalogInv
  <2>2. Loose(list)' \in SUBSET Items
    BY DEF Loose
  <2>3. free \in SUBSET Items
    BY <2>1, <2>2 DEF Walks
  <2>4. walk' = [walk EXCEPT !.free = free]
    BY <1>4
  <2>5. \A j \in Items \ free :
          /\ j \notin walk.free /\ j \notin Loose(list)'
          /\ ~(Ahead(list, j)' < Ahead(list, j))
          /\ walk.pc = "select" => Ahead(list, j)' = Ahead(list, j)
    OBVIOUS
  <2>6. walk.free \subseteq free
    OBVIOUS
  <2> HIDE DEF free
  <2>7. walk' \in Walks
    BY <2>1, <2>3, <2>4 DEF Walks
  <2>8. /\ UNCHANGED <<walk.pc, walk.list, walk.page, walk.count, walk.shown>>
        /\ walk'.free = free
    BY <2>1, <2>4 DEF Walks
  <2>9. CatalogTypeOK'
    BY <1>2, <2>7 DEF CatalogTypeOK, ItemRows, Walks
  <2>10. walk.pc \in {"count", "select"} => BehindTheWalk(list)'
    <3> SUFFICES ASSUME walk.pc \in {"count", "select"}, NEW j \in Items \ free
                 PROVE  /\ j \notin Loose(list)'
                        /\ j \notin walk.shown =>
                             /\ Ahead(list, j)' >= (walk.page - 1) * PageSize
                             /\ walk.pc = "select" => Ahead(list, j)' < walk.count
      BY <2>8 DEF BehindTheWalk
    <3>1. BehindTheWalk(list)
      BY <1>4, <2>1 DEF CatalogInv
    <3>2. Ahead(list, j) \in Nat /\ Ahead(list, j)' \in Nat
      BY <2>9, AheadIsNat, AheadIsNatNext DEF CatalogInv, PlacesAreNumbers
    <3>3. walk.page \in Nat \ {0}
      BY <2>1 DEF Walks
    <3>4. (walk.page - 1) * PageSize \in Nat
      BY <3>3, Pagewise
    <3> QED
      BY <2>5, <3>1, <3>2, <3>4 DEF BehindTheWalk
  <2>11. PagesMissOnlyIf'
    BY <2>6, <2>8 DEF CatalogInv, PagesMissOnlyIf
  <2> QED
    BY <1>4, <2>7, <2>8, <2>9, <2>10, <2>11 DEF CatalogInv, Walks
<1> QED
  BY <1>3, <1>4 DEF Change

LEMMA WalksGoOn ==
  ASSUME CatalogInv, (\E list \in Lists : Begin(list)) \/ CountRows \/ SelectPage \/ Return
  PROVE  CatalogInv'
<1>1. item \in [Items -> ItemRows] /\ UNCHANGED <<item, edits>>
  BY TypedItems DEF CatalogInv, Begin, CountRows, SelectPage, Return
<1>2. ASSUME walk' \in Walks,
             walk'.pc \in {"count", "select"} =>
               \A i \in Items \ walk'.free :
                 /\ i \notin Loose(walk'.list)
                 /\ i \notin walk'.shown =>
                      /\ Ahead(walk'.list, i) >= (walk'.page - 1) * PageSize
                      /\ walk'.pc = "select" => Ahead(walk'.list, i) < walk'.count,
             PagesMissOnlyIf'
      PROVE  CatalogInv'
  <2>1. CatalogTypeOK'
    BY <1>1, <1>2 DEF CatalogInv, CatalogTypeOK, Walks
  <2>2. ASSUME NEW list \in Lists, walk'.list = list, walk'.pc \in {"count", "select"}
        PROVE  BehindTheWalk(list)'
    <3>1. \A i \in Items \ walk'.free :
            /\ i \notin Loose(list)
            /\ i \notin walk'.shown =>
                 /\ Ahead(list, i) >= (walk'.page - 1) * PageSize
                 /\ walk'.pc = "select" => Ahead(list, i) < walk'.count
      BY <1>2, <2>2
    <3> QED
      BY <1>1, <3>1, SamePlaces DEF BehindTheWalk
  <2> QED
    BY <1>2, <2>1, <2>2 DEF CatalogInv, Walks
<1>3. ASSUME NEW list \in Lists, Begin(list) PROVE CatalogInv'
  <2>1. /\ walk' = [pc |-> "count", list |-> list, page |-> 1, count |-> 0, shown |-> {},
                    free |-> Loose(list)]
        /\ Loose(list) \in SUBSET Items
    BY <1>3 DEF Begin, Loose
  <2>2. walk' \in Walks
    BY <2>1 DEF Walks
  <2>3. \A i \in Items : Ahead(list, i) \in Nat
    BY AheadIsNat DEF CatalogInv, PlacesAreNumbers
  <2>4. (1 - 1) * PageSize = 0
    BY CatalogAssumption
  <2>5. /\ walk'.pc = "count" /\ walk'.list = list /\ walk'.page = 1 /\ walk'.free = Loose(list)
    BY <2>1
  <2>6. \A i \in Items \ walk'.free :
          i \notin Loose(walk'.list) /\ Ahead(walk'.list, i) >= (walk'.page - 1) * PageSize
    BY <2>3, <2>4, <2>5
  <2> QED
    BY <1>2, <2>2, <2>5, <2>6 DEF PagesMissOnlyIf
<1>4. ASSUME walk \in Walks, walk.pc \in {"count", "select"}
      PROVE  \A i \in Items \ walk.free :
               /\ i \notin Loose(walk.list)
               /\ i \notin walk.shown =>
                    /\ Ahead(walk.list, i) >= (walk.page - 1) * PageSize
                    /\ walk.pc = "select" => Ahead(walk.list, i) < walk.count
  <2>1. PICK list \in Lists : walk.list = list
    BY <1>4 DEF Walks
  <2>2. BehindTheWalk(list)
    BY <1>4, <2>1 DEF CatalogInv
  <2> QED
    BY <2>1, <2>2 DEF BehindTheWalk
<1>5. CASE CountRows
  <2> DEFINE list == walk.list
             page == walk.page
             count == RowsIn(list, Items)
  <2>1. walk.pc = "count" /\ walk \in Walks /\ page \in Nat \ {0}
    BY <1>5 DEF CountRows, CatalogInv, AtHome, Walks
  <2>2. count \in Nat
    BY <1>1, RowSets
  <2>3. (page - 1) * PageSize \in Nat
    BY <2>1, Pagewise
  <2>4. ASSUME NEW i \in Items \ walk.free, i \notin walk.shown
        PROVE  /\ i \notin Loose(list) /\ Ahead(list, i) \in Nat
               /\ Ahead(list, i) >= (page - 1) * PageSize /\ Ahead(list, i) < count
    BY <1>1, <1>4, <2>1, <2>4, OwnPlace
  <2>5. CASE (page - 1) * PageSize + 1 > count /\ count > 0
    <3>1. walk' = [walk EXCEPT !.pc = "done"]
      BY <1>5, <2>5 DEF CountRows
    <3>2. walk' \in Walks /\ walk'.pc = "done" /\ UNCHANGED <<walk.shown, walk.free>>
      BY <2>1, <3>1 DEF Walks
    <3>3. Items \subseteq walk.shown \cup walk.free
      <4> HIDE DEF list, page, count
      <4> QED
        BY <2>2, <2>3, <2>4, <2>5
    <3> QED
      BY <1>2, <3>2, <3>3 DEF PagesMissOnlyIf
  <2>6. CASE ~((page - 1) * PageSize + 1 > count /\ count > 0)
    <3>1. walk' = [walk EXCEPT !.pc = "select", !.count = count]
      BY <1>5, <2>6 DEF CountRows
    <3> HIDE DEF count
    <3>2. /\ walk' \in Walks /\ walk'.pc = "select" /\ walk'.count = count
          /\ UNCHANGED <<walk.shown, walk.free, walk.page, walk.list>>
      BY <2>1, <2>2, <3>1 DEF Walks
    <3> QED
      BY <1>2, <1>4, <2>1, <2>4, <3>2 DEF PagesMissOnlyIf
  <2> QED
    BY <2>5, <2>6
<1>6. CASE SelectPage
  <2> DEFINE list == walk.list
             page == walk.page
  <2>1. walk.pc = "select" /\ walk \in Walks /\ page \in Nat \ {0} /\ walk.count \in Nat
    <3>1. walk.pc = "select"
      BY <1>6 DEF SelectPage
    <3>2. walk \in Walks
      BY <3>1 DEF CatalogInv, AtHome
    <3> QED
      BY <3>1, <3>2 DEF Walks
  <2>2. PICK S \in Pages(list, page) :
          walk' = IF page * PageSize >= walk.count \/ (S = {} /\ page # 1)
                  THEN [walk EXCEPT !.pc = "done", !.shown = @ \cup S]
                  ELSE [walk EXCEPT !.pc = "count", !.shown = @ \cup S, !.page = @ + 1]
    BY <1>6 DEF SelectPage
  <2>3. S \in SUBSET Items
    BY DEF Pages, Listed
  <2>4. /\ (page - 1) * PageSize \in Nat /\ page * PageSize \in Nat
        /\ page * PageSize = (page - 1) * PageSize + PageSize /\ PageSize \in Nat \ {0}
        /\ Window(page) = ((page - 1) * PageSize + 1)..(page * PageSize)
    BY <2>1, Pagewise, CatalogAssumption
  <2>5. ASSUME NEW i \in Items \ walk.free, i \notin walk.shown \cup S
        PROVE  /\ i \notin Loose(list) /\ Ahead(list, i) \in Nat
               /\ Ahead(list, i) < walk.count /\ Ahead(list, i) >= page * PageSize
               /\ item[i].key \in SortKeys
               /\ Ahead(list, i) = RowsIn(list, Before(item[i].key))
    <3>1. /\ i \notin Loose(list) /\ Ahead(list, i) >= (page - 1) * PageSize
          /\ Ahead(list, i) < walk.count
      BY <1>4, <2>1, <2>5
    <3>2. /\ item[i].key \in SortKeys /\ With(item[i].key) \cap Listed(list) = {i}
          /\ Ahead(list, i) \in Nat /\ Keyed(list, item[i].key, Ahead(list, i) + 1)
          /\ Ahead(list, i) = RowsIn(list, Before(item[i].key))
      BY <1>1, <3>1, OwnPlace
    <3>3. ASSUME Ahead(list, i) < page * PageSize PROVE FALSE
      <4>1. Ahead(list, i) + 1 \in Window(page)
        BY <2>4, <3>1, <3>2, <3>3
      <4>2. S \cap With(item[i].key) \cap Listed(list) # {}
        BY <1>1, <2>1, <3>2, <4>1, WindowsShow
      <4> QED
        BY <2>5, <3>2, <4>2
    <3> QED
      BY <2>4, <3>1, <3>2, <3>3
  <2>6. CASE page * PageSize >= walk.count \/ (S = {} /\ page # 1)
    <3>1. walk' = [walk EXCEPT !.pc = "done", !.shown = walk.shown \cup S]
      BY <2>2, <2>6
    <3>2. /\ walk' \in Walks /\ walk'.pc = "done" /\ walk'.shown = walk.shown \cup S
          /\ UNCHANGED walk.free
      BY <2>1, <2>3, <3>1 DEF Walks
    <3>3. ASSUME NEW i \in Items \ walk.free, i \notin walk.shown \cup S PROVE FALSE
      <4> DEFINE n == page * PageSize
      <4>1. S = {}
        BY <2>1, <2>4, <2>5, <2>6, <3>3
      <4>2. n \in Nat \ {0} /\ n \in Window(page) /\ n <= RowsIn(list, Before(item[i].key))
        BY <2>4, <2>5, <3>3
      <4>3. PICK key \in SortKeys : Keyed(list, key, n)
        BY <1>1, <2>5, <3>3, <4>2, RowsHaveKeys
      <4> HIDE DEF n
      <4> QED
        BY <1>1, <2>1, <4>1, <4>2, <4>3, WindowsShow
    <3> QED
      BY <1>2, <3>2, <3>3 DEF PagesMissOnlyIf
  <2>7. CASE ~(page * PageSize >= walk.count \/ (S = {} /\ page # 1))
    <3>1. walk' = [walk EXCEPT !.pc = "count", !.shown = walk.shown \cup S, !.page = page + 1]
      BY <2>2, <2>7
    <3>2. /\ walk' \in Walks /\ walk'.pc = "count" /\ walk'.shown = walk.shown \cup S
          /\ walk'.page = page + 1 /\ UNCHANGED <<walk.free, walk.list>>
      <4>1. page + 1 \in Nat \ {0}
        BY <2>1
      <4> DEFINE next == page + 1
      <4> HIDE DEF next
      <4> QED
        BY <2>1, <2>3, <3>1, <4>1 DEF Walks
    <3>3. (page + 1 - 1) * PageSize = page * PageSize
      BY <2>1
    <3>4. ASSUME NEW i \in Items \ walk'.free
          PROVE  /\ i \notin Loose(walk'.list)
                 /\ i \notin walk'.shown => Ahead(walk'.list, i) >= (walk'.page - 1) * PageSize
      BY <1>4, <2>1, <2>5, <3>2, <3>3, <3>4
    <3> QED
      BY <1>2, <3>2, <3>4 DEF PagesMissOnlyIf
  <2> QED
    BY <2>6, <2>7
<1>7. CASE Return
  <2>1. walk' = AtHome /\ walk'.pc = "home"
    BY <1>7 DEF Return, AtHome
  <2>2. walk' \notin Walks
    BY <2>1 DEF Walks
  <2> QED
    BY <1>1, <2>1, <2>2 DEF CatalogInv, CatalogTypeOK, PagesMissOnlyIf, Walks
<1> QED
  BY <1>3, <1>5, <1>6, <1>7

LEMMA CatalogInvHolds == CatalogSpec => []CatalogInv
<1>1. CatalogInit => CatalogInv
  <2> SUFFICES ASSUME CatalogInit PROVE CatalogInv
    OBVIOUS
  <2>1. /\ item \in [Items -> [key : SortKeys, archived : {FALSE}, draft : {FALSE}, source : {TRUE},
                              mine : {1}, others : {0}, favorite : {TRUE}]]
        /\ walk = AtHome /\ edits = 0
    BY DEF CatalogInit
  <2>2. walk.pc = "home" /\ walk \notin Walks
    BY <2>1 DEF AtHome, Walks
  <2>3. 1 \in 0..MaxLinked /\ 0 \in 0..MaxLinked /\ 0 \in 0..MaxEdits
    BY CatalogAssumption
  <2>4. item \in [Items -> ItemRows]
    BY <2>1, <2>3 DEF ItemRows
  <2> QED
    BY <2>1, <2>2, <2>3, <2>4 DEF CatalogInv, CatalogTypeOK, ItemRows, PagesMissOnlyIf
<1>2. ASSUME CatalogInv, CatalogNext PROVE CatalogInv'
  <2>1. item \in [Items -> ItemRows]
    BY <1>2, TypedItems DEF CatalogInv
  <2>2. ASSUME NEW i \in Items, NEW key \in SortKeys, Rename(i, key) PROVE CatalogInv'
    <3>1. [item[i] EXCEPT !.key = key] \in ItemRows
      BY <2>1 DEF ItemRows
    <3> QED
      BY <1>2, <2>2, <3>1, ChangesKeepWalks DEF Rename
  <2>3. ASSUME NEW i \in Items, NEW b \in BOOLEAN,
               Archive(i, b) \/ Publish(i, b) \/ LinkSource(i, b) \/ MarkFavorite(i, b)
        PROVE  CatalogInv'
    <3>1. /\ [item[i] EXCEPT !.archived = b] \in ItemRows /\ [item[i] EXCEPT !.draft = b] \in ItemRows
          /\ [item[i] EXCEPT !.source = b] \in ItemRows
          /\ [item[i] EXCEPT !.favorite = b] \in ItemRows
      BY <2>1 DEF ItemRows
    <3> QED
      BY <1>2, <2>3, <3>1, ChangesKeepWalks DEF Archive, Publish, LinkSource, MarkFavorite
  <2>4. ASSUME NEW i \in Items, NEW mine \in 0..MaxLinked, NEW others \in 0..MaxLinked,
               LinkItem(i, mine, others)
        PROVE  CatalogInv'
    <3>1. [item[i] EXCEPT !.mine = mine, !.others = others] \in ItemRows
      BY <2>1 DEF ItemRows
    <3> QED
      BY <1>2, <2>4, <3>1, ChangesKeepWalks DEF LinkItem
  <2>5. CASE (\E list \in Lists : Begin(list)) \/ CountRows \/ SelectPage \/ Return
    BY <1>2, <2>5, WalksGoOn
  <2> QED
    BY <1>2, <2>2, <2>3, <2>4, <2>5 DEF CatalogNext
<1>3. ASSUME CatalogInv, UNCHANGED catalogVars PROVE CatalogInv'
  <2>1. UNCHANGED <<item, walk, edits>>
    BY <1>3 DEF catalogVars
  <2>2. \A list \in Lists : BehindTheWalk(list) => BehindTheWalk(list)'
    BY <2>1, SamePlaces DEF BehindTheWalk
  <2> QED
    BY <1>3, <2>1, <2>2 DEF CatalogInv, CatalogTypeOK, PagesMissOnlyIf
<1> QED
  BY <1>1, <1>2, <1>3, PTL DEF CatalogSpec

\* The types of Catalog.
THEOREM CatalogTypeCorrect == CatalogSpec => []CatalogTypeOK
<1>1. CatalogInv => CatalogTypeOK
  BY DEF CatalogInv
<1> QED
  BY <1>1, CatalogInvHolds, PTL

\* Whoever walks through all pages sees every object that is listed all the time,
\* unless its place is shared, rows ahead of it go away, or some come ahead of it
\* between the count and the selection of a page (base.py:76-104).
THEOREM PagesMissForAReason == CatalogSpec => []PagesMissOnlyIf
<1>1. CatalogInv => PagesMissOnlyIf
  BY DEF CatalogInv
<1> QED
  BY <1>1, CatalogInvHolds, PTL

=============================================================================
