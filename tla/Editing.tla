------------------------------ MODULE Editing ------------------------------
(***************************************************************************)
(* Concurrent edits of one dashboard or one query: DashboardResource and   *)
(* QueryResource with SQLAlchemy's version_id_col. The two differ in one   *)
(* mapper argument: Dashboard's version is incremented by every UPDATE,    *)
(* Query's is only compared (version_id_generator False, and no code of    *)
(* the server assigns it).                                                 *)
(***************************************************************************)
EXTENDS Naturals, Sequences

CONSTANTS
  Sessions,     \* pages on which the object is open; one request at a time each
  NoBase,       \* of a write whose request carries no version
  AutoVersion,  \* TRUE for Dashboard, FALSE for Query
  MaxWrites     \* bound: the number of committed writes

ASSUME NoBaseAssumption == NoBase \notin Nat
ASSUME AutoVersionAssumption == AutoVersion \in BOOLEAN

VARIABLES
  version,  \* the row's version column
  log,      \* history: the committed UPDATEs, with what their page had seen
  shown,    \* the version each page has been sent
  seen,     \* history: how many writes are in what the page shows
  request   \* the server's side of each page's request

vars == <<version, log, shown, seen, request>>

NoRequest == [pc |-> "none"]

Init ==
  /\ version = 1
  /\ log = <<>>
  /\ shown = [s \in Sessions |-> 1]
  /\ seen = [s \in Sessions |-> 0]
  /\ request = [s \in Sessions |-> NoRequest]

\* GET, or any other answer that carries the object (that of an edit which
\* changes no column, and so causes no UPDATE, is one).
Look(s) ==
  /\ request[s].pc = "none"
  /\ shown' = [shown EXCEPT ![s] = version]
  /\ seen' = [seen EXCEPT ![s] = Len(log)]
  /\ UNCHANGED <<version, log, request>>

\* Mutant: the test that answers 409 to a page that is behind is lost.
EditUnchecked(s, claims) ==
  /\ request[s].pc = "none"
  /\ request' = [request EXCEPT ![s] =
       [pc |-> "loaded", version |-> version,
        base |-> IF claims THEN seen[s] ELSE NoBase]]
  /\ UNCHANGED <<version, log, shown, seen>>

\* POST: the handler loads the row. A request may leave the version out; one
\* that carries a version other than the row's is answered 409.
Edit(s, claims) ==
  /\ request[s].pc = "none"
  /\ claims => shown[s] = version
  /\ request' = [request EXCEPT ![s] =
       [pc |-> "loaded", version |-> version,
        base |-> IF claims THEN seen[s] ELSE NoBase]]
  /\ UNCHANGED <<version, log, shown, seen>>

\* DELETE (archive) and the folder handler load the row and write it without
\* looking at a version of the client's.
Archive(s) ==
  /\ request[s].pc = "none"
  /\ request' = [request EXCEPT ![s] =
       [pc |-> "loaded", version |-> version, base |-> NoBase]]
  /\ UNCHANGED <<version, log, shown, seen>>

\* Mutant: UPDATE without the version in its WHERE clause.
CommitUnconditionally(s) ==
  /\ request[s].pc = "loaded"
  /\ Len(log) < MaxWrites
  /\ log' = Append(log, [by |-> s, base |-> request[s].base])
  /\ version' = IF AutoVersion THEN version + 1 ELSE version
  /\ shown' = [shown EXCEPT ![s] = version']
  /\ seen' = [seen EXCEPT ![s] = Len(log')]
  /\ request' = [request EXCEPT ![s] = NoRequest]

\* UPDATE ... WHERE id = and version = the loaded one, and commit. The answer
\* carries the object.
Commit(s) ==
  /\ request[s].pc = "loaded"
  /\ request[s].version = version
  /\ Len(log) < MaxWrites
  /\ log' = Append(log, [by |-> s, base |-> request[s].base])
  /\ version' = IF AutoVersion THEN version + 1 ELSE version
  /\ shown' = [shown EXCEPT ![s] = version']
  /\ seen' = [seen EXCEPT ![s] = Len(log')]
  /\ request' = [request EXCEPT ![s] = NoRequest]

\* No row matches: StaleDataError, 409 for an edit and an internal error for
\* the other writers.
Stale(s) ==
  /\ request[s].pc = "loaded"
  /\ request[s].version # version
  /\ request' = [request EXCEPT ![s] = NoRequest]
  /\ UNCHANGED <<version, log, shown, seen>>

Next ==
  \E s \in Sessions :
    \/ Look(s) \/ Archive(s) \/ Commit(s) \/ Stale(s)
    \/ \E claims \in BOOLEAN : Edit(s, claims)

Spec == Init /\ [][Next]_vars

-----------------------------------------------------------------------------
(* Properties                                                              *)

Write == [by : Sessions, base : Nat \cup {NoBase}]

TypeOK ==
  /\ version \in 1 .. Len(log) + 1
  /\ log \in Seq(Write)
  /\ shown \in [Sessions -> 1 .. version]
  /\ seen \in [Sessions -> 0 .. Len(log)]
  /\ request \in [Sessions -> {NoRequest}
       \cup [pc : {"loaded"}, version : 1 .. version, base : 0 .. Len(log) \cup {NoBase}]]

\* "SQLAlchemy handles the case where a concurrent transaction beats us to
\* the update. But we still have to make sure that we're not starting out
\* behind": a committed edit that named a version was made on a page that
\* showed all that it changes.
NoLostUpdate ==
  \A i \in DOMAIN log : log[i].base # NoBase => log[i].base = i - 1

\* The requests, with their loads and commits interleaved, behave like the
\* atomic edits of EditLog.
Abstract == INSTANCE EditLog
Atomic == Abstract!Spec

=============================================================================
