--------------------------- MODULE Editing_proofs ---------------------------
(***************************************************************************)
(* Proofs about Editing. Types hold with either version scheme; when every *)
(* UPDATE increments the version (dashboards), no edit is lost and the     *)
(* requests implement the atomic edits of EditLog.                         *)
(***************************************************************************)
EXTENDS Editing, TLAPS

\* The number of sessions and of writes is arbitrary: the versions shown and
\* loaded are versions the row has had (DashboardResource and QueryResource).
THEOREM TypeCorrect == Spec => []TypeOK
<1>1. Init => TypeOK
  BY DEF Init, TypeOK, NoRequest
<1>2. TypeOK /\ [Next]_vars => TypeOK'
  <2> SUFFICES ASSUME TypeOK, [Next]_vars PROVE TypeOK'
    OBVIOUS
  <2>1. CASE UNCHANGED vars
    BY <2>1 DEF TypeOK, vars
  <2>2. ASSUME NEW s \in Sessions, Look(s) PROVE TypeOK'
    BY <2>2 DEF Look, TypeOK
  <2>3. ASSUME NEW s \in Sessions, NEW claims \in BOOLEAN, Edit(s, claims)
        PROVE TypeOK'
    BY <2>3 DEF Edit, TypeOK
  <2>4. ASSUME NEW s \in Sessions, Archive(s) PROVE TypeOK'
    BY <2>4 DEF Archive, TypeOK
  <2>5. ASSUME NEW s \in Sessions, Commit(s) PROVE TypeOK'
    <3> DEFINE w == [by |-> s, base |-> request[s].base]
    <3>1. /\ w \in Write
          /\ log' = Append(log, w)
      BY <2>5 DEF Commit, TypeOK, Write, NoRequest
    <3>2. log' \in Seq(Write) /\ Len(log') = Len(log) + 1 /\ Len(log) \in Nat
      BY <3>1 DEF TypeOK
    <3>3. version' \in 1 .. Len(log') + 1 /\ version' >= version
      BY <2>5, <3>2 DEF Commit, TypeOK
    <3>4. shown' \in [Sessions -> 1 .. version']
      BY <2>5, <3>2, <3>3 DEF Commit, TypeOK
    <3>5. seen' \in [Sessions -> 0 .. Len(log')]
      BY <2>5, <3>2 DEF Commit, TypeOK
    <3>6. \A t \in Sessions :
            request'[t] \in {NoRequest} \cup [pc : {"loaded"}, version : 1 .. version',
                                    base : 0 .. Len(log') \cup {NoBase}]
      BY <2>5, <3>2, <3>3 DEF Commit, TypeOK
    <3>7. request' \in [Sessions -> {NoRequest} \cup
            [pc : {"loaded"}, version : 1 .. version', base : 0 .. Len(log') \cup {NoBase}]]
      <4>1. request' = [t \in Sessions |-> request'[t]]
        BY <2>5 DEF Commit, TypeOK
      <4> QED  BY <3>6, <4>1
    <3> QED  BY <3>2, <3>3, <3>4, <3>5, <3>7 DEF TypeOK
  <2>6. ASSUME NEW s \in Sessions, Stale(s) PROVE TypeOK'
    BY <2>6 DEF Stale, TypeOK
  <2> QED  BY <2>1, <2>2, <2>3, <2>4, <2>5, <2>6 DEF Next
<1> QED  BY <1>1, <1>2, PTL DEF Spec

-----------------------------------------------------------------------------
(* The version counts the writes, so that a page is behind exactly when    *)
(* the version it was sent is not the row's.                               *)

VersionCountsWrites ==
  /\ version = Len(log) + 1
  /\ \A s \in Sessions : shown[s] = seen[s] + 1

\* What a request in flight carries: nothing, or what its page showed when it
\* was found to be up to date with the row that was loaded.
RequestsAreCurrent ==
  \A s \in Sessions :
    request[s].pc = "loaded" /\ request[s].base # NoBase
      => request[s].base = seen[s] /\ seen[s] + 1 = request[s].version

Inv == TypeOK /\ VersionCountsWrites /\ RequestsAreCurrent

\* With an incremented version, Inv is an invariant of the specification.
LEMMA InvHolds == ASSUME AutoVersion PROVE Spec => []Inv
<1>1. Init => Inv
  BY NoBaseAssumption
  DEF Init, Inv, TypeOK, NoRequest, VersionCountsWrites, RequestsAreCurrent
<1>2. Inv /\ TypeOK' /\ [Next]_vars => Inv'
  <2> SUFFICES ASSUME Inv, TypeOK', [Next]_vars
               PROVE  VersionCountsWrites' /\ RequestsAreCurrent'
    BY DEF Inv
  <2>1. CASE UNCHANGED vars
    BY <2>1 DEF Inv, vars, VersionCountsWrites, RequestsAreCurrent
  <2>2. ASSUME NEW s \in Sessions, Look(s)
        PROVE  VersionCountsWrites' /\ RequestsAreCurrent'
    BY <2>2 DEF Look, Inv, TypeOK, VersionCountsWrites, RequestsAreCurrent
  <2>3. ASSUME NEW s \in Sessions, NEW claims \in BOOLEAN, Edit(s, claims)
        PROVE  VersionCountsWrites' /\ RequestsAreCurrent'
    BY <2>3 DEF Edit, Inv, TypeOK, VersionCountsWrites, RequestsAreCurrent
  <2>4. ASSUME NEW s \in Sessions, Archive(s)
        PROVE  VersionCountsWrites' /\ RequestsAreCurrent'
    BY <2>4 DEF Archive, Inv, TypeOK, VersionCountsWrites, RequestsAreCurrent
  <2>5. ASSUME NEW s \in Sessions, Commit(s)
        PROVE  VersionCountsWrites' /\ RequestsAreCurrent'
    <3>1. Len(log') = Len(log) + 1 /\ Len(log) \in Nat
      BY <2>5 DEF Commit, Inv, TypeOK
    <3>2. version' = version + 1
      BY <2>5 DEF Commit
    <3>3. VersionCountsWrites'
      BY <2>5, <3>1, <3>2 DEF Commit, Inv, TypeOK, VersionCountsWrites
    <3>4. RequestsAreCurrent'
      BY <2>5 DEF Commit, Inv, TypeOK, RequestsAreCurrent, NoRequest
    <3> QED  BY <3>3, <3>4
  <2>6. ASSUME NEW s \in Sessions, Stale(s)
        PROVE  VersionCountsWrites' /\ RequestsAreCurrent'
    BY <2>6 DEF Stale, Inv, TypeOK, VersionCountsWrites, RequestsAreCurrent, NoRequest
  <2> QED  BY <2>1, <2>2, <2>3, <2>4, <2>5, <2>6 DEF Next
<1> QED  BY <1>1, <1>2, TypeCorrect, PTL DEF Spec

\* The base of a write that passed both tests is all that was written before.
LEMMA CommitsAreCurrent ==
  ASSUME AutoVersion, Inv, NEW s \in Sessions, Commit(s), request[s].base # NoBase
  PROVE  seen[s] = Len(log) /\ request[s].base = seen[s]
BY DEF Commit, Inv, TypeOK, VersionCountsWrites, RequestsAreCurrent

\* A dashboard edit that named a version was made on a page that showed all
\* that it changes (apis/handlers/dashboards.py, "starting out behind").
THEOREM NoUpdateIsLost == ASSUME AutoVersion PROVE Spec => []NoLostUpdate
<1>1. Init => NoLostUpdate
  BY DEF Init, NoLostUpdate
<1>2. Inv /\ NoLostUpdate /\ [Next]_vars => NoLostUpdate'
  <2> SUFFICES ASSUME Inv, NoLostUpdate, [Next]_vars PROVE NoLostUpdate'
    OBVIOUS
  <2>1. CASE UNCHANGED log
    BY <2>1 DEF NoLostUpdate
  <2>2. ASSUME NEW s \in Sessions, Commit(s) PROVE NoLostUpdate'
    <3> DEFINE w == [by |-> s, base |-> request[s].base]
    <3>1. log' = Append(log, w) /\ log \in Seq(Write) /\ Len(log) \in Nat
      BY <2>2 DEF Commit, Inv, TypeOK
    <3>2. /\ DOMAIN log = 1 .. Len(log)
          /\ DOMAIN log' = 1 .. Len(log) + 1
          /\ \A i \in DOMAIN log : log'[i] = log[i]
          /\ log'[Len(log) + 1] = w
      BY <3>1
    <3>3. w.base # NoBase => w.base = Len(log)
      BY <2>2, CommitsAreCurrent
    <3> SUFFICES ASSUME NEW i \in DOMAIN log', log'[i].base # NoBase
                 PROVE  log'[i].base = i - 1
      BY DEF NoLostUpdate
    <3>4. CASE i \in DOMAIN log
      BY <3>2, <3>4 DEF NoLostUpdate
    <3>5. CASE i = Len(log) + 1
      <4>1. log'[i] = w
        BY <3>2, <3>5
      <4>2. w.base = Len(log)
        BY <3>3, <4>1
      <4> QED  BY <4>1, <4>2, <3>1, <3>5
    <3> QED  BY <3>1, <3>2, <3>4, <3>5
  <2> QED  BY <2>1, <2>2 DEF Next, vars, Look, Edit, Archive, Stale
<1> QED  BY <1>1, <1>2, InvHolds, PTL DEF Spec

\* The loads and commits of concurrent requests behave like atomic edits of
\* which only the up-to-date ones are applied.
THEOREM EditsAreAtomic == ASSUME AutoVersion PROVE Spec => Atomic
<1>1. Init => Abstract!Init
  BY DEF Init, Abstract!Init
<1>2. Inv /\ [Next]_vars => [Abstract!Next]_<<log, seen>>
  <2> SUFFICES ASSUME Inv, [Next]_vars
               PROVE  Abstract!Next \/ UNCHANGED <<log, seen>>
    OBVIOUS
  <2>1. ASSUME NEW s \in Sessions, Look(s) PROVE Abstract!Look(s)
    BY <2>1 DEF Look, Abstract!Look
  <2>2. ASSUME NEW s \in Sessions, Commit(s)
        PROVE  Abstract!Save(s) \/ Abstract!Overwrite(s)
    <3>1. CASE request[s].base = NoBase
      BY <2>2, <3>1 DEF Commit, Abstract!Overwrite
    <3>2. CASE request[s].base # NoBase
      BY <2>2, <3>2, CommitsAreCurrent DEF Commit, Abstract!Save
    <3> QED  BY <3>1, <3>2
  <2> QED  BY <2>1, <2>2 DEF Next, vars, Abstract!Next, Edit, Archive, Stale
<1> QED  BY <1>1, <1>2, InvHolds, PTL DEF Spec, Atomic, Abstract!Spec

=============================================================================
