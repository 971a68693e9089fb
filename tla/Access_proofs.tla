---------------------------- MODULE Access_proofs ----------------------------
(***************************************************************************)
(* Proofs about Access, for any number of requests, users, keys and        *)
(* visitors: its types, what visitors are served, and that the access list *)
(* implements the set of AccessList.                                       *)
(***************************************************************************)
EXTENDS Access, TLAPS

\* The types, and what requests in flight hold (permissions.py, ApiKey).
THEOREM TypeCorrect == Spec => []TypeOK
<1>1. Init => TypeOK
  BY DEF Init, TypeOK, Idle, Fields
<1>2. TypeOK /\ [Next]_vars => TypeOK'
  <2> SUFFICES ASSUME TypeOK, [Next]_vars PROVE TypeOK'
    OBVIOUS
  <2> USE DEF TypeOK, Idle, ListRequest, Issued, Fields, Active
  <2>1. CASE UNCHANGED vars
    BY <2>1 DEF vars
  <2>2. ASSUME NEW w \in Workers, NEW op \in {"grant", "revoke"}, NEW m \in Managers,
               NEW g \in Grantees, Receive(w, op, m, g)
        PROVE  TypeOK'
    BY <2>2 DEF Receive
  <2>3. ASSUME NEW w \in Workers, Select(w) PROVE TypeOK'
    BY <2>3 DEF Select
  <2>4. ASSUME NEW w \in Workers, Insert(w) PROVE TypeOK'
    BY <2>4 DEF Insert
  <2>5. ASSUME NEW w \in Workers, Delete(w) PROVE TypeOK'
    BY <2>5 DEF Delete
  <2>6. ASSUME NEW w \in Workers, Answer(w) PROVE TypeOK'
    BY <2>6 DEF Answer
  <2>7. ASSUME NEW w \in Workers, NEW k \in Keys, FindKey(w, k) PROVE TypeOK'
    BY <2>7 DEF FindKey
  <2>8. ASSUME NEW w \in Workers, Deactivate(w) PROVE TypeOK'
    BY <2>8 DEF Deactivate
  <2>9. ASSUME NEW k \in Keys, Share(k) PROVE TypeOK'
    BY <2>9 DEF Share
  <2>10. ASSUME NEW u \in Managers \cup Grantees, NEW sent \in Sent, Edit(u, sent)
         PROVE  TypeOK'
    BY <2>10 DEF Edit, Sent
  <2>11. CASE Archive
    BY <2>11 DEF Archive
  <2>12. ASSUME NEW v \in Visitors, NEW k \in Keys, Lookup(v, k) PROVE TypeOK'
    BY <2>12 DEF Lookup
  <2>13. ASSUME NEW v \in Visitors, Serve(v) PROVE TypeOK'
    BY <2>13 DEF Serve
  <2>14. ASSUME NEW v \in Visitors, NotFound(v) PROVE TypeOK'
    BY <2>14 DEF NotFound
  <2>15. ASSUME NEW v \in Visitors, Leave(v) PROVE TypeOK'
    BY <2>15 DEF Leave
  <2> QED
    BY <2>1, <2>2, <2>3, <2>4, <2>5, <2>6, <2>7, <2>8, <2>9, <2>10, <2>11, <2>12,
       <2>13, <2>14, <2>15 DEF Next
<1> QED  BY <1>1, <1>2, PTL DEF Spec

-----------------------------------------------------------------------------
(* An archived dashboard stays archived, so that one which a visitor's     *)
(* lookup came too late for is not there when it is read either.           *)

StaysArchived ==
  \A v \in Visitors :
    visit[v].pc # "idle" /\ visit[v].archived => dashboard["is_archived"]

\* What a visitor is served was public when the key was looked up
\* (PublicDashboardResource, GFKBase.object).
THEOREM ServedWasPublic == Spec => []ServedWhilePublic
<1> DEFINE Inv == StaysArchived /\ ServedWhilePublic
<1>1. Init => Inv
  BY DEF Init, StaysArchived, ServedWhilePublic, Idle
<1>2. TypeOK /\ Inv /\ [Next]_vars => Inv'
  <2> SUFFICES ASSUME TypeOK, Inv, [Next]_vars PROVE Inv'
    OBVIOUS
  <2> USE DEF StaysArchived, ServedWhilePublic
  <2>1. CASE UNCHANGED <<dashboard, visit>>
    BY <2>1
  <2>2. ASSUME visit' = visit, dashboard["is_archived"] => dashboard'["is_archived"]
        PROVE  Inv'
    BY <2>2
  <2>3. ASSUME NEW u \in Managers \cup Grantees, NEW sent \in Sent, Edit(u, sent)
        PROVE  Inv'
    BY <2>2, <2>3 DEF Edit, Projected, Fields, TypeOK
  <2>4. CASE Archive
    BY <2>2, <2>4 DEF Archive, Fields, TypeOK
  <2>5. ASSUME NEW v \in Visitors, NEW k \in Keys, Lookup(v, k) PROVE Inv'
    BY <2>5 DEF Lookup, TypeOK, Idle
  <2>6. ASSUME NEW v \in Visitors, Serve(v) PROVE Inv'
    BY <2>6 DEF Serve, TypeOK, Idle
  <2>7. ASSUME NEW v \in Visitors, NotFound(v) PROVE Inv'
    BY <2>7 DEF NotFound, TypeOK, Idle
  <2>8. ASSUME NEW v \in Visitors, Leave(v) PROVE Inv'
    BY <2>8 DEF Leave, TypeOK, Idle
  <2> QED
    BY <2>1, <2>3, <2>4, <2>5, <2>6, <2>7, <2>8
    DEF Next, vars, Receive, Select, Insert, Delete, Answer, FindKey, Deactivate, Share
<1> QED  BY <1>1, <1>2, TypeCorrect, PTL DEF Spec

-----------------------------------------------------------------------------
(* The access list.                                                        *)

\* The calls that the requests stand for.
LEMMA CallValues ==
  ASSUME NEW r
  PROVE  /\ r.pc \in {"called", "absent"} =>
              CallOf(r) = [state |-> "open", op |-> r.op, to |-> r.to]
         /\ r.pc = "done" => CallOf(r) = [state |-> "done", op |-> r.op, to |-> r.to]
         /\ r.pc = "failed" => CallOf(r) = [state |-> "failed", op |-> r.op, to |-> r.to]
         /\ r.pc \in {"idle", "found"} => CallOf(r) = [state |-> "none"]
<1>1. CASE r.pc \in {"called", "absent"}
  BY <1>1 DEF CallOf
<1>2. CASE r.pc \in {"done", "failed"}
  BY <1>2 DEF CallOf
<1>3. CASE r.pc \in {"idle", "found"}
  BY <1>3 DEF CallOf
<1> QED  BY <1>1, <1>2, <1>3

\* No rows are not more than none.
LEMMA NothingIsNotPositive == ~(0 > 0)
OBVIOUS

\* A change of one request is one of one call.
LEMMA OneCall ==
  ASSUME TypeOK, NEW w \in Workers, NEW r, request' = [request EXCEPT ![w] = r]
  PROVE  Calls' = [Calls EXCEPT ![w] = CallOf(r)]
BY DEF TypeOK, Calls

\* A grant that finds its row performs nothing: its grantee is listed. One
\* that finds several fails.
LEMMA SelectImplements ==
  ASSUME TypeOK, NEW w \in Workers, Select(w)
  PROVE  AccessSet!Perform(w) \/ AccessSet!Fail(w) \/ UNCHANGED <<Listed, Calls>>
<1> DEFINE r == request[w]
           n == rows[<<r.to, r.by>>]
           t == [r EXCEPT !.pc = IF n = 0 THEN "absent" ELSE IF n = 1 THEN "done" ELSE "failed"]
<1>1. r \in ListRequest /\ r.pc = "called" /\ r.op = "grant"
  BY DEF TypeOK, Select, Idle
<1>2. t = [pc |-> t.pc, op |-> "grant", by |-> r.by, to |-> r.to]
  BY <1>1 DEF ListRequest
<1>3. /\ Calls[w] = [state |-> "open", op |-> "grant", to |-> r.to]
      /\ Calls' = [Calls EXCEPT ![w] = CallOf(t)]
  BY <1>1, CallValues, OneCall DEF Calls, Select
<1>4. Listed' = Listed
  BY DEF Select, Listed, Allowed
<1>5. n \in Nat /\ r.to \in Grantees /\ r.by \in Managers
  BY <1>1 DEF TypeOK, ListRequest
<1>6. CASE n = 0
  <2>1. t.pc = "absent"
    BY <1>1, <1>6 DEF ListRequest
  <2>2. CallOf(t) = Calls[w]
    BY <2>1, <1>2, <1>3, CallValues
  <2> QED  BY <2>2, <1>3, <1>4 DEF Calls
<1>7. CASE n = 1
  <2>1. t.pc = "done"
    BY <1>1, <1>7 DEF ListRequest
  <2>2. CallOf(t) = [Calls[w] EXCEPT !.state = "done"]
    BY <2>1, <1>2, <1>3, CallValues
  <2>3. r.to \in Listed
    BY <1>5, <1>7 DEF Listed, Allowed
  <2>4. Calls' = [Calls EXCEPT ![w].state = "done"]
    BY <2>2, <1>3
  <2>5. Calls[w].state = "open" /\ Calls[w].op = "grant" /\ Calls[w].to = r.to
    BY <1>3
  <2>6. Listed' = Listed \cup {Calls[w].to}
    BY <2>3, <2>5, <1>4
  <2> QED  BY <2>4, <2>5, <2>6 DEF AccessSet!Perform
<1>8. CASE n > 1
  <2>1. t.pc = "failed"
    BY <1>1, <1>5, <1>8 DEF ListRequest
  <2>2. CallOf(t) = [Calls[w] EXCEPT !.state = "failed"]
    BY <2>1, <1>2, <1>3, CallValues
  <2>3. Calls' = [Calls EXCEPT ![w].state = "failed"]
    BY <2>2, <1>3
  <2>4. Calls[w].state = "open" /\ Calls[w].op = "grant"
    BY <1>3
  <2> QED  BY <2>3, <2>4, <1>4 DEF AccessSet!Fail
<1> QED  BY <1>5, <1>6, <1>7, <1>8

\* A grant that inserts puts its grantee on the list.
LEMMA InsertImplements ==
  ASSUME TypeOK, NEW w \in Workers, Insert(w)
  PROVE  AccessSet!Perform(w)
<1> DEFINE r == request[w]
           t == [r EXCEPT !.pc = "done"]
<1>1. r \in ListRequest /\ r.pc = "absent" /\ r.op = "grant"
  BY DEF TypeOK, Insert, Idle
<1>2. t = [pc |-> "done", op |-> "grant", by |-> r.by, to |-> r.to]
  BY <1>1 DEF ListRequest
<1>3. Calls[w] = [state |-> "open", op |-> "grant", to |-> r.to]
  BY <1>1, CallValues DEF Calls
<1>4. Calls' = [Calls EXCEPT ![w].state = "done"]
  <2>1. CallOf(t) = [Calls[w] EXCEPT !.state = "done"]
    BY <1>2, <1>3, CallValues
  <2>2. request' = [request EXCEPT ![w] = t]
    BY DEF Insert
  <2> HIDE DEF t
  <2>3. Calls' = [Calls EXCEPT ![w] = CallOf(t)]
    BY <2>2, OneCall
  <2> QED  BY <2>1, <2>3
<1>5. Calls[w].state = "open" /\ Calls[w].op = "grant" /\ Calls[w].to = r.to
  BY <1>3
<1>6. Listed' = Listed \cup {r.to}
  <2>1. r.to \in Grantees /\ r.by \in Managers
    BY <1>1 DEF ListRequest
  <2>2. /\ rows'[<<r.to, r.by>>] > 0
        /\ \A g \in Grantees, m \in Managers :
             <<g, m>> # <<r.to, r.by>> => rows'[<<g, m>>] = rows[<<g, m>>]
    BY <2>1 DEF Insert, TypeOK
  <2>3. \A g \in Grantees : Allowed(g)' <=> Allowed(g) \/ g = r.to
    BY <2>1, <2>2 DEF Allowed
  <2> QED  BY <2>1, <2>3 DEF Listed
<1> QED  BY <1>4, <1>5, <1>6 DEF AccessSet!Perform

\* A revocation leaves no row of its grantee, and every row of the others.
LEMMA DeleteImplements ==
  ASSUME TypeOK, NEW w \in Workers, Delete(w)
  PROVE  AccessSet!Perform(w)
<1> DEFINE r == request[w]
           t == [r EXCEPT !.pc = "done"]
<1>1. r \in ListRequest /\ r.pc = "called" /\ r.op = "revoke"
  BY DEF TypeOK, Delete, Idle
<1>2. t = [pc |-> "done", op |-> "revoke", by |-> r.by, to |-> r.to]
  BY <1>1 DEF ListRequest
<1>3. Calls[w] = [state |-> "open", op |-> "revoke", to |-> r.to]
  BY <1>1, CallValues DEF Calls
<1>4. Calls' = [Calls EXCEPT ![w].state = "done"]
  <2>1. CallOf(t) = [Calls[w] EXCEPT !.state = "done"]
    BY <1>2, <1>3, CallValues
  <2>2. request' = [request EXCEPT ![w] = t]
    BY DEF Delete
  <2> HIDE DEF t
  <2>3. Calls' = [Calls EXCEPT ![w] = CallOf(t)]
    BY <2>2, OneCall
  <2> QED  BY <2>1, <2>3
<1>5. Calls[w].state = "open" /\ Calls[w].op = "revoke" /\ Calls[w].to = r.to
  BY <1>3
<1>6. Listed' = Listed \ {r.to}
  <2>1. \A g \in Grantees, m \in Managers :
          rows'[<<g, m>>] = IF g = r.to THEN 0 ELSE rows[<<g, m>>]
    BY SMTT(30) DEF Delete
  <2>2. \A g \in Grantees : Allowed(g)' <=> Allowed(g) /\ g # r.to
    <3> TAKE g \in Grantees
    <3>1. CASE g = r.to
      <4>1. \A m \in Managers : ~(rows'[<<g, m>>] > 0)
        BY <2>1, <3>1, NothingIsNotPositive
      <4> QED  BY <3>1, <4>1 DEF Allowed
    <3>2. CASE g # r.to
      BY <2>1, <3>2 DEF Allowed
    <3> QED  BY <3>1, <3>2
  <2> QED  BY <2>2 DEF Listed
<1> QED  BY <1>4, <1>5, <1>6 DEF AccessSet!Perform

\* The rows of several grantors, duplicates included, and the requests that
\* change them implement the set of AccessList (AccessPermission.grant, revoke).
THEOREM ListImplementsSet == Spec => ListIsASet
<1>1. Init => AccessSet!Init
  <2> SUFFICES ASSUME Init PROVE AccessSet!Init
    OBVIOUS
  <2>1. Listed = {}
    <3>1. \A g \in Grantees, m \in Managers : ~(rows[<<g, m>>] > 0)
      BY NothingIsNotPositive DEF Init
    <3> QED  BY <3>1 DEF Listed, Allowed
  <2>2. \A w \in Workers : request[w].pc = "idle"
    BY DEF Init, Idle
  <2>3. \A w \in Workers : CallOf(request[w]) = [state |-> "none"]
    BY <2>2, CallValues
  <2> QED  BY <2>1, <2>3 DEF AccessSet!Init, AccessSet!NoCall, Calls
<1>2. TypeOK /\ [Next]_vars => [AccessSet!Next]_(AccessSet!vars)
  <2> SUFFICES ASSUME TypeOK, [Next]_vars
               PROVE  AccessSet!Next \/ UNCHANGED <<Listed, Calls>>
    BY DEF AccessSet!vars
  <2>1. CASE UNCHANGED <<rows, request>>
    BY <2>1 DEF Listed, Calls, Allowed
  <2>2. ASSUME NEW w \in Workers, NEW op \in {"grant", "revoke"}, NEW m \in Managers,
               NEW g \in Grantees, Receive(w, op, m, g)
        PROVE  AccessSet!Call(w, op, g)
    <3> DEFINE t == [pc |-> "called", op |-> op, by |-> m, to |-> g]
    <3>1. CallOf(t) = [state |-> "open", op |-> op, to |-> g]
      BY CallValues
    <3>2. Calls' = [Calls EXCEPT ![w] = CallOf(t)]
      BY <2>2, OneCall DEF Receive
    <3>3. Calls[w] = [state |-> "none"] /\ Listed' = Listed
      BY <2>2, CallValues DEF Receive, Calls, Listed, Allowed, Idle
    <3> QED  BY <3>1, <3>2, <3>3 DEF AccessSet!Call, AccessSet!NoCall
  <2>3. ASSUME NEW w \in Workers, Answer(w) PROVE AccessSet!Answer(w)
    <3>1. CallOf(Idle) = [state |-> "none"]
      BY CallValues DEF Idle
    <3>2. Calls' = [Calls EXCEPT ![w] = CallOf(Idle)]
      BY <2>3, OneCall DEF Answer
    <3>3. Calls[w].state \in {"done", "failed"} /\ Listed' = Listed
      BY <2>3, CallValues DEF Answer, Calls, Listed, Allowed
    <3> QED  BY <3>1, <3>2, <3>3 DEF AccessSet!Answer, AccessSet!NoCall
  <2>4. ASSUME NEW w \in Workers, NEW k \in Keys, FindKey(w, k)
        PROVE  UNCHANGED <<Listed, Calls>>
    <3> DEFINE t == [pc |-> "found", key |-> k]
    <3>1. CallOf(t) = [state |-> "none"] /\ Calls[w] = [state |-> "none"]
      BY <2>4, CallValues DEF FindKey, Calls, Idle
    <3>2. Calls' = [Calls EXCEPT ![w] = CallOf(t)]
      BY <2>4, OneCall DEF FindKey
    <3> QED  BY <2>4, <3>1, <3>2 DEF FindKey, Listed, Allowed, Calls
  <2>5. ASSUME NEW w \in Workers, Deactivate(w) PROVE UNCHANGED <<Listed, Calls>>
    <3>1. CallOf(Idle) = [state |-> "none"] /\ Calls[w] = [state |-> "none"]
      BY <2>5, CallValues DEF Deactivate, Calls, Idle
    <3>2. Calls' = [Calls EXCEPT ![w] = CallOf(Idle)]
      BY <2>5, OneCall DEF Deactivate
    <3> QED  BY <2>5, <3>1, <3>2 DEF Deactivate, Listed, Allowed, Calls
  <2> QED
    BY <2>1, <2>2, <2>3, <2>4, <2>5, SelectImplements, InsertImplements, DeleteImplements
    DEF Next, vars, AccessSet!Next, Share, Edit, Archive, Lookup, Serve, NotFound, Leave
<1> QED  BY <1>1, <1>2, TypeCorrect, PTL DEF Spec, ListIsASet, AccessSet!Spec

=============================================================================
