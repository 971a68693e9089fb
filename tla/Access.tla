------------------------------- MODULE Access -------------------------------
(***************************************************************************)
(* Who may use one dashboard: the access list (AccessPermission rows,      *)
(* ObjectPermissionsListResource), the keys that make it public (ApiKey,   *)
(* DashboardShareResource), and what anonymous visitors get                *)
(* (PublicDashboardResource), while it is edited and archived. A step is   *)
(* what a handler does up to the next statement whose result depends on    *)
(* what others have committed since. Queries have the same access list. Its     *)
(* rows are those of the access type modify, the only one that is tested.  *)
(***************************************************************************)
EXTENDS Naturals

CONSTANTS
  Workers,   \* requests of the API that need more than one step, at a time
  Managers,  \* the owner of the dashboard and the administrators
  Grantees,  \* the users whose access is granted and revoked
  Keys,      \* bound: the keys that can be generated
  Visitors   \* anonymous requests, at a time

VARIABLES
  rows,       \* number of AccessPermission rows, by grantee and grantor
  keys,       \* the ApiKey rows of the dashboard
  dashboard,  \* its row
  request,    \* the requests being handled
  visit       \* the anonymous requests being handled

vars == <<rows, keys, dashboard, request, visit>>

Fields == {"is_archived", "is_draft"}

Idle == [pc |-> "idle"]

Init ==
  /\ rows = [p \in Grantees \X Managers |-> 0]
  /\ keys = [k \in Keys |-> "unused"]
  /\ dashboard = [f \in Fields |-> f = "is_draft"]
  /\ request = [w \in Workers |-> Idle]
  /\ visit = [v \in Visitors |-> Idle]

\* AccessPermission.exists: whoever granted it.
Allowed(g) == \E m \in Managers : rows[<<g, m>>] > 0

\* can_modify: is_admin_or_owner, or on the list.
CanModify(u) == u \in Managers \cup {g \in Grantees : Allowed(g)}

-----------------------------------------------------------------------------
(* The access list                                                         *)

\* The handler has found the object and the grantee; only its owner and
\* administrators get this far.
Receive(w, op, m, g) ==
  /\ request[w] = Idle
  /\ request' = [request EXCEPT ![w] =
       [pc |-> "called", op |-> op, by |-> m, to |-> g]]
  /\ UNCHANGED <<rows, keys, dashboard, visit>>

\* AccessPermission.grant selects the row of this grantee and this grantor:
\* one_or_none raises when there are several.
Select(w) ==
  /\ request[w].pc = "called"
  /\ request[w].op = "grant"
  /\ LET n == rows[<<request[w].to, request[w].by>>]
     IN request' = [request EXCEPT ![w].pc =
          IF n = 0 THEN "absent" ELSE IF n = 1 THEN "done" ELSE "failed"]
  /\ UNCHANGED <<rows, keys, dashboard, visit>>

\* ... and if there was none inserts it, at the commit.
Insert(w) ==
  /\ request[w].pc = "absent"
  /\ rows' = [rows EXCEPT ![<<request[w].to, request[w].by>>] = @ + 1]
  /\ request' = [request EXCEPT ![w].pc = "done"]
  /\ UNCHANGED <<keys, dashboard, visit>>

\* Mutant: only what the caller granted is revoked.
DeleteOwn(w) ==
  /\ request[w].pc = "called"
  /\ request[w].op = "revoke"
  /\ rows' = [rows EXCEPT ![<<request[w].to, request[w].by>>] = 0]
  /\ request' = [request EXCEPT ![w].pc = "done"]
  /\ UNCHANGED <<keys, dashboard, visit>>

\* AccessPermission.revoke: one DELETE of all the rows of the grantee, whoever
\* granted them.
Delete(w) ==
  /\ request[w].pc = "called"
  /\ request[w].op = "revoke"
  /\ rows' = [p \in Grantees \X Managers |->
       IF p[1] = request[w].to THEN 0 ELSE rows[p]]
  /\ request' = [request EXCEPT ![w].pc = "done"]
  /\ UNCHANGED <<keys, dashboard, visit>>

\* The answer; an internal error when the selection raised.
Answer(w) ==
  /\ request[w].pc \in {"done", "failed"}
  /\ request' = [request EXCEPT ![w] = Idle]
  /\ UNCHANGED <<rows, keys, dashboard, visit>>

-----------------------------------------------------------------------------
(* Sharing                                                                 *)

Active == {k \in Keys : keys[k] = "active"}

\* POST share: a further key, whether there is one or not.
Share(k) ==
  /\ keys[k] = "unused"
  /\ keys' = [keys EXCEPT ![k] = "active"]
  /\ UNCHANGED <<rows, dashboard, request, visit>>

\* DELETE share: ApiKey.get_by_object returns the first active key that the
\* database happens to find; without one nothing is done.
FindKey(w, k) ==
  /\ request[w] = Idle
  /\ k \in Active
  /\ request' = [request EXCEPT ![w] = [pc |-> "found", key |-> k]]
  /\ UNCHANGED <<rows, keys, dashboard, visit>>

Deactivate(w) ==
  /\ request[w].pc = "found"
  /\ keys' = [keys EXCEPT ![request[w].key] = "inactive"]
  /\ request' = [request EXCEPT ![w] = Idle]
  /\ UNCHANGED <<rows, dashboard, visit>>

-----------------------------------------------------------------------------
(* Editing and archiving. The version of the row makes each of them one    *)
(* step or an error without effect (see Editing).                          *)

\* The fields modelled here that an edit may set; the handler drops the others.
Projected == {"is_draft"}

\* Mutant: the fields of the request are not projected.
EditUnprojected(u, sent) ==
  /\ CanModify(u)
  /\ dashboard' = [f \in Fields |-> IF f \in DOMAIN sent THEN sent[f] ELSE dashboard[f]]
  /\ UNCHANGED <<rows, keys, request, visit>>

\* POST: can_modify, then update_model with the projection of the request.
Edit(u, sent) ==
  /\ CanModify(u)
  /\ dashboard' = [f \in Fields |->
       IF f \in Projected \cap DOMAIN sent THEN sent[f] ELSE dashboard[f]]
  /\ UNCHANGED <<rows, keys, request, visit>>

\* DELETE; it does not look at the access list.
Archive ==
  /\ dashboard' = [dashboard EXCEPT !["is_archived"] = TRUE]
  /\ UNCHANGED <<rows, keys, request, visit>>

-----------------------------------------------------------------------------
(* Visitors                                                                *)

\* GET public/<token>: ApiKey.get_by_api_key. `archived` is history.
Lookup(v, k) ==
  /\ visit[v] = Idle
  /\ k \in Active
  /\ visit' = [visit EXCEPT ![v] =
       [pc |-> "found", key |-> k, archived |-> dashboard["is_archived"]]]
  /\ UNCHANGED <<rows, keys, dashboard, request>>

\* GFKBase.object reads the dashboard if it is not archived.
Serve(v) ==
  /\ visit[v].pc = "found"
  /\ ~dashboard["is_archived"]
  /\ visit' = [visit EXCEPT ![v].pc = "served"]
  /\ UNCHANGED <<rows, keys, dashboard, request>>

NotFound(v) ==
  /\ visit[v].pc = "found"
  /\ dashboard["is_archived"]
  /\ visit' = [visit EXCEPT ![v] = Idle]
  /\ UNCHANGED <<rows, keys, dashboard, request>>

Leave(v) ==
  /\ visit[v].pc = "served"
  /\ visit' = [visit EXCEPT ![v] = Idle]
  /\ UNCHANGED <<rows, keys, dashboard, request>>

-----------------------------------------------------------------------------
Sent == UNION {[fs -> BOOLEAN] : fs \in SUBSET Fields}

Next ==
  \/ \E w \in Workers :
       \/ \E op \in {"grant", "revoke"}, m \in Managers, g \in Grantees : Receive(w, op, m, g)
       \/ Select(w) \/ Insert(w) \/ Delete(w) \/ Answer(w)
       \/ \E k \in Keys : FindKey(w, k)
       \/ Deactivate(w)
  \/ \E k \in Keys : Share(k)
  \/ \E u \in Managers \cup Grantees, sent \in Sent : Edit(u, sent)
  \/ Archive
  \/ \E v \in Visitors :
       \/ \E k \in Keys : Lookup(v, k)
       \/ Serve(v) \/ NotFound(v) \/ Leave(v)

Spec == Init /\ [][Next]_vars

-----------------------------------------------------------------------------
(* Properties                                                              *)

ListRequest ==
  [pc : {"called", "absent", "done", "failed"}, op : {"grant", "revoke"},
   by : Managers, to : Grantees]

Issued == {k \in Keys : keys[k] # "unused"}

\* The types of the state; a key in somebody's hands is one that was issued,
\* and only a grant that has selected waits for its insertion or has failed.
TypeOK ==
  /\ rows \in [Grantees \X Managers -> Nat]
  /\ keys \in [Keys -> {"unused", "active", "inactive"}]
  /\ dashboard \in [Fields -> BOOLEAN]
  /\ request \in [Workers -> {Idle} \cup ListRequest \cup
       [pc : {"found"}, key : Issued]]
  /\ \A w \in Workers : request[w].pc \in {"absent", "failed"} => request[w].op = "grant"
  /\ visit \in [Visitors -> {Idle} \cup
       [pc : {"found", "served"}, key : Issued, archived : BOOLEAN]]

\* PublicDashboardResource reads the key and the dashboard one after the other:
\* what it serves was nevertheless public at one instant, that of the lookup,
\* because the dashboard cannot have been archived then and be there later.
ServedWhilePublic ==
  \A v \in Visitors : visit[v].pc = "served" => ~visit[v].archived

CallOf(r) ==
  CASE r.pc \in {"called", "absent"} -> [state |-> "open", op |-> r.op, to |-> r.to]
    [] r.pc \in {"done", "failed"} -> [state |-> r.pc, op |-> r.op, to |-> r.to]
    [] OTHER -> [state |-> "none"]

\* The refinement mapping: the rows are abstracted to their grantees, and a
\* request to the call it has open, performed or failed.
Listed == {g \in Grantees : Allowed(g)}
Calls == [w \in Workers |-> CallOf(request[w])]

AccessSet == INSTANCE AccessList WITH allowed <- Listed, call <- Calls

\* ObjectPermissionsListResource: with duplicates of a row, several grantors
\* and selections that are out of date at the insertion, the access list
\* behaves like a set that each call changes once, between call and answer.
ListIsASet == AccessSet!Spec

=============================================================================
