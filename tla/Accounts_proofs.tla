--------------------------- MODULE Accounts_proofs ---------------------------
(***************************************************************************)
(* Proofs about users and what is theirs, for any number of users, groups, *)
(* browsers, data sources, parameters and requests: the types of Groups,   *)
(* Links, Sessions, Options and Parameters, that everybody is in the       *)
(* groups asked for, that lists fail only for the reasons named, that      *)
(* accepted sessions are of those who typed the password that holds, that  *)
(* masked secrets survive, that texts which are run are filled, and that   *)
(* what a page offers is accepted.                                         *)
(***************************************************************************)
EXTENDS Groups, Links, Sessions, Options, Parameters, TLAPS

-----------------------------------------------------------------------------
(* Groups                                                                  *)

\* list.append, list.remove and an assignment yield arrays again
\* (groups.py:95, 108 and 132, users.py:337).
LEMMA ChangedIsArray ==
  ASSUME NEW c \in MemberChange, c.op = "remove" => c.seen[c.group] > 0
  PROVE  Changed(c) \in Array
<1> USE DEF MemberChange, Array, Changed, Appended, Removed, ArrayOf
<1>1. CASE c.op = "add"
  BY <1>1
<1>2. CASE c.op = "remove"
  BY <1>2
<1>3. CASE c.op = "set"
  BY <1>3
<1> QED  BY <1>1, <1>2, <1>3

\* Every request that changes members is of one of the two shapes.
LEMMA Shapes ==
  ASSUME GroupsTypeOK, NEW r \in Requests
  PROVE  /\ change[r].op \in {"add", "remove", "set"} => change[r] \in MemberChange
         /\ change[r].op = "delete" => IsDeletion(change[r])
BY DEF GroupsTypeOK, Idle, MemberChange, IsDeletion

\* The types, and that a copy from which a group is removed holds it
\* (groups.py:88-140, users.py:323-338).
THEOREM GroupTypesCorrect == GroupsSpec => []GroupsTypeOK
<1>1. GroupsInit => GroupsTypeOK
  BY GroupsAssumption DEF GroupsInit, GroupsTypeOK, Idle, ArrayOf, Array, Live
<1>2. GroupsTypeOK /\ [GroupsNext]_groupVars => GroupsTypeOK'
  <2> SUFFICES ASSUME GroupsTypeOK, [GroupsNext]_groupVars PROVE GroupsTypeOK'
    OBVIOUS
  <2>1. CASE UNCHANGED groupVars
    BY <2>1 DEF groupVars, GroupsTypeOK, IsDeletion, Live
  <2>2. ASSUME NEW g \in Groups, NEW p \in {"user", "admin"},
               CreateGroup(g, p) \/ ChangePermissions(g, p)
        PROVE  GroupsTypeOK'
    BY <2>2 DEF CreateGroup, ChangePermissions, GroupsTypeOK, IsDeletion, Live
  <2>3. ASSUME NEW r \in Requests, NEW op \in {"add", "remove", "set"}, NEW u \in Users,
               NEW g \in Groups, NEW to \in SUBSET Groups, Read(r, op, u, g, to),
               op # "set" => to = {g}, op = "remove" => u \in Members(g)
        PROVE  GroupsTypeOK'
    <3> DEFINE c == [op |-> op, user |-> u, group |-> g, to |-> to, seen |-> groupIds[u]]
    <3>1. c \in MemberChange
      BY DEF MemberChange, GroupsTypeOK
    <3>2. op = "remove" => c.seen[c.group] > 0
      BY <2>3 DEF Members
    <3>3. change' = [change EXCEPT ![r] = c]
      BY <2>3 DEF Read
    <3> QED
      BY <2>3, <3>1, <3>2, <3>3 DEF Read, GroupsTypeOK, IsDeletion, Live
  <2>4. ASSUME NEW r \in Requests, NEW g \in Groups, ReadDelete(r, g)
        PROVE  GroupsTypeOK'
    <3> DEFINE c == [op |-> "delete", group |-> g, seen |-> [u \in Members(g) |-> groupIds[u]]]
    <3>1. IsDeletion(c)
      BY <2>4 DEF ReadDelete, IsDeletion, Members, GroupsTypeOK, Live
    <3>2. change' = [change EXCEPT ![r] = c]
      BY <2>4 DEF ReadDelete
    <3> QED
      BY <2>4, <3>1, <3>2 DEF ReadDelete, GroupsTypeOK, IsDeletion, Live
  <2>5. ASSUME NEW r \in Requests, CommitMember(r) PROVE GroupsTypeOK'
    <3>1. change[r] \in MemberChange
      BY <2>5, Shapes DEF CommitMember
    <3>2. Changed(change[r]) \in Array
      BY <3>1, ChangedIsArray DEF GroupsTypeOK
    <3>3. Written(change[r]) \in Array /\ change[r].user \in Users
      BY <3>1, <3>2 DEF Written, GroupsTypeOK, MemberChange
    <3>4. Wanted(change[r]) \in SUBSET Groups
      BY <3>1 DEF Wanted, MemberChange, GroupsTypeOK
    <3> QED
      BY <2>5, <3>3, <3>4 DEF CommitMember, GroupsTypeOK, IsDeletion, Idle, Live
  <2>6. ASSUME NEW r \in Requests, CommitDelete(r) PROVE GroupsTypeOK'
    <3>1. IsDeletion(change[r])
      BY <2>6, Shapes DEF CommitDelete
    <3>2. \A u \in DOMAIN change[r].seen : Removed(change[r].seen[u], change[r].group) \in Array
      BY <3>1 DEF IsDeletion, Removed, Array
    <3>3. groupIds' \in [Users -> Array]
      BY <2>6, <3>2 DEF CommitDelete, GroupsTypeOK
    <3> QED
      BY <2>6, <3>1, <3>3 DEF CommitDelete, GroupsTypeOK, IsDeletion, Idle, Missed, Live
  <2>7. ASSUME NEW r \in Requests, Rollback(r) PROVE GroupsTypeOK'
    BY <2>7 DEF Rollback, GroupsTypeOK, IsDeletion, Idle, Live
  <2>8. ASSUME NEW r \in Requests, NEW u \in Users, NEW g \in Groups,
               ReadAdd(r, u, g) \/ ReadRemove(r, u, g) \/ GrantAdmin(r, u)
        PROVE  GroupsTypeOK'
    BY <2>3, <2>8, GroupsAssumption DEF ReadAdd, ReadRemove, GrantAdmin
  <2>9. ASSUME NEW r \in Requests, NEW by \in Users, NEW u \in Users, NEW S \in SUBSET Groups,
               ReadSet(r, by, u, S)
        PROVE  GroupsTypeOK'
    BY <2>3, <2>9, GroupsAssumption DEF ReadSet
  <2> QED
    BY <2>1, <2>2, <2>4, <2>5, <2>6, <2>7, <2>8, <2>9, GroupsAssumption DEF GroupsNext
<1> QED  BY <1>1, <1>2, PTL DEF GroupsSpec

-----------------------------------------------------------------------------
(* Whoever is not excused has exactly the array of the groups asked for,   *)
(* each of them once: that is inductive, while the set alone is not, since *)
(* a removal takes one occurrence only.                                    *)

Exact ==
  \A u \in Users \ excused : groupIds[u] = ArrayOf(asked[u]) /\ asked[u] \subseteq Live

\* A commit that spoils nothing leaves the array of what is wanted.
LEMMA WrittenIsWanted ==
  ASSUME GroupsTypeOK, Exact, NEW r \in Requests, change[r] \in MemberChange,
         ~Spoils(change[r]), change[r].op = "set" \/ change[r].user \notin excused
  PROVE  /\ Written(change[r]) = ArrayOf(Wanted(change[r]))
         /\ Wanted(change[r]) \subseteq Live
<1> DEFINE c == change[r]
<1>1. c.user \in Users /\ c.group \in Groups /\ c.to \subseteq Groups /\ c.seen \in Array
      /\ asked[c.user] \subseteq Groups
  BY DEF MemberChange, GroupsTypeOK
<1>2. CASE c.op = "set"
  <2>1. Changed(c) = ArrayOf(c.to) /\ Wanted(c) = c.to
    BY <1>2 DEF Changed, Wanted
  <2>2. c.to \subseteq Live
    BY <1>2 DEF Spoils
  <2>3. Changed(c) = c.seen => groupIds[c.user] = c.seen
    BY <1>2 DEF Spoils
  <2> QED
    BY <2>1, <2>2, <2>3 DEF Written
<1>3. ASSUME c.op # "set"
      PROVE  c.seen = ArrayOf(asked[c.user]) /\ asked[c.user] \subseteq Live /\ c.to = {c.group}
  BY <1>1, <1>3 DEF Spoils, Exact, GroupsTypeOK, MemberChange
<1>4. CASE c.op = "add"
  <2>1. c.seen[c.group] = 0 /\ c.group \in Live
    BY <1>1, <1>3, <1>4 DEF Spoils, Array
  <2>2. Wanted(c) = asked[c.user] \cup {c.group}
    BY <1>3, <1>4 DEF Wanted
  <2>3. Changed(c) = ArrayOf(Wanted(c))
    BY <1>1, <1>3, <1>4, <2>1, <2>2 DEF Changed, Appended, ArrayOf
  <2>4. Changed(c)[c.group] = 1
    BY <1>1, <2>2, <2>3 DEF ArrayOf
  <2>5. Changed(c) # c.seen
    BY <2>1, <2>4
  <2>6. Wanted(c) \subseteq Live
    BY <1>3, <1>4, <2>1, <2>2
  <2> QED
    BY <2>3, <2>5, <2>6 DEF Written
<1>5. CASE c.op = "remove"
  <2>1. c.seen[c.group] > 0
    BY <1>5 DEF GroupsTypeOK
  <2>2. Wanted(c) = asked[c.user] \ {c.group}
    BY <1>3, <1>5 DEF Wanted
  <2>3. c.seen[c.group] = 1
    BY <1>1, <1>3, <1>5, <2>1 DEF ArrayOf
  <2>4. Changed(c) = ArrayOf(Wanted(c))
    BY <1>1, <1>3, <1>5, <2>2, <2>3 DEF Changed, Removed, ArrayOf
  <2>5. Changed(c)[c.group] = 0
    BY <1>1, <2>2, <2>4 DEF ArrayOf
  <2>6. Changed(c) # c.seen
    BY <2>3, <2>5
  <2>7. Wanted(c) \subseteq Live
    BY <1>3, <1>5, <2>2
  <2> QED
    BY <2>4, <2>6, <2>7 DEF Written
<1>6. c.op \in {"add", "remove", "set"}
  BY DEF MemberChange
<1> QED
  BY <1>2, <1>4, <1>5, <1>6

\* Every step keeps the arrays exact.
LEMMA ExactIsKept ==
  ASSUME GroupsTypeOK, Exact, [GroupsNext]_groupVars
  PROVE  Exact'
<1>1. ASSUME UNCHANGED <<groupIds, asked, excused>>, Live \subseteq Live' PROVE Exact'
  BY <1>1 DEF Exact
<1>2. CASE UNCHANGED <<kind, groupIds, asked, excused>>
  BY <1>1, <1>2 DEF Live
<1>3. ASSUME NEW g \in Groups, NEW p \in {"user", "admin"},
             CreateGroup(g, p) \/ ChangePermissions(g, p)
      PROVE  Exact'
  BY <1>1, <1>3 DEF CreateGroup, ChangePermissions, Live, GroupsTypeOK
<1>4. ASSUME NEW r \in Requests, CommitMember(r) PROVE Exact'
  <2> DEFINE c == change[r]
  <2>1. c \in MemberChange /\ c.user \in Users
    BY <1>4, Shapes DEF CommitMember, MemberChange
  <2>2. Live' = Live
    BY <1>4 DEF CommitMember, Live
  <2>3. groupIds' = [groupIds EXCEPT ![c.user] = Written(c)]
        /\ asked' = [asked EXCEPT ![c.user] = Wanted(c)]
    BY <1>4 DEF CommitMember
  <2>4. excused' = IF Spoils(c) THEN excused \cup {c.user}
                   ELSE IF c.op = "set" THEN excused \ {c.user} ELSE excused
    BY <1>4 DEF CommitMember
  <2> SUFFICES ASSUME NEW u \in Users, u \notin excused'
               PROVE  groupIds'[u] = ArrayOf(asked'[u]) /\ asked'[u] \subseteq Live
    BY <2>2 DEF Exact, ArrayOf
  <2>5. CASE u # c.user
    BY <2>1, <2>3, <2>4, <2>5 DEF Exact, GroupsTypeOK
  <2>6. CASE u = c.user
    <3>1. ~Spoils(c) /\ (c.op = "set" \/ c.user \notin excused)
      BY <2>4, <2>6
    <3>2. groupIds'[u] = Written(c) /\ asked'[u] = Wanted(c)
      BY <2>1, <2>3, <2>6 DEF GroupsTypeOK
    <3> QED
      BY <2>1, <3>1, <3>2, WrittenIsWanted
  <2> QED
    BY <2>5, <2>6
<1>5. ASSUME NEW r \in Requests, CommitDelete(r) PROVE Exact'
  <2> DEFINE c == change[r]
  <2>1. IsDeletion(c)
    BY <1>5, Shapes DEF CommitDelete
  <2>2. Live' = Live \ {c.group}
    BY <1>5, <2>1 DEF CommitDelete, Live, IsDeletion, GroupsTypeOK
  <2>3. groupIds' = [u \in Users |->
          IF u \in DOMAIN c.seen THEN Removed(c.seen[u], c.group) ELSE groupIds[u]]
        /\ asked' = [u \in Users |-> asked[u] \ {c.group}]
        /\ excused' = excused \cup Missed(c)
    BY <1>5 DEF CommitDelete
  <2> SUFFICES ASSUME NEW u \in Users, u \notin excused'
               PROVE  groupIds'[u] = ArrayOf(asked'[u]) /\ asked'[u] \subseteq Live'
    BY DEF Exact, ArrayOf
  <2>4. u \notin excused /\ groupIds[u] = ArrayOf(asked[u]) /\ asked[u] \subseteq Live
        /\ asked'[u] = asked[u] \ {c.group} /\ c.group \in Groups
    BY <2>1, <2>3 DEF Exact, IsDeletion
  <2>5. CASE u \in DOMAIN c.seen
    <3>1. c.seen[u] = ArrayOf(asked[u]) /\ c.seen[u][c.group] > 0
      BY <2>1, <2>3, <2>4, <2>5 DEF Missed, IsDeletion
    <3>2. c.group \in asked[u]
      BY <2>4, <3>1 DEF ArrayOf
    <3>3. groupIds'[u] = [ArrayOf(asked[u]) EXCEPT ![c.group] = @ - 1]
      BY <2>3, <2>5, <3>1 DEF Removed
    <3>4. groupIds'[u] = ArrayOf(asked'[u])
      BY <2>4, <3>2, <3>3 DEF ArrayOf
    <3> QED
      BY <2>2, <2>4, <3>4
  <2>6. CASE u \notin DOMAIN c.seen
    <3>1. u \notin Members(c.group)
      BY <2>3, <2>6 DEF Missed
    <3>2. c.group \notin asked[u]
      BY <2>4, <3>1 DEF Members, ArrayOf
    <3> QED
      BY <2>2, <2>3, <2>4, <2>6, <3>2
  <2> QED
    BY <2>5, <2>6
<1>6. ASSUME NEW r \in Requests, Rollback(r) PROVE Exact'
  BY <1>2, <1>6 DEF Rollback
<1>7. ASSUME NEW r \in Requests, NEW u \in Users, NEW g \in Groups,
             ReadAdd(r, u, g) \/ ReadRemove(r, u, g) \/ GrantAdmin(r, u)
      PROVE  Exact'
  BY <1>2, <1>7 DEF ReadAdd, ReadRemove, GrantAdmin, Read
<1>8. ASSUME NEW r \in Requests, NEW by \in Users, NEW u \in Users, NEW S \in SUBSET Groups,
             ReadSet(r, by, u, S)
      PROVE  Exact'
  BY <1>2, <1>8 DEF ReadSet, Read
<1>9. ASSUME NEW r \in Requests, NEW g \in Groups, ReadDelete(r, g) PROVE Exact'
  BY <1>2, <1>9 DEF ReadDelete
<1> QED
  BY <1>2, <1>3, <1>4, <1>5, <1>6, <1>7, <1>8, <1>9, GroupsAssumption DEF GroupsNext, groupVars

\* Additions, removals, sets and deletions of groups that work on copies of
\* the arrays (groups.py:87-140, users.py:323-338) put whoever was not written
\* from a stale copy into exactly the groups asked for.
THEOREM GroupsFollowRequests == GroupsSpec => []GroupsAsRequested
<1>1. GroupsInit => Exact
  BY GroupsAssumption DEF GroupsInit, Exact, Live
<1>2. GroupsTypeOK /\ Exact /\ [GroupsNext]_groupVars => Exact'
  BY ExactIsKept
<1>3. GroupsTypeOK /\ Exact => GroupsAsRequested
  BY DEF Exact, GroupsAsRequested, ArrayOf, GroupsTypeOK
<1> QED  BY <1>1, <1>2, <1>3, GroupTypesCorrect, PTL DEF GroupsSpec


-----------------------------------------------------------------------------
(* Sessions                                                                *)

\* The types; emails are unique (users_org_id_email) and what sessions and
\* edits refer to exists.
THEOREM SessionTypesCorrect == SessionsSpec => []SessionsTypeOK
<1> USE DEF NoRow, Nothing, Row, Rows, Hashes, Identity
<1>1. SessionsInit => SessionsTypeOK
  <2> SUFFICES ASSUME SessionsInit PROVE SessionsTypeOK
    OBVIOUS
  <2>1. MaxHash \in Nat
    BY SessionsAssumption
  <2>2. Known = {}
    BY DEF SessionsInit, Known
  <2> QED
    BY <2>1, <2>2 DEF SessionsInit, SessionsTypeOK
<1>2. SessionsTypeOK /\ [SessionsNext]_sessionVars => SessionsTypeOK'
  <2> SUFFICES ASSUME SessionsTypeOK, [SessionsNext]_sessionVars PROVE SessionsTypeOK'
    OBVIOUS
  <2> DEFINE Cookies == {Nothing} \cup [pc : {"open"}, user : Known, email : Emails, hash : Hashes]
             Edits == {Nothing} \cup
               [pc : {"name", "email", "password"}, user : Known, own : BOOLEAN, copy : Rows]
  <2>0. /\ hashes \in Nat /\ MaxHash \in Nat /\ Hashes \subseteq 1..(hashes + 1)
        /\ account \in [Accounts -> {NoRow} \cup Rows]
        /\ cookie \in [Browsers -> Cookies]
        /\ edit \in [Browsers -> Edits]
        /\ typed \in [Browsers -> SUBSET (Known \X Hashes)]
        /\ \A u \in Known : u \in Accounts /\ account[u] \in Rows
    <3>1. /\ account \in [Accounts -> {NoRow} \cup Rows]
          /\ cookie \in [Browsers -> Cookies]
          /\ edit \in [Browsers -> Edits]
          /\ typed \in [Browsers -> SUBSET (Known \X Hashes)]
          /\ hashes \in 0..MaxHash
      BY DEF SessionsTypeOK
    <3>2. MaxHash \in Nat /\ hashes \in Nat /\ Hashes \subseteq 1..(hashes + 1)
      BY <3>1, SessionsAssumption
    <3>3. ASSUME NEW u \in Known PROVE u \in Accounts /\ account[u] \in Rows
      <4>1. u \in Accounts /\ account[u].exists
        BY DEF Known
      <4>2. account[u] \in {NoRow} \cup Rows
        BY <3>1, <4>1
      <4>3. ~NoRow.exists
        OBVIOUS
      <4> HIDE DEF NoRow, Rows
      <4> QED
        BY <4>1, <4>2, <4>3
    <3> QED
      BY <3>1, <3>2, <3>3
  <2>1. ASSUME UNCHANGED <<account, hashes>>, cookie' \in [Browsers -> Cookies],
               edit' \in [Browsers -> Edits], typed' \in [Browsers -> SUBSET (Known \X Hashes)]
        PROVE  SessionsTypeOK'
    <3>1. Known' = Known /\ Hashes' = Hashes /\ Rows' = Rows
      BY <2>1 DEF Known
    <3>2. Cookies' = Cookies /\ Edits' = Edits
      BY <3>1
    <3>3. /\ hashes' \in 0..MaxHash
          /\ Known' = {} => hashes' = 0
          /\ account' \in [Accounts -> {NoRow} \cup Rows']
          /\ \A u, v \in Known' : account'[u].email = account'[v].email => u = v
      BY <2>1, <3>1 DEF SessionsTypeOK
    <3>4. typed' \in [Browsers -> SUBSET (Known' \X Hashes')]
      BY <2>1, <3>1
    <3> QED
      BY <2>1, <3>2, <3>3, <3>4 DEF SessionsTypeOK
  <2>2. ASSUME NEW u \in Known, NEW row \in Rows', account' = [account EXCEPT ![u] = row],
               hashes' \in 0..MaxHash, Hashes \subseteq Hashes', Free(row.email, u),
               cookie' \in [Browsers -> Cookies], edit' \in [Browsers -> Edits],
               typed' \in [Browsers -> SUBSET (Known \X Hashes')]
        PROVE  SessionsTypeOK'
    <3>1. Known' = Known /\ account' \in [Accounts -> {NoRow} \cup Rows']
      BY <2>0, <2>2 DEF Known
    <3>2. \A v, w \in Known : account'[v].email = account'[w].email => v = w
      BY <2>0, <2>2 DEF SessionsTypeOK, Free
    <3>3. Rows \subseteq Rows' /\ Cookies \subseteq Cookies' /\ Edits \subseteq Edits'
      BY <2>2, <3>1
    <3> QED
      BY <2>2, <3>1, <3>2, <3>3 DEF SessionsTypeOK
  <2>3. ASSUME NEW u \in Known PROVE Free(account[u].email, u)
    BY DEF Free, SessionsTypeOK
  <2>4. ASSUME NEW b \in Browsers, Logout(b) PROVE SessionsTypeOK'
    BY <2>0, <2>1, <2>4 DEF Logout
  <2>5. ASSUME NEW b \in Browsers, NEW u \in Accounts, Login(b, u) PROVE SessionsTypeOK'
    <3>1. u \in Known /\ account[u] \in Rows /\ UNCHANGED <<account, hashes, edit>>
      BY <2>0, <2>5 DEF Login
    <3>2. Identity(u, account[u]) \in Cookies /\ <<u, account[u].hash>> \in Known \X Hashes
      BY <3>1
    <3>3. cookie' \in [Browsers -> Cookies]
      BY <2>0, <2>5, <3>2 DEF Login
    <3>4. typed' \in [Browsers -> SUBSET (Known \X Hashes)]
      BY <2>0, <2>5, <3>2 DEF Login
    <3> QED
      BY <2>0, <2>1, <3>1, <3>3, <3>4
  <2>6. ASSUME NEW u \in Accounts, NEW e \in Emails, NewUser(u, e)
        PROVE  SessionsTypeOK'
    <3>1. Hashes' = 1..(hashes + 1) /\ hashes' \in 0..MaxHash /\ hashes + 1 \in Hashes'
      BY <2>0, <2>6 DEF NewUser
    <3>2. account' = [account EXCEPT ![u] = Row(e, hashes + 1, FALSE)]
      BY <2>6 DEF NewUser
    <3>3. Known' = Known \cup {u} /\ account' \in [Accounts -> {NoRow} \cup Rows']
      BY <2>0, <3>1, <3>2 DEF Known
    <3>4. \A v, w \in Known' : account'[v].email = account'[w].email => v = w
      BY <2>0, <2>6, <3>2, <3>3 DEF NewUser, Free, SessionsTypeOK
    <3>5. Rows \subseteq Rows' /\ Cookies \subseteq Cookies' /\ Edits \subseteq Edits'
          /\ Known \X Hashes \subseteq Known' \X Hashes'
      BY <2>0, <3>1, <3>3
    <3>6. UNCHANGED <<cookie, edit, typed>>
      BY <2>6 DEF NewUser
    <3> QED
      BY <2>0, <3>1, <3>3, <3>4, <3>5, <3>6 DEF SessionsTypeOK
  <2>7. ASSUME NEW b \in Browsers, NEW u \in Accounts, NEW d \in BOOLEAN, u \in Known,
               account' = [account EXCEPT ![u].disabled = d],
               UNCHANGED <<hashes, cookie, edit, typed>>
        PROVE  SessionsTypeOK'
    <3> DEFINE row == [account[u] EXCEPT !.disabled = d]
    <3>1. row \in Rows' /\ row.email = account[u].email /\ account' = [account EXCEPT ![u] = row]
      BY <2>0, <2>7
    <3>2. hashes' \in 0..MaxHash /\ Hashes' = Hashes
      BY <2>7 DEF SessionsTypeOK
    <3> HIDE DEF row
    <3> QED
      BY <2>0, <2>2, <2>3, <2>7, <3>1, <3>2
  <2>8. ASSUME NEW b \in Browsers, NEW u \in Accounts, ResetWithToken(b, u)
        PROVE  SessionsTypeOK'
    <3> DEFINE row == [account[u] EXCEPT !.hash = hashes + 1]
    <3>1. hashes' = hashes + 1 /\ hashes' \in 0..MaxHash /\ Hashes \subseteq Hashes'
          /\ hashes + 1 \in Hashes' /\ u \in Known
      BY <2>0, <2>8 DEF ResetWithToken
    <3>2. row \in Rows' /\ row.email = account[u].email /\ account' = [account EXCEPT ![u] = row]
      BY <2>0, <2>8, <3>1 DEF ResetWithToken
    <3>3. typed' \in [Browsers -> SUBSET (Known \X Hashes')]
      BY <2>0, <2>8, <3>1 DEF ResetWithToken
    <3>4. UNCHANGED <<cookie, edit>>
      BY <2>8 DEF ResetWithToken
    <3> HIDE DEF row
    <3> QED
      BY <2>0, <2>2, <2>3, <3>1, <3>2, <3>3, <3>4
  <2>15. ASSUME NEW u \in Accounts, ResetByCommand(u) PROVE SessionsTypeOK'
    <3> DEFINE row == [account[u] EXCEPT !.hash = hashes + 1]
    <3>1. hashes' = hashes + 1 /\ hashes' \in 0..MaxHash /\ Hashes \subseteq Hashes'
          /\ hashes + 1 \in Hashes' /\ u \in Known /\ UNCHANGED <<cookie, edit, typed>>
      BY <2>0, <2>15 DEF ResetByCommand
    <3>2. row \in Rows' /\ row.email = account[u].email /\ account' = [account EXCEPT ![u] = row]
      BY <2>0, <2>15, <3>1 DEF ResetByCommand
    <3>3. typed' \in [Browsers -> SUBSET (Known \X Hashes')]
      BY <2>0, <3>1
    <3> HIDE DEF row
    <3> QED
      BY <2>0, <2>2, <2>3, <3>1, <3>2, <3>3
  <2>9. ASSUME NEW b \in Browsers, NEW u \in Accounts, NEW e \in Emails, EditEmail(b, u, e)
        PROVE  SessionsTypeOK'
    <3>1. [account[u] EXCEPT !.email = e] \in Rows /\ u \in Known
      BY <2>0, <2>9 DEF EditEmail
    <3>2. edit' \in [Browsers -> Edits]
      BY <2>0, <2>9, <3>1 DEF EditEmail
    <3> QED
      BY <2>0, <2>1, <2>9, <3>2 DEF EditEmail
  <2>10. ASSUME NEW b \in Browsers, NEW u \in Accounts, EditPassword(b, u)
         PROVE  SessionsTypeOK'
    <3>1. hashes' = hashes + 1 /\ hashes' \in 0..MaxHash /\ Hashes \subseteq Hashes'
          /\ hashes + 1 \in Hashes' /\ u \in Known /\ UNCHANGED <<account, cookie>>
      BY <2>0, <2>10 DEF EditPassword
    <3>2. Known' = Known /\ Rows \subseteq Rows' /\ Cookies \subseteq Cookies' /\ Edits \subseteq Edits'
      BY <3>1 DEF Known
    <3>3. [account[u] EXCEPT !.hash = hashes + 1] \in Rows'
      BY <2>0, <3>1
    <3>4. edit' \in [Browsers -> Edits']
      BY <2>0, <2>10, <3>1, <3>2, <3>3 DEF EditPassword
    <3>5. <<u, account[u].hash>> \in Known \X Hashes' /\ <<u, hashes + 1>> \in Known \X Hashes'
      BY <2>0, <3>1
    <3>6. typed' \in [Browsers -> SUBSET (Known \X Hashes')]
      BY <2>0, <2>10, <3>1, <3>5 DEF EditPassword
    <3> QED
      BY <2>0, <3>1, <3>2, <3>4, <3>6 DEF SessionsTypeOK
  <2>11. ASSUME NEW b \in Browsers, Save(b) PROVE SessionsTypeOK'
    <3> DEFINE r == edit[b]
    <3>1. r \in [pc : {"name", "email", "password"}, user : Known, own : BOOLEAN, copy : Rows]
      BY <2>0, <2>11 DEF Save
    <3>2. Saved(r) \in Rows /\ r.user \in Known
      BY <2>0, <3>1 DEF Saved
    <3>3. Identity(r.user, r.copy) \in Cookies
      BY <3>1
    <3>4. cookie' \in [Browsers -> Cookies] /\ edit' \in [Browsers -> Edits]
      BY <2>0, <2>11, <3>3 DEF Save
    <3>5. hashes' = hashes /\ typed' = typed /\ hashes \in 0..MaxHash /\ Hashes' = Hashes
          /\ Rows' = Rows /\ Free(Saved(r).email, r.user)
          /\ account' = [account EXCEPT ![r.user] = Saved(r)]
      BY <2>11 DEF Save, SessionsTypeOK
    <3> QED
      BY <2>0, <2>2, <3>2, <3>4, <3>5
  <2>12. ASSUME NEW b \in Browsers, Refuse(b) PROVE SessionsTypeOK'
    BY <2>0, <2>1, <2>12 DEF Refuse
  <2>13. ASSUME NEW b \in Browsers, NEW u \in Accounts, Disable(b, u) \/ Enable(b, u)
         PROVE  SessionsTypeOK'
    BY <2>7, <2>13 DEF Disable, Enable
  <2>16. ASSUME NEW b \in Browsers, Setup(b) PROVE SessionsTypeOK'
    <3> DEFINE row == Row(FirstEmail, hashes + 1, FALSE)
    <3>1. First \in Accounts /\ FirstEmail \in Emails /\ MaxHash \in Nat \ {0}
      BY SessionsAssumption
    <3>2. Known = {} /\ hashes = 0 /\ hashes' = 1 /\ hashes' \in 0..MaxHash
          /\ Hashes' = {1} /\ Hashes = {}
      BY <2>16, <3>1 DEF Setup, SessionsTypeOK
    <3>3. account' = [account EXCEPT ![First] = row] /\ row \in Rows'
      BY <2>16, <3>1, <3>2 DEF Setup
    <3>4. Known' = {First} /\ account' \in [Accounts -> {NoRow} \cup Rows']
      <4>1. account \in [Accounts -> {NoRow}]
        BY <2>0, <3>2 DEF Known
      <4>2. row.exists /\ ~NoRow.exists
        OBVIOUS
      <4> HIDE DEF row, NoRow, Rows
      <4> QED
        BY <3>1, <3>3, <4>1, <4>2 DEF Known
    <3>5. cookie \in [Browsers -> {Nothing}] /\ edit \in [Browsers -> {Nothing}]
          /\ typed \in [Browsers -> {{}}]
      BY <2>0, <3>2
    <3>6. Identity(First, row) \in [pc : {"open"}, user : Known', email : Emails, hash : Hashes']
      BY <3>1, <3>2, <3>4
    <3>7. cookie' \in [Browsers -> {Nothing} \cup
            [pc : {"open"}, user : Known', email : Emails, hash : Hashes']]
      BY <2>16, <3>5, <3>6 DEF Setup
    <3>8. typed' \in [Browsers -> SUBSET (Known' \X Hashes')] /\ edit' = edit
      BY <2>16, <3>2, <3>4, <3>5 DEF Setup
    <3> QED
      BY <3>2, <3>4, <3>5, <3>7, <3>8 DEF SessionsTypeOK
  <2>14. CASE UNCHANGED sessionVars
    BY <2>0, <2>1, <2>14 DEF sessionVars
  <2> QED
    BY <2>4, <2>5, <2>6, <2>8, <2>9, <2>10, <2>11, <2>12, <2>13, <2>14, <2>15, <2>16
       DEF SessionsNext, CreateUser, CreateByCommand, CreateRoot
<1> QED  BY <1>1, <1>2, PTL DEF SessionsSpec

-----------------------------------------------------------------------------
(* Whatever hash a session or a copy that will renew it names, its password *)
(* was typed at this browser: neither of them is ever refreshed.            *)

NamesTyped ==
  \A b \in Browsers :
    /\ cookie[b] # Nothing => <<cookie[b].user, cookie[b].hash>> \in typed[b]
    /\ edit[b] # Nothing /\ edit[b].own => <<edit[b].user, edit[b].copy.hash>> \in typed[b]

LEMMA AcceptedNames ==
  ASSUME NEW b, Accepted(b)
  PROVE  cookie[b] # Nothing /\ cookie[b].hash = account[cookie[b].user].hash
<1>1. cookie[b] = Identity(cookie[b].user, account[cookie[b].user])
  BY DEF Accepted
<1>2. Identity(cookie[b].user, account[cookie[b].user]).hash = account[cookie[b].user].hash
  BY DEF Identity
<1> QED
  BY <1>1, <1>2 DEF Accepted

\* An accepted session is of somebody who typed the password that now holds
\* (users.py:336-344, authentication.py:111-126).
THEOREM AcceptedIsTyped == SessionsSpec => []AcceptedTypedPassword
<1> USE DEF NoRow, Nothing, Row, Identity
<1>1. SessionsInit => NamesTyped
  BY SessionsAssumption DEF SessionsInit, NamesTyped
<1>2. SessionsTypeOK /\ NamesTyped /\ [SessionsNext]_sessionVars => NamesTyped'
  <2> SUFFICES ASSUME SessionsTypeOK, NamesTyped, [SessionsNext]_sessionVars PROVE NamesTyped'
    OBVIOUS
  <2>0. /\ cookie = [b \in Browsers |-> cookie[b]]
        /\ edit = [b \in Browsers |-> edit[b]]
        /\ typed = [b \in Browsers |-> typed[b]]
    BY DEF SessionsTypeOK
  <2>1. ASSUME UNCHANGED <<cookie, edit, typed>> PROVE NamesTyped'
    BY <2>1 DEF NamesTyped
  <2>2. ASSUME NEW b \in Browsers, Logout(b) PROVE NamesTyped'
    BY <2>0, <2>2 DEF Logout, NamesTyped
  <2>3. ASSUME NEW b \in Browsers, NEW u \in Accounts, Login(b, u) PROVE NamesTyped'
    BY <2>0, <2>3 DEF Login, NamesTyped
  <2>4. ASSUME NEW b \in Browsers, NEW u \in Accounts, ResetWithToken(b, u) PROVE NamesTyped'
    BY <2>0, <2>4 DEF ResetWithToken, NamesTyped
  <2>5. ASSUME NEW b \in Browsers, NEW u \in Accounts, NEW e \in Emails, EditEmail(b, u, e)
        PROVE  NamesTyped'
    <3>0. Accepted(b)
      BY <2>5 DEF EditEmail
    <3>1. cookie[b].hash = account[cookie[b].user].hash
          /\ <<cookie[b].user, cookie[b].hash>> \in typed[b]
      BY <3>0, AcceptedNames DEF NamesTyped
    <3>2. account[u] \in Rows
      BY <2>5 DEF EditEmail, Known, SessionsTypeOK
    <3>3. [account[u] EXCEPT !.email = e].hash = account[u].hash
      BY <3>2 DEF Rows
    <3>4. u = cookie[b].user => <<u, account[u].hash>> \in typed[b]
      BY <3>1
    <3> QED
      BY <2>0, <2>5, <3>3, <3>4 DEF EditEmail, NamesTyped
  <2>6. ASSUME NEW b \in Browsers, NEW u \in Accounts, EditPassword(b, u) PROVE NamesTyped'
    <3>1. account[u] \in Rows
      BY <2>6 DEF EditPassword, Known, SessionsTypeOK
    <3>2. [account[u] EXCEPT !.hash = hashes + 1].hash = hashes + 1
      BY <3>1 DEF Rows
    <3> DEFINE e == [pc |-> "password", user |-> u, own |-> u = cookie[b].user,
                     copy |-> [account[u] EXCEPT !.hash = hashes + 1]]
    <3>3. e.user = u /\ e.copy.hash = hashes + 1
      BY <3>2
    <3>4. /\ edit' = [edit EXCEPT ![b] = e]
          /\ cookie' = cookie
          /\ typed' = [typed EXCEPT ![b] = @ \cup {<<u, account[u].hash>>, <<u, hashes + 1>>}]
      BY <2>6 DEF EditPassword
    <3> HIDE DEF e
    <3>5. /\ edit'[b] = e
          /\ typed'[b] = typed[b] \cup {<<u, account[u].hash>>, <<u, hashes + 1>>}
          /\ \A c \in Browsers \ {b} : edit'[c] = edit[c] /\ typed'[c] = typed[c]
      BY <2>0, <3>4
    <3>6. ASSUME NEW c \in Browsers, cookie[c] # Nothing
          PROVE  <<cookie[c].user, cookie[c].hash>> \in typed'[c]
      BY <3>5, <3>6 DEF NamesTyped
    <3>7. ASSUME NEW c \in Browsers, edit'[c] # Nothing, edit'[c].own
          PROVE  <<edit'[c].user, edit'[c].copy.hash>> \in typed'[c]
      <4>1. CASE c = b
        BY <3>3, <3>5, <4>1
      <4>2. CASE c # b
        BY <3>5, <3>7, <4>2 DEF NamesTyped
      <4> QED
        BY <4>1, <4>2
    <3> QED
      BY <3>4, <3>6, <3>7 DEF NamesTyped
  <2>7. ASSUME NEW b \in Browsers, Save(b) PROVE NamesTyped'
    BY <2>0, <2>7 DEF Save, NamesTyped
  <2>8. ASSUME NEW b \in Browsers, Refuse(b) PROVE NamesTyped'
    BY <2>0, <2>8 DEF Refuse, NamesTyped
  <2>9. ASSUME NEW b \in Browsers, Setup(b) PROVE NamesTyped'
    BY <2>0, <2>9 DEF Setup, NamesTyped
  <2> QED
    BY <2>1, <2>2, <2>3, <2>4, <2>5, <2>6, <2>7, <2>8, <2>9
       DEF SessionsNext, sessionVars, CreateUser, CreateByCommand, CreateRoot, NewUser,
           Disable, Enable, ResetByCommand
<1>3. NamesTyped => AcceptedTypedPassword
  BY AcceptedNames DEF NamesTyped, AcceptedTypedPassword
<1> QED  BY <1>1, <1>2, <1>3, SessionTypesCorrect, PTL DEF SessionsSpec


-----------------------------------------------------------------------------
(* Options                                                                 *)

Option == [Fields -> Values]

\* Masking, updating and filling in yield options again.
LEMMA OptionShapes ==
  ASSUME NEW t \in Types, NEW a \in Option, NEW b \in Option
  PROVE  Masked(t, a) \in Option /\ Updated(t, a, b) \in Option
<1>1. Mask \in Values
  BY OptionsAssumption DEF Mask, Values, Absent
<1>2. Masked(t, a) \in Option
  BY <1>1 DEF Masked, Option
<1>3. Updated(t, a, b) \in Option
  BY DEF Updated, Option
<1> QED  BY <1>2, <1>3

LEMMA FilledShapes ==
  ASSUME OptionsTypeOK, NEW shown \in Option, NEW posted \in Filled(shown)
  PROVE  posted \in Option /\ ValuesAfter(posted) \in 0..MaxTyped
<1>1. values \in 0..MaxTyped /\ Absent \in Values /\ (values < MaxTyped => values + 1 \in Values)
  BY OptionsAssumption DEF OptionsTypeOK, Values, Absent
<1>2. posted \in Option
  BY <1>1 DEF Filled, Option
<1>3. ValuesAfter(posted) \in 0..MaxTyped
  BY <1>1, OptionsAssumption DEF ValuesAfter
<1> QED  BY <1>2, <1>3

LEMMA EmptyShape == Empty \in Option
BY OptionsAssumption DEF Empty, Option, Values, Absent

\* What is typed in a command: options, or a placeholder.
LEMMA TypedShapes ==
  ASSUME OptionsTypeOK,
         NEW given \in Filled(Empty) \cup {[Empty EXCEPT ![f] = Mask] : f \in Fields}
  PROVE  given \in Option /\ ValuesAfter(given) \in 0..MaxTyped
<1>1. CASE given \in Filled(Empty)
  BY <1>1, EmptyShape, FilledShapes
<1>2. CASE given \in {[Empty EXCEPT ![f] = Mask] : f \in Fields}
  <2>1. values \in 0..MaxTyped /\ MaxTyped \in Nat /\ Mask \in Values
    BY OptionsAssumption DEF OptionsTypeOK, Mask, Values, Absent
  <2>2. given \in Option
    BY <1>2, <2>1, EmptyShape DEF Option
  <2>3. ValuesAfter(given) \in 0..MaxTyped
    BY <2>1 DEF ValuesAfter
  <2> QED
    BY <2>2, <2>3
<1> QED
  BY <1>1, <1>2

\* A row that is read has the options of a type, and so has the copy.
LEMMA ReadsKeepTypes ==
  ASSUME OptionsTypeOK, NEW c \in Clients, NEW state \in {"save", "command"},
         NEW o \in Holders, NEW t \in Types, NEW posted \in Option,
         ValuesAfter(posted) \in 0..MaxTyped, ReadConfig(c, state, o, t, posted)
  PROVE  OptionsTypeOK'
<1>1. config[o] \in ConfigRows
  BY DEF ReadConfig, OptionsTypeOK, NoConfig, GoneConfig
<1>2. Updated(t, config[o].options, posted) \in Option
  BY <1>1, OptionShapes DEF ConfigRows, Option
<1>3. /\ save' = [save EXCEPT ![c] =
            [state |-> state, holder |-> o, seen |-> config[o], type |-> t,
             posted |-> posted, options |-> Updated(t, config[o].options, posted)]]
      /\ values' \in 0..MaxTyped /\ saves' \in 0..MaxSaves
      /\ UNCHANGED <<config, form, meant, stale>>
  BY OptionsAssumption DEF ReadConfig, OptionsTypeOK
<1> QED
  BY <1>1, <1>2, <1>3 DEF OptionsTypeOK, Option

\* Rows, forms and saves have their types whatever the clients do
\* (apis/handlers/data_sources.py, destinations.py).
THEOREM OptionTypesCorrect == OptionsSpec => []OptionsTypeOK
<1> USE DEF Option
<1>1. OptionsInit => OptionsTypeOK
  BY OptionsAssumption, EmptyShape DEF OptionsInit, OptionsTypeOK
<1>2. OptionsTypeOK /\ [OptionsNext]_optionVars => OptionsTypeOK'
  <2> SUFFICES ASSUME OptionsTypeOK, [OptionsNext]_optionVars PROVE OptionsTypeOK'
    OBVIOUS
  <2>1. CASE UNCHANGED optionVars
    BY <2>1 DEF optionVars, OptionsTypeOK
  <2>2. ASSUME NEW c \in Clients, NEW o \in Holders, NEW t \in Types, CreateConfig(c, o, t)
        PROVE  OptionsTypeOK'
    <3>1. PICK posted \in Filled(Empty) :
            /\ values' = ValuesAfter(posted)
            /\ config' = [config EXCEPT ![o] = ConfigRow(t, posted)]
            /\ meant' = [meant EXCEPT ![o] = posted]
            /\ form' = [form EXCEPT ![c] =
                 [state |-> "shown", holder |-> o, type |-> t, options |-> Masked(t, posted)]]
      BY <2>2 DEF CreateConfig
    <3>2. posted \in Option /\ values' \in 0..MaxTyped
      BY <3>1, EmptyShape, FilledShapes
    <3>3. Masked(t, posted) \in Option
      BY <3>2, OptionShapes
    <3>4. ConfigRow(t, posted) \in ConfigRows
      BY <3>2 DEF ConfigRow, ConfigRows
    <3> QED
      BY <2>2, <3>1, <3>2, <3>3, <3>4 DEF CreateConfig, OptionsTypeOK
  <2>3. ASSUME NEW c \in Clients, NEW o \in Holders, Show(c, o) PROVE OptionsTypeOK'
    <3>1. config[o] \in ConfigRows
      BY <2>3 DEF Show, OptionsTypeOK, NoConfig, GoneConfig
    <3>2. Masked(config[o].type, config[o].options) \in Option /\ config[o].type \in Types
      BY <3>1, OptionShapes DEF ConfigRows
    <3> QED
      BY <2>3, <3>2 DEF Show, OptionsTypeOK
  <2>4. ASSUME NEW c \in Clients, NEW t \in Types, Post(c, t) PROVE OptionsTypeOK'
    <3>1. PICK posted \in Filled(form[c].options) : ReadConfig(c, "save", form[c].holder, t, posted)
      BY <2>4 DEF Post
    <3>2. form[c].holder \in Holders /\ form[c].options \in Option
      BY <2>4 DEF Post, OptionsTypeOK, NoForm
    <3>3. posted \in Option /\ ValuesAfter(posted) \in 0..MaxTyped
      BY <3>1, <3>2, FilledShapes
    <3> QED
      BY <3>1, <3>2, <3>3, ReadsKeepTypes
  <2>5. ASSUME NEW c \in Clients, SaveConfig(c) PROVE OptionsTypeOK'
    <3> DEFINE s == save[c]
               o == s.holder
               type == IF s.type = s.seen.type THEN config[o].type ELSE s.type
    <3>1. /\ o \in Holders /\ s.type \in Types /\ s.options \in Option /\ s.posted \in Option
      BY <2>5 DEF SaveConfig, OptionsTypeOK, NoSave
    <3>2. config[o] \in ConfigRows
      BY <2>5, <3>1 DEF SaveConfig, OptionsTypeOK, NoConfig, GoneConfig
    <3>3. ConfigRow(type, s.options) \in ConfigRows
      BY <3>1, <3>2 DEF ConfigRow, ConfigRows
    <3>4. Meant(s) \in Option
      BY <3>1 DEF Meant, OptionsTypeOK
    <3>5. Masked(s.type, s.options) \in Option
      BY <3>1, OptionShapes
    <3>6. /\ config' = [config EXCEPT ![o] = ConfigRow(type, s.options)]
          /\ meant' = [meant EXCEPT ![o] = Meant(s)]
          /\ form' = IF s.state = "command" THEN form
                     ELSE [form EXCEPT ![c] =
                       [state |-> "shown", holder |-> o, type |-> s.type,
                        options |-> Masked(s.type, s.options)]]
          /\ save' = [save EXCEPT ![c] = NoSave] /\ UNCHANGED <<values, saves>>
      BY <2>5 DEF SaveConfig
    <3>7. stale' \subseteq Holders \X Fields
      BY <2>5, <3>1 DEF SaveConfig, OptionsTypeOK
    <3> HIDE DEF s, o, type
    <3> QED
      BY <3>1, <3>3, <3>4, <3>5, <3>6, <3>7 DEF OptionsTypeOK
  <2>6. ASSUME NEW c \in Clients, SaveFails(c) PROVE OptionsTypeOK'
    BY <2>6 DEF SaveFails, OptionsTypeOK
  <2>7. ASSUME NEW o \in Holders, DeleteConfig(o) PROVE OptionsTypeOK'
    BY <2>7, EmptyShape DEF DeleteConfig, OptionsTypeOK
  <2>8. ASSUME NEW c \in Clients, NEW o \in Holders, NEW t \in Types, Command(c, o, t)
        PROVE  OptionsTypeOK'
    <3>1. PICK given \in Filled(Empty) \cup {[Empty EXCEPT ![f] = Mask] : f \in Fields} :
            ReadConfig(c, "command", o, t, given)
      BY <2>8 DEF Command
    <3> QED
      BY <3>1, TypedShapes, ReadsKeepTypes
  <2>9. ASSUME NEW o \in Holders, NEW t \in Types, CommandType(o, t) PROVE OptionsTypeOK'
    <3>1. config[o] \in ConfigRows
      BY <2>9 DEF CommandType, OptionsTypeOK, NoConfig, GoneConfig
    <3>2. [config[o] EXCEPT !.type = t] \in ConfigRows
      BY <3>1 DEF ConfigRows
    <3> QED
      BY <2>9, <3>2 DEF CommandType, OptionsTypeOK
  <2> QED
    BY <2>1, <2>2, <2>3, <2>4, <2>5, <2>6, <2>7, <2>8, <2>9 DEF OptionsNext
<1> QED  BY <1>1, <1>2, PTL DEF OptionsSpec

-----------------------------------------------------------------------------
(* A save writes what its request has made of the row that it read, which  *)
(* is what makes the promise about masks inductive.                         *)

SavesAreUpdates ==
  \A c \in Clients : save[c] # NoSave =>
    save[c].options = Updated(save[c].type, save[c].seen.options, save[c].posted)

LEMMA ReadsAreUpdates ==
  ASSUME OptionsTypeOK, SavesAreUpdates, SecretsSurvive,
         NEW c \in Clients, NEW state, NEW o, NEW t, NEW posted, ReadConfig(c, state, o, t, posted)
  PROVE  (SavesAreUpdates /\ SecretsSurvive)'
<1>1. save' = [save EXCEPT ![c] =
        [state |-> state, holder |-> o, seen |-> config[o], type |-> t,
         posted |-> posted, options |-> Updated(t, config[o].options, posted)]]
  BY DEF ReadConfig
<1>2. SavesAreUpdates'
  BY <1>1 DEF SavesAreUpdates, OptionsTypeOK, Updated
<1>3. SecretsSurvive'
  BY DEF ReadConfig, SecretsSurvive
<1> QED
  BY <1>2, <1>3

\* A field has the value that was typed for it last, also if forms that show it
\* masked are saved (utils/configuration.py:54-76); but not one that such a save
\* could not keep, as it overlapped with a change of the field, or posted the mask
\* under a type for which the field is no secret.
THEOREM MasksKeepSecrets == OptionsSpec => []SecretsSurvive
<1> DEFINE Inv == SavesAreUpdates /\ SecretsSurvive
<1>1. OptionsInit => Inv
  BY DEF OptionsInit, SavesAreUpdates, SecretsSurvive, NoConfig
<1>2. OptionsTypeOK /\ Inv /\ [OptionsNext]_optionVars => Inv'
  <2> SUFFICES ASSUME OptionsTypeOK, Inv, [OptionsNext]_optionVars PROVE Inv'
    OBVIOUS
  <2>1. CASE UNCHANGED optionVars
    BY <2>1 DEF optionVars, SavesAreUpdates, SecretsSurvive
  <2>2. ASSUME NEW c \in Clients, NEW o \in Holders, NEW t \in Types, CreateConfig(c, o, t)
        PROVE  Inv'
    BY <2>2 DEF CreateConfig, ConfigRow, SavesAreUpdates, SecretsSurvive, OptionsTypeOK
  <2>3. ASSUME NEW c \in Clients, NEW o \in Holders, Show(c, o) PROVE Inv'
    BY <2>3 DEF Show, SavesAreUpdates, SecretsSurvive
  <2>4. ASSUME NEW c \in Clients, NEW t \in Types, Post(c, t) PROVE Inv'
    <3>1. PICK posted \in Filled(form[c].options) : ReadConfig(c, "save", form[c].holder, t, posted)
      BY <2>4 DEF Post
    <3> QED
      BY <3>1, ReadsAreUpdates
  <2>5. ASSUME NEW c \in Clients, SaveConfig(c) PROVE Inv'
    <3> DEFINE s == save[c]
               o == s.holder
    <3>1. o \in Holders /\ s.type \in Types /\ s.options \in Option /\ s.posted \in Option
      BY <2>5 DEF SaveConfig, OptionsTypeOK, NoSave, Option
    <3>2. s.options = Updated(s.type, s.seen.options, s.posted)
      BY <2>5 DEF SaveConfig, SavesAreUpdates
    <3>3. SavesAreUpdates'
      BY <2>5 DEF SaveConfig, SavesAreUpdates, OptionsTypeOK, Updated
    <3>4. /\ config'[o].options = s.options /\ meant'[o] = Meant(s)
          /\ \A p \in Holders \ {o} : config'[p] = config[p] /\ meant'[p] = meant[p]
      BY <2>5, <3>1 DEF SaveConfig, ConfigRow, OptionsTypeOK
    <3>5. config[o].state = "row"
      BY <2>5 DEF SaveConfig
    <3>6. \A f \in Fields :
            /\ <<o, f>> \in stale /\ s.posted[f] = Mask => <<o, f>> \in stale'
            /\ Loses(s, f) => <<o, f>> \in stale'
      BY <2>5 DEF SaveConfig
    <3>7. \A p \in Holders \ {o}, f \in Fields : <<p, f>> \in stale => <<p, f>> \in stale'
      BY <2>5 DEF SaveConfig
    <3>8. ASSUME NEW f \in Fields, <<o, f>> \notin stale'
          PROVE  s.options[f] = Meant(s)[f]
      <4>1. CASE s.posted[f] # Mask
        BY <3>2, <4>1 DEF Updated, Meant
      <4>2. CASE s.posted[f] = Mask
        <5>1. f \in SecretOf[s.type] /\ config[o].options[f] = s.seen.options[f]
          BY <3>6, <3>8, <4>2 DEF Loses
        <5>2. config[o].options[f] = meant[o][f]
          BY <3>1, <3>5, <3>6, <3>8, <4>2 DEF SecretsSurvive
        <5>3. s.options[f] = s.seen.options[f]
          BY <3>2, <4>2, <5>1 DEF Updated
        <5>4. Meant(s)[f] = meant[o][f]
          BY <4>2 DEF Meant
        <5> QED
          BY <5>1, <5>2, <5>3, <5>4
      <4> QED
        BY <4>1, <4>2
    <3> HIDE DEF s, o
    <3>9. SecretsSurvive'
      BY <3>1, <3>4, <3>7, <3>8 DEF SecretsSurvive
    <3> QED
      BY <3>3, <3>9
  <2>6. ASSUME NEW c \in Clients, SaveFails(c) PROVE Inv'
    BY <2>6 DEF SaveFails, SavesAreUpdates, SecretsSurvive, OptionsTypeOK
  <2>7. ASSUME NEW o \in Holders, DeleteConfig(o) PROVE Inv'
    BY <2>7 DEF DeleteConfig, GoneConfig, SavesAreUpdates, SecretsSurvive, OptionsTypeOK
  <2>8. ASSUME NEW c \in Clients, NEW o \in Holders, NEW t \in Types, Command(c, o, t)
        PROVE  Inv'
    <3>1. PICK given \in Filled(Empty) \cup {[Empty EXCEPT ![f] = Mask] : f \in Fields} :
            ReadConfig(c, "command", o, t, given)
      BY <2>8 DEF Command
    <3> QED
      BY <3>1, ReadsAreUpdates
  <2>9. ASSUME NEW o \in Holders, NEW t \in Types, CommandType(o, t) PROVE Inv'
    <3>1. \A p \in Holders : config'[p].state = config[p].state /\ config'[p].options = config[p].options
      BY <2>9 DEF CommandType, OptionsTypeOK, NoConfig, GoneConfig, ConfigRows
    <3> QED
      BY <2>9, <3>1 DEF CommandType, SavesAreUpdates, SecretsSurvive
  <2> QED
    BY <2>1, <2>2, <2>3, <2>4, <2>5, <2>6, <2>7, <2>8, <2>9 DEF OptionsNext
<1> QED  BY <1>1, <1>2, OptionTypesCorrect, PTL DEF OptionsSpec

-----------------------------------------------------------------------------
(* Links                                                                   *)

\* The pairs that a list has still to ask for are linked once, unless it has met
\* one of the reasons for which it may fail.
ListOK(x) ==
  x # None /\ x.pc = "open" /\ ~x.twice /\ ~x.changed =>
    x.todo \subseteq x.scope /\ \A p \in x.todo : LinkCount(p) = 1

LinksInv ==
  /\ LinksTypeOK
  /\ ListFailsOnlyIf
  /\ \A l \in Listings : ListOK(listing[l])

List == [pc : {"open", "failed"}, scope : SUBSET Pairs, todo : SUBSET Pairs,
         twice : BOOLEAN, changed : BOOLEAN]

\* The numbers of rows with and without the flag.
LEMMA CountsOfRows ==
  /\ \A f \in [BOOLEAN -> Nat] : f[TRUE] + f[FALSE] \in Nat
  /\ \A f \in [BOOLEAN -> Nat] : [f EXCEPT ![FALSE] = @ + 1] \in [BOOLEAN -> Nat]
  /\ \A v \in BOOLEAN : [view \in BOOLEAN |-> IF view = v THEN 1 ELSE 0] \in [BOOLEAN -> Nat]
  /\ [view \in BOOLEAN |-> 0] \in [BOOLEAN -> Nat]
  /\ \A f : \A v \in BOOLEAN :
       f = [view \in BOOLEAN |-> IF view = v THEN 1 ELSE 0] => f[TRUE] + f[FALSE] = 1
  /\ \A f : f = [view \in BOOLEAN |-> 0] => f[TRUE] + f[FALSE] = 0
<1>1. \A m, n \in Nat : m + n \in Nat
  OBVIOUS
<1>2. \A f \in [BOOLEAN -> Nat] : f[TRUE] + f[FALSE] \in Nat
  BY <1>1, Zenon
<1>3. ASSUME NEW S, NEW x \in S, NEW f \in [S -> Nat]
      PROVE  [f EXCEPT ![x] = @ + 1] \in [S -> Nat]
  OBVIOUS
<1>4. \A f \in [BOOLEAN -> Nat] : [f EXCEPT ![FALSE] = @ + 1] \in [BOOLEAN -> Nat]
  BY <1>3, Zenon
<1>5. 0 \in Nat /\ 1 \in Nat /\ 1 + 0 = 1 /\ 0 + 1 = 1 /\ 0 + 0 = 0
  OBVIOUS
<1>6. /\ \A v \in BOOLEAN : [view \in BOOLEAN |-> IF view = v THEN 1 ELSE 0] \in [BOOLEAN -> Nat]
      /\ [view \in BOOLEAN |-> 0] \in [BOOLEAN -> Nat]
  BY <1>5, Zenon
<1>7. ASSUME NEW f, NEW v \in BOOLEAN, f = [view \in BOOLEAN |-> IF view = v THEN 1 ELSE 0]
      PROVE  f[TRUE] + f[FALSE] = 1
  <2>1. v = TRUE => f[TRUE] = 1 /\ f[FALSE] = 0
    BY <1>7, Zenon
  <2>2. v = FALSE => f[TRUE] = 0 /\ f[FALSE] = 1
    BY <1>7, Zenon
  <2>3. v = TRUE \/ v = FALSE
    BY <1>7, Zenon
  <2> QED
    BY <1>5, <2>1, <2>2, <2>3, Zenon
<1>8. ASSUME NEW f, f = [view \in BOOLEAN |-> 0]
      PROVE  f[TRUE] + f[FALSE] = 0
  BY <1>5, <1>8, Zenon
<1> QED
  BY <1>2, <1>4, <1>6, <1>7, <1>8, Zenon

\* Rows change, of pairs whose lists learn of it: no list fails for another reason.
LEMMA ChangesAreSeen ==
  ASSUME LinksInv, NEW P \in SUBSET Pairs,
         rows' \in [Pairs -> [BOOLEAN -> Nat]],
         \A p \in Pairs \ P : LinkCount(p)' = LinkCount(p),
         \A l \in Listings :
           listing'[l] = IF listing[l] # None /\ \E p \in P : p \in listing[l].scope
                         THEN [listing[l] EXCEPT !.changed = TRUE] ELSE listing[l],
         listing' = [l \in Listings |-> listing'[l]]
  PROVE  /\ listing' \in [Listings -> {None} \cup List]
         /\ ListFailsOnlyIf'
         /\ \A l \in Listings : ListOK(listing[l])'
<1>1. \A l \in Listings : listing[l] = None \/ listing[l] \in List
  BY DEF LinksInv, LinksTypeOK, List
<1>2. ASSUME NEW l \in Listings
      PROVE  /\ listing'[l] \in {None} \cup List
             /\ listing'[l].pc = "failed" => listing'[l].twice \/ listing'[l].changed
             /\ ListOK(listing[l])'
  <2>1. CASE listing'[l] = listing[l]
    <3>1. CASE listing[l] = None
      BY <2>1, <3>1 DEF None, ListOK
    <3>2. CASE listing[l] \in List /\ listing[l] # None
      <4>1. \A p \in listing[l].scope : p \notin P \/ listing[l].changed
        BY <2>1, <3>2 DEF List
      <4>2. listing[l].pc = "failed" => listing[l].twice \/ listing[l].changed
        BY DEF LinksInv, ListFailsOnlyIf
      <4>3. ListOK(listing[l])
        BY DEF LinksInv
      <4>4. ASSUME listing[l].pc = "open", ~listing[l].twice, ~listing[l].changed
            PROVE  listing[l].todo \subseteq listing[l].scope
                   /\ \A p \in listing[l].todo : LinkCount(p)' = 1
        BY <3>2, <4>1, <4>3, <4>4 DEF ListOK, List
      <4> QED
        BY <2>1, <3>2, <4>2, <4>4 DEF ListOK
    <3> QED
      BY <1>1, <3>1, <3>2
  <2>2. CASE listing[l] # None /\ listing'[l] = [listing[l] EXCEPT !.changed = TRUE]
    <3>1. listing'[l] \in List /\ listing'[l].changed = TRUE
      BY <1>1, <2>2 DEF List
    <3> QED
      BY <3>1 DEF ListOK
  <2> QED
    BY <2>1, <2>2
<1> QED
  BY <1>2 DEF ListFailsOnlyIf

\* What a step does to the deletions that a link would hold.
LEMMA HeldDeletions ==
  ASSUME LinksTypeOK, NEW o \in Objects, NEW g \in LinkGroups,
         \/ Hold(g, LAMBDA new : new \cup {o})
         \/ Hold(g, LAMBDA new : new \ {o})
  PROVE  deletion' \in [Deletions -> {None} \cup
           [pc : {"loaded"}, group : LinkGroups, new : SUBSET Objects]]
<1>1. \A d \in Deletions : deletion[d] = None
        \/ deletion[d] \in [pc : {"loaded"}, group : LinkGroups, new : SUBSET Objects]
  BY DEF LinksTypeOK
<1>2. CASE Hold(g, LAMBDA new : new \cup {o})
  BY <1>1, <1>2 DEF Hold
<1>3. CASE Hold(g, LAMBDA new : new \ {o})
  BY <1>1, <1>3 DEF Hold
<1> QED
  BY <1>2, <1>3

LEMMA RelinksKeepInv ==
  ASSUME LinksInv, \E o \in Objects, g \in LinkGroups : Relink(o, g)
  PROVE  LinksInv'
<1> PICK o \in Objects, g \in LinkGroups : Relink(o, g)
  OBVIOUS
<1> DEFINE p == <<o, g>>
<1>1. /\ p \in Pairs /\ p[2] = g
      /\ \A q \in Pairs : rows[q] \in [BOOLEAN -> Nat]
      /\ rows \in [Pairs -> [BOOLEAN -> Nat]]
  BY DEF Pairs, LinksInv, LinksTypeOK
<1>2. CASE AddLink(o, g) \/ RemoveLink(o, g)
  <2>1. /\ rows' \in [Pairs -> [BOOLEAN -> Nat]]
        /\ \A q \in Pairs \ {p} : rows'[q] = rows[q]
    <3>1. CASE AddLink(o, g)
      <4>1. rows' = [rows EXCEPT ![p][FALSE] = @ + 1] /\ rows[p] \in [BOOLEAN -> Nat]
        BY <1>1, <3>1 DEF AddLink
      <4>2. [rows[p] EXCEPT ![FALSE] = @ + 1] \in [BOOLEAN -> Nat]
        BY <4>1, CountsOfRows
      <4>3. rows' = [rows EXCEPT ![p] = [rows[p] EXCEPT ![FALSE] = @ + 1]]
        BY <4>1
      <4> QED
        BY <1>1, <4>2, <4>3
    <3>2. CASE RemoveLink(o, g)
      BY <1>1, <3>2 DEF RemoveLink
    <3> QED
      BY <1>2, <3>1, <3>2
  <2>2. /\ g \in exists /\ exists' = exists
        /\ listing' = [l \in Listings |->
             IF listing[l] # None /\ p \in listing[l].scope
             THEN [listing[l] EXCEPT !.changed = TRUE] ELSE listing[l]]
    BY <1>2 DEF AddLink, RemoveLink, Disturb
  <2>3. /\ listing' \in [Listings -> {None} \cup List]
        /\ ListFailsOnlyIf'
        /\ \A l \in Listings : ListOK(listing[l])'
    <3>1. \A q \in Pairs \ {p} : LinkCount(q)' = LinkCount(q)
      BY <2>1 DEF LinkCount
    <3>2. \A l \in Listings :
            listing'[l] = IF listing[l] # None /\ \E q \in {p} : q \in listing[l].scope
                          THEN [listing[l] EXCEPT !.changed = TRUE] ELSE listing[l]
      BY <2>2
    <3>3. listing' = [l \in Listings |-> listing'[l]]
      BY <2>2
    <3>4. {p} \in SUBSET Pairs
      BY <1>1
    <3> HIDE DEF p
    <3> QED
      BY <2>1, <3>1, <3>2, <3>3, <3>4, ChangesAreSeen
  <2>4. deletion' \in [Deletions -> {None} \cup
           [pc : {"loaded"}, group : LinkGroups, new : SUBSET Objects]]
    BY <1>2, HeldDeletions DEF AddLink, RemoveLink, LinksInv
  <2>5. \A q \in Pairs : q[2] \notin exists' => LinkCount(q)' = 0
    BY <1>1, <2>1, <2>2 DEF LinksInv, LinksTypeOK, LinkCount
  <2> QED
    BY <2>1, <2>2, <2>3, <2>4, <2>5 DEF LinksInv, LinksTypeOK, List
<1>3. ASSUME NEW view_only \in BOOLEAN, UpdateLink(o, g, view_only)
      PROVE  LinksInv'
  <2>1. /\ rows' = [rows EXCEPT ![p] = [view \in BOOLEAN |-> IF view = view_only THEN 1 ELSE 0]]
        /\ LinkCount(p) = 1 /\ g \in exists
        /\ UNCHANGED <<exists, listing, deletion>>
    BY <1>3 DEF UpdateLink
  <2>2. rows' \in [Pairs -> [BOOLEAN -> Nat]]
    BY <1>1, <2>1
  <2>3. \A q \in Pairs : LinkCount(q)' = LinkCount(q)
    <3>1. \A q \in Pairs \ {p} : rows'[q] = rows[q]
      BY <1>1, <2>1
    <3>2. rows'[p] = [view \in BOOLEAN |-> IF view = view_only THEN 1 ELSE 0]
      BY <1>1, <2>1
    <3>3. rows'[p][TRUE] + rows'[p][FALSE] = 1
      BY <3>2, CountsOfRows
    <3> QED
      BY <2>1, <3>1, <3>3 DEF LinkCount
  <2> QED
    BY <2>1, <2>2, <2>3 DEF LinksInv, LinksTypeOK, ListFailsOnlyIf, ListOK
<1> QED
  BY <1>2, <1>3 DEF Relink

LEMMA ListsKeepInv ==
  ASSUME LinksInv,
         \E l \in Listings :
           \/ \E scope \in SUBSET Pairs : Start(l, scope)
           \/ \E p \in Pairs : Found(l, p)
           \/ Sent(l)
  PROVE  LinksInv'
<1> PICK l \in Listings :
           \/ \E scope \in SUBSET Pairs : Start(l, scope)
           \/ \E p \in Pairs : Found(l, p)
           \/ Sent(l)
  OBVIOUS
<1>1. /\ listing \in [Listings -> {None} \cup List]
      /\ \A k \in Listings : listing[k].pc = "failed" => listing[k].twice \/ listing[k].changed
      /\ \A k \in Listings : ListOK(listing[k])
      /\ \A p \in Pairs : LinkCount(p) \in Nat
  <2>1. \A p \in Pairs : LinkCount(p) \in Nat
    <3>1. \A p \in Pairs : rows[p] \in [BOOLEAN -> Nat]
      BY DEF LinksInv, LinksTypeOK
    <3> QED
      BY <3>1, CountsOfRows, Zenon DEF LinkCount
  <2> QED
    BY <2>1 DEF LinksInv, LinksTypeOK, ListFailsOnlyIf, List
<1>2. ASSUME NEW x \in {None} \cup List,
             listing' = [listing EXCEPT ![l] = x], UNCHANGED <<exists, rows, deletion>>,
             x.pc = "failed" => x.twice \/ x.changed, ListOK(x)
      PROVE  LinksInv'
  <2>1. listing' \in [Listings -> {None} \cup List]
    BY <1>1, <1>2
  <2>2. ASSUME NEW k \in Listings
        PROVE  /\ listing'[k].pc = "failed" => listing'[k].twice \/ listing'[k].changed
               /\ ListOK(listing[k])'
    <3>1. CASE k = l
      BY <1>1, <1>2, <3>1 DEF ListOK, LinkCount
    <3>2. CASE k # l
      BY <1>1, <1>2, <3>2 DEF ListOK, LinkCount
    <3> QED
      BY <3>1, <3>2
  <2> QED
    BY <1>2, <2>1, <2>2 DEF LinksInv, LinksTypeOK, ListFailsOnlyIf, List, LinkCount
<1>3. ASSUME NEW scope \in SUBSET Pairs, Start(l, scope)
      PROVE  LinksInv'
  <2> DEFINE x == [pc |-> "open", scope |-> scope, todo |-> {p \in scope : LinkCount(p) > 0},
                   twice |-> \E p \in scope : LinkCount(p) > 1, changed |-> FALSE]
  <2>1. x \in List
    BY DEF List
  <2>2. ListOK(x)
    BY <1>1 DEF ListOK
  <2>3. listing' = [listing EXCEPT ![l] = x] /\ UNCHANGED <<exists, rows, deletion>>
    BY <1>3 DEF Start
  <2>4. x.pc # "failed"
    OBVIOUS
  <2> HIDE DEF x
  <2> QED
    BY <1>2, <2>1, <2>2, <2>3, <2>4
<1>4. ASSUME NEW p \in Pairs, Found(l, p)
      PROVE  LinksInv'
  <2>1. listing[l] \in List /\ listing[l] # None /\ listing[l].pc = "open" /\ p \in listing[l].todo
    <3>1. listing[l].pc = "open" /\ p \in listing[l].todo
      BY <1>4 DEF Found
    <3>2. listing[l] # None
      BY <3>1 DEF None
    <3> QED
      BY <1>1, <3>1, <3>2
  <2> DEFINE x == [listing[l] EXCEPT !.todo = @ \ {p},
                     !.pc = IF LinkCount(p) = 1 THEN @ ELSE "failed"]
  <2>2. x \in List
    BY <2>1 DEF List
  <2>3. ListOK(x)
    BY <1>1, <2>1 DEF ListOK, List
  <2>4. x.pc = "failed" => x.twice \/ x.changed
    BY <1>1, <2>1 DEF ListOK, List
  <2>5. listing' = [listing EXCEPT ![l] = x] /\ UNCHANGED <<exists, rows, deletion>>
    BY <1>4 DEF Found
  <2> HIDE DEF x
  <2> QED
    BY <1>2, <2>2, <2>3, <2>4, <2>5
<1>5. CASE Sent(l)
  <2>1. ListOK(None) /\ None.pc # "failed"
    BY DEF ListOK, None
  <2> QED
    BY <1>2, <1>5, <2>1 DEF Sent
<1> QED
  BY <1>3, <1>4, <1>5

LEMMA DeletionsKeepInv ==
  ASSUME LinksInv, \E d \in Deletions : (\E g \in LinkGroups : LoadGroup(d, g)) \/ DeleteGroup(d)
  PROVE  LinksInv'
<1>1. ASSUME NEW d \in Deletions, NEW g \in LinkGroups, LoadGroup(d, g)
      PROVE  LinksInv'
  <2>1. [pc |-> "loaded", group |-> g, new |-> {}] \in
          [pc : {"loaded"}, group : LinkGroups, new : SUBSET Objects]
    OBVIOUS
  <2>2. /\ deletion' = [deletion EXCEPT ![d] = [pc |-> "loaded", group |-> g, new |-> {}]]
        /\ UNCHANGED <<exists, rows, listing>>
    BY <1>1 DEF LoadGroup
  <2> QED
    BY <2>1, <2>2 DEF LinksInv, LinksTypeOK, ListFailsOnlyIf, ListOK, LinkCount
<1>2. ASSUME NEW d \in Deletions, DeleteGroup(d)
      PROVE  LinksInv'
  <2> DEFINE g == deletion[d].group
             gone == deletion[d].new = {}
             P == IF gone THEN {p \in Pairs : p[2] = g /\ LinkCount(p) > 0} ELSE {}
  <2>1. /\ exists' = IF gone THEN exists \ {g} ELSE exists
        /\ rows' = [p \in Pairs |-> IF gone /\ p[2] = g THEN [view \in BOOLEAN |-> 0] ELSE rows[p]]
        /\ listing' = [l \in Listings |->
             IF gone /\ listing[l] # None /\ \E p \in listing[l].scope : p[2] = g /\ LinkCount(p) > 0
             THEN [listing[l] EXCEPT !.changed = TRUE] ELSE listing[l]]
        /\ deletion' = [deletion EXCEPT ![d] = None]
    BY <1>2 DEF DeleteGroup
  <2>2. rows \in [Pairs -> [BOOLEAN -> Nat]] /\ listing \in [Listings -> {None} \cup List]
    BY DEF LinksInv, LinksTypeOK, List
  <2>3. rows' \in [Pairs -> [BOOLEAN -> Nat]]
    BY <2>1, <2>2
  <2>4. ASSUME NEW p \in Pairs
        PROVE  /\ p \notin P => LinkCount(p)' = LinkCount(p)
               /\ gone /\ p[2] = g => LinkCount(p)' = 0
               /\ LinkCount(p) = 0 => LinkCount(p)' = 0
    <3>1. CASE gone /\ p[2] = g
      <4>1. rows'[p] = [view \in BOOLEAN |-> 0] /\ rows[p] \in [BOOLEAN -> Nat]
        BY <2>1, <2>2, <3>1
      <4>2. rows'[p][TRUE] + rows'[p][FALSE] = 0 /\ rows[p][TRUE] + rows[p][FALSE] \in Nat
        BY <4>1, CountsOfRows, Zenon
      <4>3. LinkCount(p)' = 0 /\ LinkCount(p) \in Nat
        BY <4>2, Zenon DEF LinkCount
      <4> QED
        BY <3>1, <4>3
    <3>2. CASE ~(gone /\ p[2] = g)
      <4>1. rows'[p] = rows[p]
        BY <2>1, <3>2
      <4> QED
        BY <3>2, <4>1 DEF LinkCount
    <3> QED
      BY <3>1, <3>2
  <2>5. ASSUME NEW l \in Listings
        PROVE  listing'[l] = IF listing[l] # None /\ \E p \in P : p \in listing[l].scope
                             THEN [listing[l] EXCEPT !.changed = TRUE] ELSE listing[l]
    <3>1. CASE listing[l] = None
      BY <2>1, <3>1
    <3>2. CASE listing[l] # None
      <4>1. listing[l].scope \subseteq Pairs
        BY <2>2, <3>2 DEF List
      <4> QED
        BY <2>1, <3>2, <4>1
    <3> QED
      BY <3>1, <3>2
  <2>6. listing' = [l \in Listings |-> listing'[l]] /\ P \in SUBSET Pairs
    BY <2>1
  <2>7. /\ listing' \in [Listings -> {None} \cup List]
        /\ ListFailsOnlyIf'
        /\ \A l \in Listings : ListOK(listing[l])'
    <3>1. \A p \in Pairs \ P : LinkCount(p)' = LinkCount(p)
      BY <2>4
    <3> HIDE DEF P
    <3> QED
      BY <2>3, <2>5, <2>6, <3>1, ChangesAreSeen
  <2>8. \A p \in Pairs : p[2] \notin exists' => LinkCount(p)' = 0
    BY <2>1, <2>4 DEF LinksInv, LinksTypeOK
  <2>9. deletion' \in [Deletions -> {None} \cup
           [pc : {"loaded"}, group : LinkGroups, new : SUBSET Objects]]
    BY <2>1 DEF LinksInv, LinksTypeOK
  <2>10. exists' \subseteq LinkGroups
    BY <2>1 DEF LinksInv, LinksTypeOK
  <2> QED
    BY <2>3, <2>7, <2>8, <2>9, <2>10 DEF LinksInv, LinksTypeOK, List
<1> QED
  BY <1>1, <1>2

LEMMA LinksInvHolds == LinksSpec => []LinksInv
<1>1. LinksInit => LinksInv
  <2> SUFFICES ASSUME LinksInit PROVE LinksInv
    OBVIOUS
  <2>1. \A p \in Pairs : rows[p][TRUE] = 0 /\ rows[p][FALSE] = 0 /\ LinkCount(p) = 0
    BY DEF LinksInit, LinkCount
  <2>2. \A l \in Listings : listing[l] = None
    BY DEF LinksInit
  <2>3. rows \in [Pairs -> [BOOLEAN -> Nat]]
    BY DEF LinksInit
  <2>4. None.pc # "failed" /\ ListOK(None)
    BY DEF None, ListOK
  <2> QED
    BY <2>1, <2>2, <2>3, <2>4 DEF LinksInit, LinksInv, LinksTypeOK, ListFailsOnlyIf
<1>2. ASSUME LinksInv, LinksNext PROVE LinksInv'
  <2>1. ASSUME NEW g \in LinkGroups, DataSourceLinks(g) \/ DashboardLinks(g) \/ QueryLinks(g)
        PROVE  LinksInv'
    BY <1>2, <2>1, RelinksKeepInv DEF DataSourceLinks, DashboardLinks, QueryLinks, Objects
  <2>2. ASSUME NEW l \in Listings, NEW g \in LinkGroups,
               NEW linked \in {DataSources, Dashboards, LinkedQueries}, ListOfGroup(l, g, linked)
        PROVE  LinksInv'
    <3>1. linked \X {g} \in SUBSET Pairs
      BY DEF Pairs, Objects
    <3> QED
      BY <1>2, <2>2, <3>1, ListsKeepInv DEF ListOfGroup
  <2>3. ASSUME NEW l \in Listings, NEW o \in Dashboards \cup LinkedQueries, GroupsOf(l, o)
        PROVE  LinksInv'
    <3>1. {o} \X LinkGroups \in SUBSET Pairs
      BY DEF Pairs, Objects
    <3> QED
      BY <1>2, <2>3, <3>1, ListsKeepInv DEF GroupsOf
  <2>4. ASSUME NEW l \in Listings, (\E p \in Pairs : Found(l, p)) \/ Sent(l)
        PROVE  LinksInv'
    BY <1>2, <2>4, ListsKeepInv
  <2>5. ASSUME NEW d \in Deletions, (\E g \in LinkGroups : LoadGroup(d, g)) \/ DeleteGroup(d)
        PROVE  LinksInv'
    BY <1>2, <2>5, DeletionsKeepInv
  <2> QED
    BY <1>2, <2>1, <2>2, <2>3, <2>4, <2>5 DEF LinksNext
<1>3. LinksInv /\ UNCHANGED linkVars => LinksInv'
  BY DEF linkVars, LinksInv, LinksTypeOK, ListFailsOnlyIf, ListOK, LinkCount
<1> QED
  BY <1>1, <1>2, <1>3, PTL DEF LinksSpec

\* The types of Links: a group that does not exist has no links (groups.py:57-76).
THEOREM LinksTypeCorrect == LinksSpec => []LinksTypeOK
<1>1. LinksInv => LinksTypeOK
  BY DEF LinksInv
<1> QED
  BY <1>1, LinksInvHolds, PTL

\* A list, which is one query and one more for each of its lines, fails only if a
\* pair in its scope is linked twice or was linked or unlinked while the list was
\* made (groups.py:167-183, 304-320, 405-421).
THEOREM ListsFailForAReason == LinksSpec => []ListFailsOnlyIf
<1>1. LinksInv => ListFailsOnlyIf
  BY DEF LinksInv
<1> QED
  BY <1>1, LinksInvHolds, PTL

-----------------------------------------------------------------------------
(* Parameters: what is checked against definitions                         *)

Handled ==
  [pc : {"loaded", "check", "executed", "invalid", "missing", "refused", "error"},
   types : {saved.types, NoTypes}, posted : Posted, todo : SUBSET Tags, invalid : SUBSET Tags,
   orphan : BOOLEAN, chosen : BOOLEAN, stopped : BOOLEAN,
   offered : SUBSET Offerings, lost : SUBSET Offerings]

\* A value that has been checked fits its definition, or did so when a result of
\* the dropdown query was current that the request has lived to see.
Fitting(r, n) ==
  \/ DOMAIN r.types = {}
  \/ /\ n \in DOMAIN r.types
     /\ \/ r.posted[n] \in Allowed(r.types[n])
        \/ r.types[n] = "query" /\ AsText(r.posted[n]) \in r.offered

\* A value that was chosen from a dropdown and that a later result has lacked.
Lost(r, n) == r.types[n] = "query" /\ r.posted[n] \in r.lost

\* A value that a page has offered is what the checks look for.
Sound(r, n) ==
  \/ r.posted[n] \in Allowed(r.types[n])
  \/ /\ r.types[n] = "query" /\ r.posted[n] \in Offerings
     /\ r.posted[n] \in r.lost \cup dropdown.values

AsOffered(r) ==
  /\ WellDefined
  /\ r.types = saved.types
  /\ DOMAIN r.posted = DOMAIN saved.types
  /\ \A n \in DOMAIN r.posted : Sound(r, n)
  /\ \A n \in r.invalid : Lost(r, n)

Excused(r) == r.stopped \/ \E n \in DOMAIN r.posted : Lost(r, n)

\* A value that has been checked is invalid or fits, and one that a page has
\* offered does not fail before a result of the dropdown query has lacked it. What
\* has kept the data source from being run is remembered.
RequestOK(r) ==
  /\ r.todo \subseteq DOMAIN r.posted /\ r.invalid \subseteq DOMAIN r.posted \ r.todo
  /\ dropdown.values \subseteq r.offered
  /\ \A n \in DOMAIN r.posted : n \in r.todo \/ n \in r.invalid \/ Fitting(r, n)
  /\ source # {} \/ r.orphan => r.stopped
  /\ r.pc \in {"loaded", "check"} /\ r.chosen => AsOffered(r)

\* What a page offers is there, or has been missed since.
PageOK ==
  /\ page.shows # "values" => page.offered = {}
  /\ page.offered \subseteq page.lost \cup dropdown.values

ParametersInv ==
  /\ ParametersTypeOK
  /\ dropdown.values # {} => Offers
  /\ PageOK
  /\ posting \in {NoPosting} \cup Handled
  /\ posting # NoPosting => RequestOK(posting)
  /\ TextIsFilled
  /\ OfferedIsAccepted

LEMMA PostedTags ==
  ASSUME NEW posted \in Posted
  PROVE  DOMAIN posted \in SUBSET Tags /\ posted \in [DOMAIN posted -> ValueKinds]
BY DEF Posted

\* A tag is the name of a parameter, or of a part of one.
LEMMA TagsAreShort ==
  ASSUME NEW n \in Tags
  PROVE  \/ Len(n) = 1 /\ n = <<n[1]>> /\ n[1] \in ParameterNames
         \/ Len(n) = 2 /\ n = <<n[1], "start">> /\ n[1] \in ParameterNames
BY DEF Tags, Whole, PartOf

LEMMA SavedTypes ==
  ASSUME saved \in Queries
  PROVE  /\ saved.tags \in SUBSET Tags
         /\ saved.types \in [DOMAIN saved.types -> ParameterTypes]
         /\ DOMAIN saved.types \in SUBSET Tags
BY ParametersAssumption DEF Queries

\* The kinds of a value's type are accepted without an exception.
LEMMA ChoicesAreAllowed ==
  ASSUME NEW type \in ParameterTypes, NEW value \in Choice(type)
  PROVE  \/ value \in Allowed(type)
         \/ type = "query" /\ value \in page.offered
BY DEF ParameterTypes, Choice, Allowed

LEMMA AllowedDoNotRaise ==
  ASSUME NEW type \in ParameterTypes, NEW value \in Allowed(type)
  PROVE  /\ value \notin Raising(type)
         /\ type # "query"
         /\ value = "range" <=> type = "range"
BY ParametersAssumption DEF ParameterTypes, Raising, Allowed, Strings

LEMMA Appending ==
  ASSUME NEW S, NEW s \in Seq(S), NEW e \in S
  PROVE  /\ Len(Append(s, e)) = Len(s) + 1
         /\ \A i \in 1..Len(s) : Append(s, e)[i] = s[i]
OBVIOUS

\* _parameter_names has all tags of the text: each of them has a value.
LEMMA NamedTagsAreFilled ==
  ASSUME NEW posted \in Posted, NEW tag \in Tags, tag \in PartNames(posted)
  PROVE  \/ Rendered(tag, posted) # Blank
         \/ tag \in DOMAIN posted /\ Len(tag) = 2
<1>1. DOMAIN posted \in SUBSET Tags /\ posted \in [DOMAIN posted -> ValueKinds]
  BY PostedTags
<1>2. CASE tag \in DOMAIN posted /\ Len(tag) = 1
  <2>1. Whole(tag[1]) = tag
    BY <1>2, TagsAreShort DEF Whole
  <2> QED
    BY <1>1, <1>2, <2>1 DEF Rendered, Blank, ValueKinds, Strings
<1>3. CASE tag \in DOMAIN posted /\ Len(tag) # 1
  BY <1>3, TagsAreShort
<1>4. ASSUME NEW n \in DOMAIN posted, posted[n] = "range", tag = Append(n, "start")
      PROVE  Rendered(tag, posted) # Blank
  <2>1. ASSUME NEW k \in ParameterNames, n = <<k>>
        PROVE  Rendered(tag, posted) # Blank
    <3>1. n \in Seq({k}) /\ Len(n) = 1 /\ n[1] = k
      BY <2>1
    <3>2. n \in Seq({k, "start"})
      BY <2>1
    <3>3. /\ Len(Append(n, "start")) = Len(n) + 1
          /\ \A i \in 1..Len(n) : Append(n, "start")[i] = n[i]
      BY <3>2, Appending
    <3>5. Len(tag) = 2 /\ tag[1] = k
      BY <1>4, <3>1, <3>3
    <3>4. tag[1] = k /\ Len(tag) = 2 /\ Whole(tag[1]) = n
      BY <2>1, <3>5 DEF Whole
    <3> QED
      BY <1>4, <3>4 DEF Rendered, Blank
  <2>2. ASSUME NEW k \in ParameterNames, n = <<k, "start">>
        PROVE  FALSE
    <3>1. n \in Seq({k, "start"}) /\ Len(n) = 2
      BY <2>2
    <3>2. Len(Append(n, "start")) = Len(n) + 1
      BY <3>1, Appending
    <3>3. Len(tag) = 3
      BY <1>4, <3>1, <3>2
    <3>4. Len(tag) = 1 \/ Len(tag) = 2
      BY TagsAreShort
    <3> QED
      BY <3>3, <3>4
  <2>3. n \in Tags
    BY <1>1
  <2> QED
    BY <2>1, <2>2, <2>3 DEF Tags, Whole, PartOf
<1> QED
  BY <1>2, <1>3, <1>4 DEF PartNames

-----------------------------------------------------------------------------
(* Parameters: the steps                                                   *)

LEMMA HandledIsNotIdle == ASSUME NEW r \in Handled PROVE r # NoPosting
BY DEF Handled, NoPosting

LEMMA HandledTypes ==
  ASSUME saved' \in Queries, source' \subseteq {"paused", "gone"}, dropdown' \in Dropdowns,
         page' \in [shows : {"none", "query", "values"}, offered : SUBSET Offerings,
                    lost : SUBSET Offerings],
         revisions' \in 0..MaxRevisions, posting' \in Handled', RequestOK(posting)'
  PROVE  ParametersTypeOK'
BY DEF ParametersTypeOK, Handled, RequestOK

\* What is remembered of a request only grows, so that an excuse stays one, and a
\* value that fits goes on fitting.
LEMMA ChangesKeepRequests ==
  ASSUME NEW posting1, posting1 = posting', posting \in Handled, posting1 \in Handled',
         RequestOK(posting), TextIsFilled, OfferedIsAccepted,
         UNCHANGED <<saved, posting.pc, posting.types, posting.posted, posting.todo,
                     posting.invalid, posting.orphan, posting.chosen>>,
         dropdown'.values \subseteq posting'.offered,
         posting.offered \subseteq posting'.offered,
         posting.lost \subseteq posting'.lost,
         Offerings \cap (posting.lost \cup dropdown.values)
           \subseteq posting'.lost \cup dropdown'.values,
         posting.stopped => posting'.stopped,
         source' # {} => posting'.stopped
  PROVE  RequestOK(posting)' /\ TextIsFilled' /\ OfferedIsAccepted'
<1>1. \A n \in DOMAIN posting.posted : Fitting(posting, n) => Fitting(posting, n)'
  BY DEF Fitting
<1>2. AsOffered(posting) => AsOffered(posting)'
  <2> SUFFICES ASSUME AsOffered(posting) PROVE AsOffered(posting)'
    OBVIOUS
  <2>1. \A n \in DOMAIN posting.posted : Sound(posting, n)'
    BY DEF AsOffered, Sound
  <2>2. \A n \in posting.invalid : Lost(posting, n)'
    BY DEF AsOffered, Lost
  <2> QED
    BY <2>1, <2>2 DEF AsOffered, WellDefined
<1>3. RequestOK(posting)'
  BY <1>1, <1>2 DEF RequestOK
<1>4. TextIsFilled'
  BY DEF TextIsFilled, Rendered
<1>5. OfferedIsAccepted'
  BY DEF OfferedIsAccepted
<1> QED
  BY <1>3, <1>4, <1>5

\* A page goes on showing what the query and the dropdown query were.
LEMMA OthersKeepParameters ==
  ASSUME ParametersInv,
         \/ \E other \in Queries : EditTemplate(other)
         \/ \E offers \in SUBSET Offerings : NewResult(offers)
         \/ \E now \in SUBSET {"paused", "gone"} : ChangeSource(now)
         \/ Detach \/ ShowQuery \/ ShowDropdown
  PROVE  ParametersInv'
<1>1. ASSUME NEW other \in Queries, EditTemplate(other)
      PROVE  ParametersInv'
  <2>1. /\ saved' = other /\ page' = NoPage /\ revisions' = revisions + 1
        /\ posting = NoPosting /\ UNCHANGED <<source, dropdown, posting>>
        /\ revisions < MaxRevisions
    BY <1>1 DEF EditTemplate, Revised
  <2> QED
    BY <2>1, ParametersAssumption
    DEF ParametersInv, ParametersTypeOK, NoPosting, NoPage, PageOK, Offers, TextIsFilled,
      OfferedIsAccepted
<1>2. ASSUME NEW result \in Dropdowns, result.values # {} => result.attached,
             NewDropdown(result)
      PROVE  ParametersInv'
  <2>1. /\ UNCHANGED <<saved, source>> /\ revisions' = revisions + 1 /\ dropdown' = result
        /\ revisions < MaxRevisions
        /\ page' = IF page.shows # "values" THEN page
                   ELSE [page EXCEPT !.lost = @ \cup (page.offered \ result.values)]
        /\ posting' = IF posting = NoPosting THEN posting
                      ELSE [posting EXCEPT !.lost = @ \cup (Offerings \ result.values),
                                           !.offered = @ \cup result.values]
    BY <1>2 DEF NewDropdown, Revised
  <2>2. dropdown'.values # {} => Offers'
    BY <1>2, <2>1 DEF Dropdowns, Offers
  <2>3. PageOK'
    BY <1>2, <2>1 DEF ParametersInv, ParametersTypeOK, PageOK
  <2>4. ParametersTypeOK' /\ (posting' \in {NoPosting} \cup Handled')
        /\ (posting' # NoPosting => RequestOK(posting)') /\ TextIsFilled' /\ OfferedIsAccepted'
    <3>1. /\ saved' \in Queries /\ source' \subseteq {"paused", "gone"} /\ dropdown' \in Dropdowns
          /\ page' \in [shows : {"none", "query", "values"}, offered : SUBSET Offerings,
                        lost : SUBSET Offerings]
          /\ revisions' \in 0..MaxRevisions
      BY <2>1, ParametersAssumption DEF ParametersInv, ParametersTypeOK
    <3>2. CASE posting = NoPosting
      BY <2>1, <3>1, <3>2 DEF ParametersTypeOK, NoPosting, TextIsFilled, OfferedIsAccepted
    <3>3. CASE posting \in Handled
      <4>1. posting' \in Handled' /\ posting' # NoPosting
        <5>1. posting # NoPosting /\ Handled' = Handled /\ result.values \subseteq Offerings
          BY <2>1, <3>3, HandledIsNotIdle DEF Handled, Dropdowns
        <5>2. posting' \in Handled
          BY <2>1, <3>3, <5>1 DEF Handled
        <5> QED
          BY <5>1, <5>2, HandledIsNotIdle
      <4>2. /\ UNCHANGED <<saved, source, posting.pc, posting.types, posting.posted, posting.todo,
                           posting.invalid, posting.orphan, posting.chosen, posting.stopped>>
            /\ posting'.lost = posting.lost \cup (Offerings \ result.values)
            /\ posting'.offered = posting.offered \cup result.values
        BY <2>1, <3>3 DEF Handled, NoPosting
      <4>3. RequestOK(posting) /\ TextIsFilled /\ OfferedIsAccepted
        BY <3>3 DEF ParametersInv, Handled, NoPosting
      <4>4. source' # {} => posting'.stopped
        BY <4>2, <4>3 DEF RequestOK
      <4>5. RequestOK(posting)' /\ TextIsFilled' /\ OfferedIsAccepted'
        BY <2>1, <3>3, <4>1, <4>2, <4>3, <4>4, ChangesKeepRequests
      <4> QED
        BY <3>1, <3>3, <4>1, <4>5, HandledTypes
    <3> QED
      BY <3>2, <3>3 DEF ParametersInv
  <2> QED
    BY <2>2, <2>3, <2>4 DEF ParametersInv
<1>3. ASSUME NEW offers \in SUBSET Offerings, NewResult(offers)
      PROVE  ParametersInv'
  <2>1. [attached |-> TRUE, ran |-> TRUE, values |-> offers] \in Dropdowns
    BY DEF Dropdowns
  <2> QED
    BY <1>2, <1>3, <2>1 DEF NewResult
<1>4. CASE Detach
  <2>1. [attached |-> FALSE, ran |-> FALSE, values |-> {}] \in Dropdowns
    BY DEF Dropdowns
  <2> QED
    BY <1>2, <1>4, <2>1 DEF Detach
<1>5. CASE ShowQuery
  BY <1>5 DEF ShowQuery, NoPage, ParametersInv, ParametersTypeOK, PageOK, Offers, NoPosting,
    TextIsFilled, OfferedIsAccepted
<1>6. CASE ShowDropdown
  <2>1. /\ page' = [shows |-> "values", offered |-> dropdown.values, lost |-> {}]
        /\ UNCHANGED <<saved, source, dropdown, posting, revisions>>
    BY <1>6 DEF ShowDropdown
  <2>2. dropdown.values \subseteq Offerings
    BY DEF ParametersInv, ParametersTypeOK, Dropdowns
  <2> QED
    BY <2>1, <2>2 DEF ParametersInv, ParametersTypeOK, PageOK, TextIsFilled, OfferedIsAccepted,
      RequestOK, Fitting, Lost, Sound, AsOffered, WellDefined, Offers, Handled, Rendered
<1>7. ASSUME NEW now \in SUBSET {"paused", "gone"}, ChangeSource(now)
      PROVE  ParametersInv'
  <2>1. /\ source' = now /\ UNCHANGED <<saved, dropdown, page>>
        /\ revisions < MaxRevisions /\ revisions' = revisions + 1
        /\ posting' = IF posting = NoPosting THEN posting
                      ELSE [posting EXCEPT !.stopped = @ \/ now # {}]
    BY <1>7 DEF ChangeSource, Revised
  <2>2. /\ saved' \in Queries /\ source' \subseteq {"paused", "gone"} /\ dropdown' \in Dropdowns
        /\ page' \in [shows : {"none", "query", "values"}, offered : SUBSET Offerings,
                      lost : SUBSET Offerings]
        /\ revisions' \in 0..MaxRevisions /\ (dropdown'.values # {} => Offers') /\ PageOK'
    BY <2>1, ParametersAssumption DEF ParametersInv, ParametersTypeOK, PageOK, Offers
  <2>3. CASE posting = NoPosting
    BY <2>1, <2>2, <2>3
    DEF ParametersInv, ParametersTypeOK, NoPosting, TextIsFilled, OfferedIsAccepted
  <2>4. CASE posting \in Handled
    <3>1. (posting.stopped \/ now # {}) \in BOOLEAN
      BY <2>4 DEF Handled
    <3>2. posting' \in Handled' /\ posting' # NoPosting
      <4>1. posting # NoPosting /\ Handled' = Handled
        BY <2>1, <2>4, HandledIsNotIdle DEF Handled
      <4>2. posting' \in Handled
        BY <2>1, <2>4, <3>1, <4>1 DEF Handled
      <4> QED
        BY <4>1, <4>2, HandledIsNotIdle
    <3>3. /\ UNCHANGED <<saved, dropdown, posting.pc, posting.types, posting.posted, posting.todo,
                         posting.invalid, posting.orphan, posting.chosen, posting.offered,
                         posting.lost>>
          /\ posting'.stopped = (posting.stopped \/ now # {})
      BY <2>1, <2>4 DEF Handled, NoPosting
    <3>4. RequestOK(posting) /\ TextIsFilled /\ OfferedIsAccepted
      BY <2>4 DEF ParametersInv, Handled, NoPosting
    <3>5. dropdown'.values \subseteq posting'.offered
      BY <3>3, <3>4 DEF RequestOK
    <3>6. (posting.stopped => posting'.stopped) /\ (source' # {} => posting'.stopped)
      BY <2>1, <3>3
    <3>7. RequestOK(posting)' /\ TextIsFilled' /\ OfferedIsAccepted'
      BY <2>4, <3>2, <3>3, <3>4, <3>5, <3>6, ChangesKeepRequests
    <3> QED
      BY <2>2, <2>4, <3>2, <3>7, HandledTypes DEF ParametersInv
  <2> QED
    BY <2>3, <2>4 DEF ParametersInv
<1> QED
  BY <1>1, <1>3, <1>4, <1>5, <1>6, <1>7

LEMMA PostsKeepParameters ==
  ASSUME ParametersInv,
         NEW posted \in Posted, PostResult(posted) \/ PostRefresh(posted) \/ PostText(posted)
  PROVE  ParametersInv'
<1>1. PICK types \in {saved.types, NoTypes} : Handle(types, posted)
  BY DEF PostResult, PostRefresh, PostText
<1>2. /\ posting' = [pc |-> "loaded", types |-> types, posted |-> posted,
                 todo |-> DOMAIN posted, invalid |-> {}, orphan |-> "gone" \in source,
                 chosen |-> types = saved.types /\ Chosen(posted),
                 stopped |-> source # {}, offered |-> dropdown.values, lost |-> page.lost]
      /\ page' = NoPage /\ UNCHANGED <<saved, source, dropdown, revisions>>
  BY <1>1 DEF Handle
<1>3. DOMAIN posted \in SUBSET Tags
  BY PostedTags
<1>4. (types = saved.types /\ Chosen(posted)) \in BOOLEAN
  BY DEF Chosen, WellDefined
<1>5. dropdown.values \in SUBSET Offerings /\ page.lost \in SUBSET Offerings
  BY DEF ParametersInv, ParametersTypeOK, Dropdowns
<1>6. posting' \in Handled'
  BY <1>2, <1>3, <1>4, <1>5 DEF Handled
<1>7. types = saved.types /\ Chosen(posted) => AsOffered(posting)'
  <2> SUFFICES ASSUME types = saved.types, Chosen(posted) PROVE AsOffered(posting)'
    OBVIOUS
  <2>1. /\ WellDefined /\ DOMAIN posted = DOMAIN saved.types
        /\ \A n \in DOMAIN posted : posted[n] \in Choice(saved.types[n])
    BY DEF Chosen
  <2>2. ASSUME NEW n \in DOMAIN posted
        PROVE  \/ posted[n] \in Allowed(saved.types[n])
               \/ saved.types[n] = "query" /\ posted[n] \in page.offered
    <3>1. saved.types[n] \in ParameterTypes
      BY <2>1, SavedTypes DEF ParametersInv, ParametersTypeOK
    <3> QED
      BY <2>1, <3>1, ChoicesAreAllowed
  <2>3. page.offered \subseteq Offerings /\ page.offered \subseteq page.lost \cup dropdown.values
    BY DEF ParametersInv, ParametersTypeOK, PageOK
  <2>4. \A n \in DOMAIN posted : Sound(posting, n)'
    BY <1>2, <2>1, <2>2, <2>3 DEF Sound
  <2>5. WellDefined'
    BY <1>2, <2>1 DEF WellDefined
  <2> QED
    BY <1>2, <2>1, <2>4, <2>5 DEF AsOffered
<1>8. RequestOK(posting)'
  BY <1>2, <1>7 DEF RequestOK
<1>9. posting' # NoPosting /\ posting'.pc = "loaded"
  BY <1>2 DEF NoPosting
<1>10. PageOK' /\ (dropdown'.values # {} => Offers')
  BY <1>2 DEF PageOK, NoPage, ParametersInv, Offers
<1>11. ParametersTypeOK'
  BY <1>2, <1>5 DEF ParametersInv, ParametersTypeOK, NoPage
<1>12. TextIsFilled' /\ OfferedIsAccepted'
  BY <1>9 DEF TextIsFilled, OfferedIsAccepted
<1> QED
  BY <1>6, <1>8, <1>10, <1>11, <1>12 DEF ParametersInv

\* An answer, or the end of what comes before the checks.
LEMMA AnswersKeepParameters ==
  ASSUME ParametersInv, posting.pc \in {"loaded", "check"}, posting # NoPosting,
         NEW pc \in {"check", "executed", "invalid", "missing", "refused", "error"}, Answers(pc),
         pc = "executed" => /\ posting.todo = {} /\ posting.invalid = {}
                            /\ ~Lacks(posting.posted),
         pc \in {"invalid", "missing", "refused", "error"} /\ posting.chosen => Excused(posting)
  PROVE  ParametersInv'
<1>1. posting \in Handled /\ RequestOK(posting) /\ saved \in Queries
  BY DEF ParametersInv, ParametersTypeOK
<1>2. /\ posting' = [posting EXCEPT !.pc = pc]
      /\ UNCHANGED <<saved, source, dropdown, page, revisions>>
  BY DEF Answers
<1>3. /\ posting'.pc = pc
      /\ UNCHANGED <<posting.types, posting.posted, posting.todo, posting.invalid,
                     posting.orphan, posting.stopped, posting.chosen, posting.offered,
                     posting.lost>>
  BY <1>1, <1>2 DEF Handled
<1>4. posting' \in Handled' /\ posting' # NoPosting
  BY <1>1, <1>2 DEF Handled, NoPosting
<1>5. \A m \in DOMAIN posting.posted : Fitting(posting, m) => Fitting(posting, m)'
  BY <1>3 DEF Fitting
<1>6. AsOffered(posting) => AsOffered(posting)'
  BY <1>2, <1>3 DEF AsOffered, Sound, Lost, WellDefined
<1>7. RequestOK(posting)'
  BY <1>1, <1>2, <1>3, <1>5, <1>6 DEF RequestOK
<1>8. TextIsFilled'
  <2> SUFFICES ASSUME pc = "executed" PROVE TextIsFilled'
    BY <1>3 DEF TextIsFilled
  <2>1. saved.tags \subseteq PartNames(posting.posted) /\ saved.tags \subseteq Tags
    BY <1>1, SavedTypes DEF Lacks
  <2>2. posting.posted \in Posted
    BY <1>1 DEF Handled
  <2>3. \A m \in DOMAIN posting.posted : Fitting(posting, m)
    BY <1>1 DEF RequestOK
  <2>4. ASSUME NEW tag \in saved.tags
        PROVE  \/ Rendered(tag, posting.posted) # Blank
               \/ Len(tag) = 2 /\ tag \in DOMAIN posting.posted
    BY <2>1, <2>2, NamedTagsAreFilled
  <2>5. DOMAIN posting.types # {} => \A m \in DOMAIN posting.posted :
         /\ m \in DOMAIN posting.types
         /\ \/ posting.posted[m] \in Allowed(posting.types[m])
            \/ posting.types[m] = "query" /\ AsText(posting.posted[m]) \in posting.offered
    BY <2>3 DEF Fitting
  <2> QED
    BY <1>2, <1>3, <2>4, <2>5 DEF TextIsFilled, Rendered
<1>9. OfferedIsAccepted'
  BY <1>3 DEF OfferedIsAccepted, Excused, Lost
<1>10. ParametersTypeOK'
  BY <1>1, <1>2, <1>3 DEF ParametersInv, ParametersTypeOK, Handled
<1>11. PageOK' /\ (dropdown'.values # {} => Offers')
  BY <1>2 DEF ParametersInv, PageOK, Offers
<1> QED
  BY <1>4, <1>7, <1>8, <1>9, <1>10, <1>11 DEF ParametersInv

LEMMA ChecksKeepParameters ==
  ASSUME ParametersInv, NEW n \in Tags, CheckValue(n)
  PROVE  ParametersInv'
<1>1. /\ posting.pc = "check" /\ n \in posting.todo
      /\ UNCHANGED <<saved, source, dropdown, page, revisions>>
  BY DEF CheckValue, Answers
<1>2. posting \in Handled /\ RequestOK(posting) /\ n \in DOMAIN posting.posted
      /\ posting # NoPosting
  BY <1>1 DEF ParametersInv, NoPosting, RequestOK
<1>3. posting.chosen => (Suits(n) /\ ~Raises(n)) \/ Lost(posting, n)
  <2> SUFFICES ASSUME posting.chosen, ~Lost(posting, n) PROVE Suits(n) /\ ~Raises(n)
    OBVIOUS
  <2>1. AsOffered(posting)
    BY <1>1, <1>2 DEF RequestOK
  <2>2. n \in DOMAIN saved.types /\ posting.types = saved.types /\ Sound(posting, n)
    BY <1>2, <2>1 DEF AsOffered
  <2>3. saved.types[n] \in ParameterTypes
    BY <2>2, SavedTypes DEF ParametersInv, ParametersTypeOK
  <2>4. dropdown.values # {} => Offers
    BY DEF ParametersInv
  <2>5. CASE posting.posted[n] \in Allowed(saved.types[n])
    <3>1. posting.posted[n] \notin Raising(saved.types[n]) /\ saved.types[n] # "query"
      BY <2>3, <2>5, AllowedDoNotRaise
    <3> QED
      BY <2>2, <2>5, <3>1 DEF Suits, Raises, Defined
  <2>6. CASE /\ saved.types[n] = "query" /\ posting.posted[n] \in Offerings
             /\ posting.posted[n] \in dropdown.values
    <3>1. AsText(posting.posted[n]) = posting.posted[n]
      BY <2>6 DEF AsText, Offerings
    <3>2. Raising(saved.types[n]) = {} /\ Offers
      BY <2>4, <2>6 DEF Raising
    <3> QED
      BY <2>2, <2>6, <3>1, <3>2 DEF Suits, Raises, Defined
  <2> QED
    BY <2>2, <2>5, <2>6 DEF Sound, Lost
<1>4. CASE Raises(n)
  <2>1. Answers("error")
    BY <1>4 DEF CheckValue
  <2>2. posting.chosen => Excused(posting)
    BY <1>2, <1>3, <1>4 DEF Excused
  <2> QED
    BY <1>1, <1>2, <2>1, <2>2, AnswersKeepParameters
<1>5. CASE ~Raises(n)
  <2>1. posting' = [posting EXCEPT !.todo = @ \ {n},
                      !.invalid = IF Suits(n) THEN @ ELSE @ \cup {n}]
    BY <1>5 DEF CheckValue
  <2>2. posting' \in Handled /\ posting' # NoPosting
    BY <1>2, <2>1 DEF Handled, NoPosting
  <2>3. /\ UNCHANGED <<posting.pc, posting.types, posting.posted, posting.orphan,
                       posting.stopped, posting.chosen, posting.offered, posting.lost>>
        /\ posting'.todo = posting.todo \ {n}
        /\ posting'.invalid = IF Suits(n) THEN posting.invalid ELSE posting.invalid \cup {n}
    BY <1>2, <2>1 DEF Handled
  <2>4. Suits(n) => Fitting(posting, n)
    BY <1>2 DEF Suits, Fitting, Defined, RequestOK
  <2>5. \A m \in DOMAIN posting.posted : Fitting(posting, m) => Fitting(posting, m)'
    BY <2>3 DEF Fitting
  <2>6. AsOffered(posting) /\ (Suits(n) \/ Lost(posting, n)) => AsOffered(posting)'
    BY <1>1, <2>3 DEF AsOffered, Sound, Lost, WellDefined
  <2>7. posting.chosen => Suits(n) \/ Lost(posting, n)
    BY <1>3
  <2>8. RequestOK(posting)'
    BY <1>1, <1>2, <2>3, <2>4, <2>5, <2>6, <2>7 DEF RequestOK
  <2>9. Handled' = Handled
    BY <1>1 DEF Handled
  <2>10. ParametersTypeOK'
    <3>1. /\ posting'.types \in {saved.types, NoTypes} /\ posting'.posted \in Posted
          /\ posting'.pc = "check"
      BY <1>1, <1>2, <2>3 DEF Handled
    <3>2. posting'.invalid \subseteq DOMAIN posting'.posted \ posting'.todo
      BY <2>8 DEF RequestOK
    <3> QED
      BY <1>1, <3>1, <3>2 DEF ParametersInv, ParametersTypeOK
  <2>11. PageOK' /\ (dropdown'.values # {} => Offers')
    BY <1>1 DEF ParametersInv, PageOK, Offers
  <2>12. TextIsFilled' /\ OfferedIsAccepted'
    BY <1>1, <2>3 DEF TextIsFilled, OfferedIsAccepted
  <2> QED
    BY <2>2, <2>8, <2>9, <2>10, <2>11, <2>12 DEF ParametersInv
<1> QED
  BY <1>4, <1>5

\* A page offers one value for each parameter, and every tag is one of them.
LEMMA OfferedAreNamed ==
  ASSUME ParametersInv, posting \in Handled, AsOffered(posting)
  PROVE  ~Lacks(posting.posted)
<1>1. saved \in Queries
  BY DEF ParametersInv, ParametersTypeOK
<1>2. ASSUME NEW n \in DOMAIN saved.types
      PROVE  /\ n \in DOMAIN posting.posted
             /\ posting.posted[n] = "range" <=> saved.types[n] = "range"
  <2>1. /\ saved.types[n] \in ParameterTypes
        /\ n \in DOMAIN posting.posted /\ posting.types = saved.types /\ Sound(posting, n)
    BY <1>1, SavedTypes DEF AsOffered
  <2>2. CASE posting.posted[n] \in Allowed(saved.types[n])
    BY <2>1, <2>2, AllowedDoNotRaise
  <2>3. CASE saved.types[n] = "query" /\ posting.posted[n] \in Offerings
    BY <2>1, <2>3 DEF Offerings
  <2> QED
    BY <2>1, <2>2, <2>3 DEF Sound
<1>3. ASSUME NEW tag \in saved.tags
      PROVE  tag \in PartNames(posting.posted)
  <2>1. CASE tag \in DOMAIN saved.types /\ saved.types[tag] # "range"
    BY <1>2, <2>1 DEF PartNames
  <2>2. ASSUME NEW k \in ParameterNames, tag = PartOf(k), Whole(k) \in DOMAIN saved.types,
               saved.types[Whole(k)] = "range"
        PROVE  tag \in PartNames(posting.posted)
    <3>1. tag = Append(Whole(k), "start")
      BY <2>2 DEF Whole, PartOf
    <3> QED
      BY <1>2, <2>2, <3>1 DEF PartNames
  <2> QED
    BY <2>1, <2>2 DEF AsOffered, WellDefined
<1> QED
  BY <1>3 DEF Lacks

LEMMA EndsKeepParameters ==
  ASSUME ParametersInv, Admit \/ Reject \/ Miss \/ Execute \/ Close
  PROVE  ParametersInv'
<1>1. posting # NoPosting => posting \in Handled /\ RequestOK(posting)
  BY DEF ParametersInv
<1>2. CASE Admit
  <2>1. posting.pc = "loaded" /\ posting # NoPosting
    BY <1>2 DEF Admit, NoPosting
  <2>2. posting.orphan \/ "paused" \in source => Excused(posting)
    BY <1>1, <2>1 DEF RequestOK, Excused
  <2>3. CASE posting.orphan
    BY <1>2, <2>1, <2>2, <2>3, AnswersKeepParameters DEF Admit
  <2>4. CASE ~posting.orphan /\ "paused" \in source
    BY <1>2, <2>1, <2>2, <2>4, AnswersKeepParameters DEF Admit
  <2>5. CASE ~posting.orphan /\ "paused" \notin source
    BY <1>2, <2>1, <2>5, AnswersKeepParameters DEF Admit
  <2> QED
    BY <2>3, <2>4, <2>5
<1>3. CASE Reject
  <2>1. /\ posting.pc = "check" /\ posting.invalid # {} /\ Answers("invalid")
        /\ posting # NoPosting
    BY <1>3 DEF Reject, NoPosting
  <2>2. posting.chosen => Excused(posting)
    BY <1>1, <2>1 DEF AsOffered, RequestOK, Excused
  <2> QED
    BY <2>1, <2>2, AnswersKeepParameters
<1>4. CASE Miss
  <2>1. /\ posting.pc = "check" /\ Lacks(posting.posted) /\ Answers("missing")
        /\ posting # NoPosting
    BY <1>4 DEF Miss, NoPosting
  <2>2. ~posting.chosen
    BY <1>1, <2>1, OfferedAreNamed DEF RequestOK, Handled
  <2> QED
    BY <2>1, <2>2, AnswersKeepParameters
<1>5. CASE Execute
  <2>1. posting.pc = "check" /\ posting # NoPosting
    BY <1>5 DEF Execute, NoPosting
  <2> QED
    BY <1>5, <2>1, AnswersKeepParameters DEF Execute
<1>6. CASE Close
  BY <1>6 DEF Close, ParametersInv, ParametersTypeOK, NoPosting, TextIsFilled,
    OfferedIsAccepted, Offers, PageOK
<1> QED
  BY <1>2, <1>3, <1>4, <1>5, <1>6

LEMMA ParametersInvHolds == ParametersSpec => []ParametersInv
<1>1. ParametersInit => ParametersInv
  BY ParametersAssumption DEF ParametersInit, ParametersInv, ParametersTypeOK, NoPosting, NoPage,
    PageOK, Offers, Dropdowns, TextIsFilled, OfferedIsAccepted
<1>2. ASSUME ParametersInv, ParametersNext PROVE ParametersInv'
  <2>1. CASE \/ \E other \in Queries : EditTemplate(other)
             \/ \E offers \in SUBSET Offerings : NewResult(offers)
             \/ \E now \in SUBSET {"paused", "gone"} : ChangeSource(now)
             \/ Detach \/ ShowQuery \/ ShowDropdown
    BY <1>2, <2>1, OthersKeepParameters
  <2>2. CASE \E posted \in Posted : PostResult(posted) \/ PostRefresh(posted) \/ PostText(posted)
    BY <1>2, <2>2, PostsKeepParameters
  <2>3. CASE \E n \in Tags : CheckValue(n)
    BY <1>2, <2>3, ChecksKeepParameters
  <2>4. CASE Admit \/ Reject \/ Miss \/ Execute \/ Close
    BY <1>2, <2>4, EndsKeepParameters
  <2> QED
    BY <1>2, <2>1, <2>2, <2>3, <2>4 DEF ParametersNext
<1>3. ParametersInv /\ UNCHANGED parameterVars => ParametersInv'
  <2> SUFFICES ASSUME ParametersInv, UNCHANGED parameterVars PROVE ParametersInv'
    OBVIOUS
  <2>1. UNCHANGED <<saved, source, dropdown, page, posting, revisions>>
    BY DEF parameterVars
  <2>2. RequestOK(posting) => RequestOK(posting)'
    BY <2>1 DEF RequestOK, Fitting, AsOffered, Sound, Lost, WellDefined
  <2> QED
    BY <2>1, <2>2 DEF ParametersInv, ParametersTypeOK, Handled, TextIsFilled, OfferedIsAccepted,
      Offers, PageOK, Rendered
<1> QED
  BY <1>1, <1>2, <1>3, PTL DEF ParametersSpec

\* The types of Parameters.
THEOREM ParametersTypeCorrect == ParametersSpec => []ParametersTypeOK
<1>1. ParametersInv => ParametersTypeOK
  BY DEF ParametersInv
<1> QED
  BY <1>1, ParametersInvHolds, PTL

\* In a text that is run every tag has a value, unless one was posted under a name
\* with a dot; and every value fits the definition of its name, if there are
\* definitions (parameterized_query.py:107-152).
THEOREM TextsAreFilled == ParametersSpec => []TextIsFilled
<1>1. ParametersInv => TextIsFilled
  BY DEF ParametersInv
<1> QED
  BY <1>1, ParametersInvHolds, PTL

\* What a page has offered is run, also if results of the dropdown query have
\* arrived since, unless one of them lacked a chosen value, or the data source was
\* paused or gone (query_results.py:22-42, 111-123).
THEOREM OffersAreAccepted == ParametersSpec => []OfferedIsAccepted
<1>1. ParametersInv => OfferedIsAccepted
  BY DEF ParametersInv
<1> QED
  BY <1>1, ParametersInvHolds, PTL

=============================================================================
