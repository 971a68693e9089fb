------------------------------- MODULE Groups -------------------------------
(***************************************************************************)
(* The groups of an organization and their members. A user's groups are    *)
(* the array users.group_ids: the handlers that add or remove a member,    *)
(* set the groups of a user, or delete a group read the whole array, change *)
(* the copy and write it back, in a transaction that sees what others       *)
(* commit in between (READ COMMITTED) and checks no version. Nothing in the *)
(* database ties the array to the groups table. Users are never deleted.   *)
(* require_admin lets every request pass, since it tests the method        *)
(* is_api_user and not its value; the checks written out in the handlers   *)
(* are guards below.                                                       *)
(***************************************************************************)
EXTENDS Naturals, Functions

CONSTANTS
  Users,
  Groups,
  Builtin,     \* the group of type builtin, that of the administrators
  Requests,    \* requests that change members, at a time
  MaxLength    \* bound: the length of an array to which a group is added

ASSUME GroupsAssumption == Builtin \in Groups /\ MaxLength \in Nat

VARIABLES
  kind,      \* the groups: unborn, deleted, or their permissions
  groupIds,  \* the array of each user: how often each group occurs in it
  change,    \* the requests being handled
  asked,     \* history: the groups of each user if requests came one by one
  excused    \* history: users whose array was written from a stale copy

groupVars == <<kind, groupIds, change, asked, excused>>

Array == [Groups -> Nat]

Idle == [op |-> "idle"]

Length(a) == SumFunction(a)

ArrayOf(S) == [g \in Groups |-> IF g \in S THEN 1 ELSE 0]

GroupsInit ==
  /\ kind = [g \in Groups |-> IF g = Builtin THEN "super" ELSE "unborn"]
  /\ asked \in [Users -> SUBSET {Builtin}]
  /\ groupIds = [u \in Users |-> ArrayOf(asked[u])]
  /\ change = [r \in Requests |-> Idle]
  /\ excused = {}

Live == {g \in Groups : kind[g] \in {"user", "admin", "super"}}

\* Group.members
Members(g) == {u \in Users : groupIds[u][g] > 0}

\* has_permission('admin'): of one of the groups in the array that exist.
IsAdmin(u) == \E g \in Groups : u \in Members(g) /\ kind[g] \in {"admin", "super"}

-----------------------------------------------------------------------------
(* The requests read ...                                                   *)

CreateGroup(g, permissions) ==
  /\ kind[g] = "unborn"
  /\ kind' = [kind EXCEPT ![g] = permissions]
  /\ UNCHANGED <<groupIds, change, asked, excused>>

\* The command line: the permissions of any group, the builtin one too.
ChangePermissions(g, permissions) ==
  /\ g \in Live
  /\ kind' = [kind EXCEPT ![g] = permissions]
  /\ UNCHANGED <<groupIds, change, asked, excused>>

\* A request about one user has read that user's array.
Read(r, op, u, g, to) ==
  /\ change[r] = Idle
  /\ change' = [change EXCEPT ![r] =
       [op |-> op, user |-> u, group |-> g, to |-> to, seen |-> groupIds[u]]]
  /\ UNCHANGED <<kind, groupIds, asked, excused>>

\* GroupMemberListResource.post: the user, then the group, which must exist.
ReadAdd(r, u, g) ==
  /\ g \in Live
  /\ Length(groupIds[u]) < MaxLength
  /\ Read(r, "add", u, g, {g})

\* grant_admin of the command line, for a user who is not in the group yet.
GrantAdmin(r, u) ==
  /\ u \notin Members(Builtin)
  /\ ReadAdd(r, u, Builtin)

\* GroupMemberResource.delete does not look for the group; list.remove raises
\* when the array does not hold it.
ReadRemove(r, u, g) ==
  /\ u \in Members(g)
  /\ Read(r, "remove", u, g, {g})

\* UserResource.post with group_ids: all of them must exist.
ReadSet(r, by, u, S) ==
  /\ IsAdmin(by)
  /\ S \subseteq Live
  /\ Read(r, "set", u, Builtin, S)

\* Mutant: a builtin group is like any other.
ReadDeleteAny(r, g) ==
  /\ change[r] = Idle
  /\ g \in Live
  /\ change' = [change EXCEPT ![r] =
       [op |-> "delete", group |-> g, seen |-> [u \in Members(g) |-> groupIds[u]]]]
  /\ UNCHANGED <<kind, groupIds, asked, excused>>

\* GroupResource.delete has read the group and the arrays of its members.
ReadDelete(r, g) ==
  /\ change[r] = Idle
  /\ g \in Live \ {Builtin}
  /\ change' = [change EXCEPT ![r] =
       [op |-> "delete", group |-> g, seen |-> [u \in Members(g) |-> groupIds[u]]]]
  /\ UNCHANGED <<kind, groupIds, asked, excused>>

-----------------------------------------------------------------------------
(* ... and write what they made of the copy over whatever is there.        *)

\* list.append, list.remove (the first occurrence), or an assignment.
Appended(a, g) == [a EXCEPT ![g] = @ + 1]
Removed(a, g) == [a EXCEPT ![g] = @ - 1]

Changed(c) ==
  CASE c.op = "add" -> Appended(c.seen, c.group)
    [] c.op = "remove" -> Removed(c.seen, c.group)
    [] OTHER -> ArrayOf(c.to)

\* What the user's groups are to be once the request has been served.
Wanted(c) ==
  CASE c.op = "add" -> asked[c.user] \cup c.to
    [] c.op = "remove" -> asked[c.user] \ c.to
    [] OTHER -> c.to

\* An array equal to the one that was read is not written.
Written(c) == IF Changed(c) = c.seen THEN groupIds[c.user] ELSE Changed(c)

\* The copy is out of date, or the group was in it before it was added, or
\* it no longer exists. A set that is written makes up for earlier spoils.
Spoils(c) ==
  \/ groupIds[c.user] # c.seen /\ (c.op = "set" => Changed(c) = c.seen)
  \/ c.op = "add" /\ c.seen[c.group] > 0
  \/ c.op # "remove" /\ ~(c.to \subseteq Live)

CommitMember(r) ==
  LET c == change[r]
  IN /\ c.op \in {"add", "remove", "set"}
     /\ groupIds' = [groupIds EXCEPT ![c.user] = Written(c)]
     /\ change' = [change EXCEPT ![r] = Idle]
     /\ asked' = [asked EXCEPT ![c.user] = Wanted(c)]
     /\ excused' = IF Spoils(c) THEN excused \cup {c.user}
                   ELSE IF c.op = "set" THEN excused \ {c.user} ELSE excused
     /\ UNCHANGED kind

\* Whose array still holds the group afterwards, or had changed meanwhile.
Missed(c) ==
  {u \in Users : IF u \in DOMAIN c.seen THEN groupIds[u] # c.seen[u] ELSE u \in Members(c.group)}

\* Mutant: the members keep the deleted group in their arrays.
CommitDeleteForgetful(r) ==
  LET c == change[r]
  IN /\ c.op = "delete"
     /\ change' = [change EXCEPT ![r] = Idle]
     /\ kind' = [kind EXCEPT ![c.group] = "deleted"]
     /\ asked' = [u \in Users |-> asked[u] \ {c.group}]
     /\ excused' = excused \cup Missed(c)
     /\ UNCHANGED groupIds

\* A group that somebody else has deleted in between is deleted once more:
\* only a warning.
CommitDelete(r) ==
  LET c == change[r]
  IN /\ c.op = "delete"
     /\ groupIds' = [u \in Users |->
          IF u \in DOMAIN c.seen THEN Removed(c.seen[u], c.group) ELSE groupIds[u]]
     /\ change' = [change EXCEPT ![r] = Idle]
     /\ kind' = [kind EXCEPT ![c.group] = "deleted"]
     /\ asked' = [u \in Users |-> asked[u] \ {c.group}]
     /\ excused' = excused \cup Missed(c)

\* The request fails before its commit (a deletion when a new link holds the
\* group, see Links): the session is dropped.
Rollback(r) ==
  /\ change[r] # Idle
  /\ change' = [change EXCEPT ![r] = Idle]
  /\ UNCHANGED <<kind, groupIds, asked, excused>>

-----------------------------------------------------------------------------
GroupsNext ==
  \/ \E g \in Groups, p \in {"user", "admin"} : CreateGroup(g, p) \/ ChangePermissions(g, p)
  \/ \E r \in Requests :
       \/ \E u \in Users, g \in Groups : ReadAdd(r, u, g) \/ ReadRemove(r, u, g)
       \/ \E u \in Users : GrantAdmin(r, u)
       \/ \E by \in Users, u \in Users, S \in SUBSET Groups : ReadSet(r, by, u, S)
       \/ \E g \in Groups : ReadDelete(r, g)
       \/ CommitMember(r) \/ CommitDelete(r) \/ Rollback(r)

GroupsSpec == GroupsInit /\ [][GroupsNext]_groupVars

-----------------------------------------------------------------------------
(* Properties                                                              *)

MemberChange ==
  [op : {"add", "remove", "set"}, user : Users, group : Groups,
   to : SUBSET Groups, seen : Array]

IsDeletion(c) ==
  /\ c = [op |-> "delete", group |-> c.group, seen |-> c.seen]
  /\ c.group \in Groups \ {Builtin}
  /\ DOMAIN c.seen \subseteq Users
  /\ c.seen \in [DOMAIN c.seen -> Array]
  /\ \A u \in DOMAIN c.seen : c.seen[u][c.group] > 0

\* The types of the state: a copy that is to lose a group holds it, and the
\* builtin group is never deleted.
GroupsTypeOK ==
  /\ kind \in [Groups -> {"unborn", "user", "admin", "super", "deleted"}]
  /\ Builtin \in Live
  /\ groupIds \in [Users -> Array]
  /\ asked \in [Users -> SUBSET Groups]
  /\ excused \subseteq Users
  /\ change = [r \in Requests |-> change[r]]
  /\ \A r \in Requests :
       change[r] = Idle \/ change[r] \in MemberChange \/ IsDeletion(change[r])
  /\ \A r \in Requests : change[r].op \in {"add", "remove"} => change[r].to = {change[r].group}
  /\ \A r \in Requests : change[r].op = "remove" => change[r].seen[change[r].group] > 0

\* groups.py:87-140, users.py:323-338: however requests overlap, a user whose
\* own array was not written from a stale copy, nor given a group twice or
\* after its deletion, is in exactly the groups that the requests asked for,
\* and all of them exist.
GroupsAsRequested ==
  \A u \in Users \ excused :
    {g \in Groups : groupIds[u][g] > 0} = asked[u] /\ asked[u] \subseteq Live

=============================================================================
