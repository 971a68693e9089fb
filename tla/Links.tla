------------------------------- MODULE Links -------------------------------
(***************************************************************************)
(* The links of data sources, dashboards and queries to groups: the tables *)
(* data_source_groups, dashboard_groups and query_groups. Nothing makes a  *)
(* pair unique, so that adding a link twice makes two rows, while changing *)
(* its view_only flag and listing it expect exactly one. Listing is a      *)
(* query for the pairs and one more for each of them, and the deletion of  *)
(* a group loads the links that it deletes with it. Who is a member of a   *)
(* group is the matter of Groups.                                          *)
(***************************************************************************)
EXTENDS Naturals, FiniteSetsExt

CONSTANTS
  DataSources, Dashboards, LinkedQueries,  \* the objects that are linked
  LinkGroups,    \* the groups
  Listings,      \* requests for a list, at a time
  Deletions,     \* deletions of groups, at a time
  MaxLinks       \* bound: the rows of all the tables

ASSUME LinksAssumption == MaxLinks \in Nat

Objects == DataSources \cup Dashboards \cup LinkedQueries
Pairs == Objects \X LinkGroups

VARIABLES
  exists,    \* the groups there are
  rows,      \* the number of rows of each pair, by view_only
  listing,   \* the lists being made; `changed` is history
  deletion   \* the groups being deleted

linkVars == <<exists, rows, listing, deletion>>

LinkCount(p) == rows[p][TRUE] + rows[p][FALSE]

None == [pc |-> "none"]

LinksInit ==
  /\ exists = LinkGroups
  /\ rows = [p \in Pairs |-> [view \in BOOLEAN |-> 0]]
  /\ listing = [l \in Listings |-> None]
  /\ deletion = [d \in Deletions |-> None]

\* The lists being made in whose scope the pair is have seen it change.
Disturb(p) ==
  listing' = [l \in Listings |->
    IF listing[l] # None /\ p \in listing[l].scope
    THEN [listing[l] EXCEPT !.changed = TRUE] ELSE listing[l]]

\* Which new links hold a group that is being deleted.
Hold(g, S(_)) ==
  deletion' = [d \in Deletions |->
    IF deletion[d] # None /\ deletion[d].group = g
    THEN [deletion[d] EXCEPT !.new = S(@)] ELSE deletion[d]]

-----------------------------------------------------------------------------
(* Adding, changing and removing a link                                    *)

\* add_group of each model, or the creation of a data source with the group of
\* the administrators: a row, whether there is one or not. The group must be
\* there at the commit.
AddLink(o, g) ==
  /\ g \in exists
  /\ MapThenSumSet(LinkCount, Pairs) < MaxLinks
  /\ rows' = [rows EXCEPT ![<<o, g>>][FALSE] = @ + 1]
  /\ Hold(g, LAMBDA new : new \cup {o})
  /\ Disturb(<<o, g>>)
  /\ UNCHANGED exists

\* Mutant: a row with the flag is added to the one there is.
UpdateByInsert(o, g, view_only) ==
  /\ g \in exists
  /\ LinkCount(<<o, g>>) = 1
  /\ rows' = [rows EXCEPT ![<<o, g>>][view_only] = @ + 1]
  /\ UNCHANGED <<exists, listing, deletion>>

\* update_group_permission: one() raises unless there is exactly one row.
UpdateLink(o, g, view_only) ==
  /\ g \in exists
  /\ LinkCount(<<o, g>>) = 1
  /\ rows' = [rows EXCEPT ![<<o, g>>] =
       [view \in BOOLEAN |-> IF view = view_only THEN 1 ELSE 0]]
  /\ UNCHANGED <<exists, listing, deletion>>

\* remove_group: one DELETE of all the rows of the pair.
RemoveLink(o, g) ==
  /\ g \in exists
  /\ LinkCount(<<o, g>>) > 0
  /\ rows' = [rows EXCEPT ![<<o, g>>] = [view \in BOOLEAN |-> 0]]
  /\ Hold(g, LAMBDA new : new \ {o})
  /\ Disturb(<<o, g>>)
  /\ UNCHANGED exists

Relink(o, g) ==
  \/ AddLink(o, g)
  \/ RemoveLink(o, g)
  \/ \E view \in BOOLEAN : UpdateLink(o, g, view)

\* The resources of a group, one pair of classes for each kind of object.
DataSourceLinks(g) == \E o \in DataSources : Relink(o, g)
DashboardLinks(g) == \E o \in Dashboards : Relink(o, g)
QueryLinks(g) == \E o \in LinkedQueries : Relink(o, g)

-----------------------------------------------------------------------------
(* Lists                                                                   *)

\* The pairs of the scope that are linked; to each of them a further query
\* with one() is made later. Several rows of a pair yield one object.
Start(l, scope) ==
  /\ listing[l] = None
  /\ listing' = [listing EXCEPT ![l] =
       [pc |-> "open", scope |-> scope, todo |-> {p \in scope : LinkCount(p) > 0},
        twice |-> \E p \in scope : LinkCount(p) > 1, changed |-> FALSE]]
  /\ UNCHANGED <<exists, rows, deletion>>

\* The dashboards of a group, and so for data sources and queries:
\* to_dict(with_permissions_for=group).
ListOfGroup(l, g, kind) ==
  /\ g \in exists
  /\ Start(l, kind \X {g})

\* The groups of a dashboard or a query.
GroupsOf(l, o) == Start(l, {o} \X LinkGroups)

\* one() on the link of the pair: an internal error unless there is one row.
Found(l, p) ==
  /\ listing[l].pc = "open"
  /\ p \in listing[l].todo
  /\ listing' = [listing EXCEPT ![l].todo = @ \ {p},
       ![l].pc = IF LinkCount(p) = 1 THEN @ ELSE "failed"]
  /\ UNCHANGED <<exists, rows, deletion>>

\* The list is sent, or the error.
Sent(l) ==
  /\ listing[l] # None
  /\ listing[l].todo = {} \/ listing[l].pc = "failed"
  /\ listing' = [listing EXCEPT ![l] = None]
  /\ UNCHANGED <<exists, rows, deletion>>

-----------------------------------------------------------------------------
(* Deleting a group                                                        *)

\* session.delete(group) loads the links, which go with it (cascade).
LoadGroup(d, g) ==
  /\ deletion[d] = None
  /\ g \in exists
  /\ deletion' = [deletion EXCEPT ![d] = [pc |-> "loaded", group |-> g, new |-> {}]]
  /\ UNCHANGED <<exists, rows, listing>>

\* The links it has loaded are deleted one by one, then the group; a link made
\* since then refers to the group, and the transaction fails.
DeleteGroup(d) ==
  /\ deletion[d] # None
  /\ deletion' = [deletion EXCEPT ![d] = None]
  /\ LET g == deletion[d].group
         gone == deletion[d].new = {}
     IN /\ exists' = IF gone THEN exists \ {g} ELSE exists
        /\ rows' = [p \in Pairs |->
             IF gone /\ p[2] = g THEN [view \in BOOLEAN |-> 0] ELSE rows[p]]
        /\ listing' = [l \in Listings |->
             IF gone /\ listing[l] # None /\ \E p \in listing[l].scope : p[2] = g /\ LinkCount(p) > 0
             THEN [listing[l] EXCEPT !.changed = TRUE] ELSE listing[l]]

-----------------------------------------------------------------------------
LinksNext ==
  \/ \E g \in LinkGroups : DataSourceLinks(g) \/ DashboardLinks(g) \/ QueryLinks(g)
  \/ \E l \in Listings :
       \/ \E g \in LinkGroups, kind \in {DataSources, Dashboards, LinkedQueries} : ListOfGroup(l, g, kind)
       \/ \E o \in Dashboards \cup LinkedQueries : GroupsOf(l, o)
       \/ \E p \in Pairs : Found(l, p)
       \/ Sent(l)
  \/ \E d \in Deletions : (\E g \in LinkGroups : LoadGroup(d, g)) \/ DeleteGroup(d)

LinksSpec == LinksInit /\ [][LinksNext]_linkVars

-----------------------------------------------------------------------------
(* Properties                                                              *)

\* The types of the state; a group that does not exist has no links.
LinksTypeOK ==
  /\ exists \subseteq LinkGroups
  /\ rows \in [Pairs -> [BOOLEAN -> Nat]]
  /\ \A p \in Pairs : p[2] \notin exists => LinkCount(p) = 0
  /\ listing \in [Listings -> {None} \cup
       [pc : {"open", "failed"}, scope : SUBSET Pairs, todo : SUBSET Pairs,
        twice : BOOLEAN, changed : BOOLEAN]]
  /\ deletion \in [Deletions -> {None} \cup
       [pc : {"loaded"}, group : LinkGroups, new : SUBSET Objects]]

\* A list is a query and one more per line (groups.py:167-183, 304-320,
\* 405-421): it fails only if a pair in its scope is linked twice or was linked
\* or unlinked, by a request or with its group, while the list was made.
ListFailsOnlyIf ==
  \A l \in Listings : listing[l].pc = "failed" => listing[l].twice \/ listing[l].changed

=============================================================================
