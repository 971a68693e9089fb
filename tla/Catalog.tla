------------------------------ MODULE Catalog ------------------------------
(***************************************************************************)
(* The lists of queries, dashboards and visualizations, and a client that   *)
(* walks through the pages of one. Each page is a request of its own, which *)
(* counts the rows and then selects a window of them, while others rename,  *)
(* archive, publish or link what is listed. A list may join a table that    *)
(* has several rows per object, and only some lists are made distinct; the  *)
(* order between objects with the same sort key is the database's, anew for *)
(* each request.                                                            *)
(***************************************************************************)
EXTENDS Naturals, FiniteSetsExt

CONSTANTS
  Items,     \* the objects that may be listed
  Own,       \* those of the user that walks
  Lists,     \* the lists that are walked, of those named in RowsOf
  SortKeys,  \* the values of the column that orders the list
  PageSize,
  MaxLinked, \* bound: links of an object to groups
  MaxEdits   \* bound: the changes that others make

ASSUME CatalogAssumption ==
  /\ IsFiniteSet(Items)
  /\ Own \subseteq Items /\ SortKeys \subseteq Nat
  /\ PageSize \in Nat \ {0} /\ MaxLinked \in Nat \ {0} /\ MaxEdits \in Nat

VARIABLES
  item,   \* the columns of each object, and the links to it
  walk,   \* the client; `free` is history: what it need not have seen
  edits   \* the changes so far

catalogVars == <<item, walk, edits>>

AtHome == [pc |-> "home"]

CatalogInit ==
  /\ item \in [Items -> [key : SortKeys, archived : {FALSE}, draft : {FALSE}, source : {TRUE},
                         mine : {1}, others : {0}, favorite : {TRUE}]]
  /\ walk = AtHome
  /\ edits = 0

-----------------------------------------------------------------------------
(* The lists: how many rows the SELECT has for an object                   *)

Once(b) == IF b THEN 1 ELSE 0

\* Query.all_queries joins the groups of the data source in a subselect.
InAllQueries(i, drafts) ==
  ~item[i].archived /\ item[i].source /\ (drafts \/ ~item[i].draft \/ i \in Own)

\* Query.get_by_query_group joins the groups of the query: a row for each link,
\* of any group if the query is the user's.
RowsByGroup(i) ==
  IF item[i].archived THEN 0
  ELSE IF i \in Own THEN Max({1, item[i].mine + item[i].others}) ELSE item[i].mine

\* QueryArchiveResource asks for archived queries, which all_queries leaves out.
InArchive(i) == InAllQueries(i, FALSE)

InMine(i) == InAllQueries(i, FALSE) /\ i \in Own

\* Query.favorites
InFavorites(i) == InAllQueries(i, TRUE) /\ item[i].favorite

\* Dashboard.all, for the super admin and for others; drafts are listed.
InAllDashboards(i) == ~item[i].archived
InSourceDashboards(i) == ~item[i].archived /\ item[i].source

\* Dashboard.get_by_dashboard_group; the lists of dashboards are made distinct.
InDashboards(i) ==
  ~item[i].archived /\ (i \in Own \/ (item[i].mine > 0 /\ ~item[i].draft))

\* Visualization.all
InVisualizations(i) == ~item[i].archived /\ (item[i].source \/ i \in Own)

RowsOf(list, i) ==
  CASE list = "queries" -> Once(InAllQueries(i, TRUE))
    [] list = "queries of groups" -> RowsByGroup(i)
    [] list = "archive" -> Once(InArchive(i))
    [] list = "my queries" -> Once(InMine(i))
    [] list = "favorites" -> Once(InFavorites(i))
    [] list = "all dashboards" -> Once(InAllDashboards(i))
    [] list = "dashboards" -> Once(InSourceDashboards(i))
    [] list = "dashboards of groups" -> Once(InDashboards(i))
    [] OTHER -> Once(InVisualizations(i))

Listed(list) == {i \in Items : RowsOf(list, i) > 0}

RowsIn(list, S) == Cardinality(UNION {{i} \X (1..RowsOf(list, i)) : i \in S})

With(key) == {i \in Items : item[i].key = key}
Before(key) == {i \in Items : item[i].key < key}

\* Mutant: the window begins a row late.
LateWindow(page) == ((page - 1) * PageSize + 2)..(page * PageSize + 1)

\* LIMIT and OFFSET.
Window(page) == ((page - 1) * PageSize + 1)..(page * PageSize)

\* What a page may show: of the rows with a sort key, any that fill its part of
\* the window; two rows of an object show it once.
Pages(list, page) ==
  {S \in SUBSET Listed(list) :
     \A key \in SortKeys :
       LET top == RowsIn(list, Before(key)) + 1
           rows == top..(RowsIn(list, Before(key)) + RowsIn(list, With(key)))
           share == Cardinality(rows \cap Window(page))
       IN Cardinality(S \cap With(key)) <= share /\ share <= RowsIn(list, S \cap With(key))}

-----------------------------------------------------------------------------
(* What others do, each in one commit                                      *)

\* Objects that are not listed, or whose place is shared.
Loose(list) ==
  {i \in Items : i \notin Listed(list) \/ \E j \in Listed(list) \ {i} : item[j].key = item[i].key}

Ahead(list, i) == RowsIn(list, Before(item[i].key))

\* An object may be missed if rows ahead of it, or it itself, went away, or if
\* it was moved behind what has just been counted.
Change(i, row) ==
  /\ edits < MaxEdits
  /\ row # item[i]
  /\ edits' = edits + 1
  /\ item' = [item EXCEPT ![i] = row]
  /\ \/ walk = AtHome /\ UNCHANGED walk
     \/ \E list \in Lists :
          /\ walk # AtHome /\ walk.list = list
          /\ walk' = [walk EXCEPT !.free = @ \cup Loose(list)' \cup
               {j \in Items : \/ Ahead(list, j)' < Ahead(list, j)
                              \/ walk.pc = "select" /\ Ahead(list, j)' # Ahead(list, j)}]

\* The name, or whatever else the list is ordered by.
Rename(i, key) == Change(i, [item[i] EXCEPT !.key = key])

\* is_archived and is_draft can be set either way by an edit.
Archive(i, archived) == Change(i, [item[i] EXCEPT !.archived = archived])
Publish(i, draft) == Change(i, [item[i] EXCEPT !.draft = draft])

\* A row of query_groups or dashboard_groups is added, or those of a group go.
LinkItem(i, mine, others) ==
  /\ mine + others <= MaxLinked
  /\ \/ mine = item[i].mine /\ others \in {0, item[i].others + 1}
     \/ others = item[i].others /\ mine \in {0, item[i].mine + 1}
  /\ Change(i, [item[i] EXCEPT !.mine = mine, !.others = others])

\* The data source is linked to a group of the user, or no longer, or deleted.
LinkSource(i, source) == Change(i, [item[i] EXCEPT !.source = source])

\* A unique constraint makes a second favorite an error that is ignored.
MarkFavorite(i, favorite) == Change(i, [item[i] EXCEPT !.favorite = favorite])

-----------------------------------------------------------------------------
(* The walk                                                                *)

Begin(list) ==
  /\ walk = AtHome
  /\ walk' = [pc |-> "count", list |-> list, page |-> 1, count |-> 0, shown |-> {},
              free |-> Loose(list)]
  /\ UNCHANGED <<item, edits>>

\* paginate counts the rows; a page behind the last one is refused.
CountRows ==
  /\ walk.pc = "count"
  /\ LET count == RowsIn(walk.list, Items)
     IN walk' = IF (walk.page - 1) * PageSize + 1 > count /\ count > 0
                THEN [walk EXCEPT !.pc = "done"]
                ELSE [walk EXCEPT !.pc = "select", !.count = count]
  /\ UNCHANGED <<item, edits>>

\* The window is selected; the client asks for the next page if the count says
\* that there is one. An empty page other than the first is an error.
SelectPage ==
  /\ walk.pc = "select"
  /\ \E S \in Pages(walk.list, walk.page) :
       walk' = IF walk.page * PageSize >= walk.count \/ (S = {} /\ walk.page # 1)
               THEN [walk EXCEPT !.pc = "done", !.shown = @ \cup S]
               ELSE [walk EXCEPT !.pc = "count", !.shown = @ \cup S, !.page = @ + 1]
  /\ UNCHANGED <<item, edits>>

Return ==
  /\ walk.pc = "done"
  /\ walk' = AtHome
  /\ UNCHANGED <<item, edits>>

-----------------------------------------------------------------------------
CatalogNext ==
  \/ \E i \in Items :
       \/ \E key \in SortKeys : Rename(i, key)
       \/ \E b \in BOOLEAN : Archive(i, b) \/ Publish(i, b) \/ LinkSource(i, b) \/ MarkFavorite(i, b)
       \/ \E mine, others \in 0..MaxLinked : LinkItem(i, mine, others)
  \/ \E list \in Lists : Begin(list)
  \/ CountRows \/ SelectPage \/ Return

CatalogSpec == CatalogInit /\ [][CatalogNext]_catalogVars

-----------------------------------------------------------------------------
(* Properties                                                              *)

\* The types of the state; what is shown is among the objects.
CatalogTypeOK ==
  /\ item \in [Items -> [key : SortKeys, archived : BOOLEAN, draft : BOOLEAN, source : BOOLEAN,
                         mine : 0..MaxLinked, others : 0..MaxLinked, favorite : BOOLEAN]]
  /\ edits \in 0..MaxEdits
  /\ walk = AtHome \/ walk \in
       [pc : {"count", "select", "done"}, list : Lists, page : Nat, count : Nat,
        shown : SUBSET Items, free : SUBSET Items]

\* base.py:76-104: whoever has walked through the pages has seen every object
\* that was listed all the time, unless its place in the order was shared with
\* another object, rows ahead of it went away meanwhile, or rows came ahead of it
\* between the count and the selection of a page: neither a second row of an
\* object, nor one added elsewhere, nor the error behind the last page hides one.
PagesMissOnlyIf == walk.pc = "done" => Items \subseteq walk.shown \cup walk.free

=============================================================================
