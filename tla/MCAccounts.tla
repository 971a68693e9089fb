------------------------------ MODULE MCAccounts ------------------------------
(***************************************************************************)
(* An instance of the modules about users, groups and what belongs to them. *)
(* They share no variable: their processes meet only in rows of which each  *)
(* module keeps its own columns. So one of them moves in each behaviour,    *)
(* while the others stay as they were in the beginning. The same model      *)
(* values stand for things of different modules, which keeps the group of   *)
(* permutations small.                                                      *)
(***************************************************************************)
EXTENDS Groups, Links, Sessions, Results, Content, Catalog, TLC

CONSTANTS A, B, C  \* the values that may be exchanged

Accounted == Permutations(A) \cup Permutations(B) \cup Permutations(C)

VARIABLE part  \* the module that moves

Init ==
  /\ part \in {"groups", "links", "sessions", "results", "content", "catalog"}
  /\ GroupsInit /\ (part # "groups" => asked = [u \in Users |-> {}])
  /\ LinksInit
  /\ SessionsInit
  /\ ResultsInit /\ (part # "results" => query = [q \in QueryIds |-> Unborn])
  /\ ContentInit
  /\ CatalogInit /\ (part # "catalog" => \A i \in Items : item[i].key = Min(SortKeys))

Rest(name) == part = name /\ UNCHANGED part

GroupsStep ==
  /\ Rest("groups") /\ GroupsNext
  /\ UNCHANGED <<linkVars, sessionVars, resultVars, contentVars, catalogVars>>
LinksStep ==
  /\ Rest("links") /\ LinksNext
  /\ UNCHANGED <<groupVars, sessionVars, resultVars, contentVars, catalogVars>>
SessionsStep ==
  /\ Rest("sessions") /\ SessionsNext
  /\ UNCHANGED <<groupVars, linkVars, resultVars, contentVars, catalogVars>>
ResultsStep ==
  /\ Rest("results") /\ ResultsNext
  /\ UNCHANGED <<groupVars, linkVars, sessionVars, contentVars, catalogVars>>
ContentStep ==
  /\ Rest("content") /\ ContentNext
  /\ UNCHANGED <<groupVars, linkVars, sessionVars, resultVars, catalogVars>>
CatalogStep ==
  /\ Rest("catalog") /\ CatalogNext
  /\ UNCHANGED <<groupVars, linkVars, sessionVars, resultVars, contentVars>>

Next ==
  \/ GroupsStep \/ LinksStep \/ SessionsStep \/ ResultsStep
  \/ ContentStep \/ CatalogStep

vars == <<part, groupVars, linkVars, sessionVars, resultVars, contentVars, catalogVars>>

Spec == Init /\ [][Next]_vars

\* The types of the module that moves, with what the database guarantees of its
\* rows: unique emails, links and references to rows that exist.
AccountsTypeOK ==
  /\ part = "groups" => GroupsTypeOK
  /\ part = "links" => LinksTypeOK
  /\ part = "sessions" => SessionsTypeOK
  /\ part = "results" => ResultsTypeOK
  /\ part = "content" => ContentTypeOK
  /\ part = "catalog" => CatalogTypeOK

=============================================================================
