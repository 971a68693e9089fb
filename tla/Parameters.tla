----------------------------- MODULE Parameters -----------------------------
(***************************************************************************)
(* Queries with parameters. A page reads a query and what a dropdown query  *)
(* offers, and later posts values; the request reads the query again, looks *)
(* whether its data source is paused, checks each value against the         *)
(* definition of that name (ParameterizedQuery), one after the other and    *)
(* those of a dropdown against the result that it has by then, and renders  *)
(* the text that is run. Meanwhile the dropdown query gets new results and  *)
(* the data source is paused or deleted; a request reads its own query once,*)
(* so an edit during a request is one after it. Other requests check no     *)
(* definitions. A name is the sequence of its parts; of a range the part    *)
(* "start" stands for both. A value is its kind. Tags in triple braces,     *)
(* which nobody looks for, are left out.                                    *)
(***************************************************************************)
EXTENDS Naturals, Sequences

CONSTANTS
  ParameterNames, \* names of parameters
  EnumOptions,    \* the options of every enumeration
  Schemas,        \* the definitions that queries have: functions from names to types
  MaxRevisions    \* bound: changes that others make

\* Strings that are neither a number nor a date, or one, or both; JSON's numbers;
\* objects with the fields of a range, and null.
Strings == {"word", "digits", "day"}
ValueKinds == Strings \cup {"number", "range", "null"}

VARIABLES
  saved,     \* the query: its tags and its definitions
  source,    \* the query's data source: what keeps it from being run
  dropdown,  \* the dropdown query: its data source, and the values of its result
  page,      \* what a page shows of the query as it is; `lost` is history
  posting,   \* the request that is handled; `chosen`, `stopped`, `offered`
             \* and `lost` are history
  revisions  \* changes so far

parameterVars == <<saved, source, dropdown, page, posting, revisions>>

\* date, datetime-local and datetime-with-seconds are one type, and so are the
\* three kinds of ranges.
ParameterTypes == {"text", "number", "date", "range", "enum", "query", "other"}

Whole(k) == <<k>>
PartOf(k) == <<k, "start">>
Tags == {Whole(k) : k \in ParameterNames} \cup {PartOf(k) : k \in ParameterNames}
NoTypes == [n \in {} |-> "text"]

\* Nothing keeps a definition from having a name with a dot.
ASSUME ParametersAssumption ==
  /\ EnumOptions \subseteq Strings
  /\ Schemas \subseteq UNION {[S -> ParameterTypes] : S \in SUBSET Tags}
  /\ NoTypes \in Schemas
  /\ MaxRevisions \in Nat

\* {{tag}} and {{#tag}}.
Queries == [tags : SUBSET Tags, types : Schemas]

Offerings == {"word", "digits"}
Dropdowns == {d \in [attached : BOOLEAN, ran : BOOLEAN, values : SUBSET Offerings] :
                d.values # {} => d.ran}

Blank == "nothing"
NoPage == [shows |-> "none", offered |-> {}, lost |-> {}]
NoPosting == [pc |-> "idle"]

ParametersInit ==
  /\ saved \in Queries
  /\ source = {}
  /\ dropdown \in {d \in Dropdowns : d.attached}
  /\ page = NoPage
  /\ posting = NoPosting
  /\ revisions = 0

-----------------------------------------------------------------------------
(* What others do                                                          *)

Revised ==
  /\ revisions < MaxRevisions
  /\ revisions' = revisions + 1

\* QueryResource.post: text and definitions. A page that shows the query as it
\* was posts like any client.
EditTemplate(query) ==
  /\ posting = NoPosting
  /\ saved' = query
  /\ page' = NoPage
  /\ UNCHANGED <<source, dropdown, posting>>
  /\ Revised

\* A page goes on showing the values of an earlier result.
NewDropdown(result) ==
  /\ dropdown.attached
  /\ dropdown' = result
  /\ page' = IF page.shows # "values" THEN page
             ELSE [page EXCEPT !.lost = @ \cup (page.offered \ result.values)]
  /\ posting' = IF posting = NoPosting THEN posting
                ELSE [posting EXCEPT !.lost = @ \cup (Offerings \ result.values),
                                     !.offered = @ \cup result.values]
  /\ UNCHANGED <<saved, source>>
  /\ Revised

\* The dropdown query is run, or its data source is deleted; see Results.
NewResult(values) == NewDropdown([attached |-> TRUE, ran |-> TRUE, values |-> values])
Detach == NewDropdown([attached |-> FALSE, ran |-> FALSE, values |-> {}])

\* The data source is paused, resumed or deleted; see SchemaCache and Results.
ChangeSource(now) ==
  /\ "gone" \notin source /\ now # source
  /\ source' = now
  /\ posting' = IF posting = NoPosting THEN posting
                ELSE [posting EXCEPT !.stopped = @ \/ now # {}]
  /\ UNCHANGED <<saved, dropdown, page>>
  /\ Revised

-----------------------------------------------------------------------------
(* The page                                                                *)

ShowQuery ==
  /\ posting = NoPosting
  /\ page' = [NoPage EXCEPT !.shows = "query"]
  /\ UNCHANGED <<saved, source, dropdown, posting, revisions>>

\* dropdown_values: there must be a data source and a result.
Offers == dropdown.attached /\ dropdown.ran

\* QueryDropdownsResource: 403 unless the query has such a parameter by now.
ShowDropdown ==
  /\ page.shows = "query"
  /\ \E n \in DOMAIN saved.types : saved.types[n] = "query"
  /\ Offers
  /\ page' = [shows |-> "values", offered |-> dropdown.values, lost |-> {}]
  /\ UNCHANGED <<saved, source, dropdown, posting, revisions>>

\* What a page lets its user choose.
Choice(type) ==
  CASE type = "text" -> Strings
    [] type = "number" -> {"digits", "number"}
    [] type = "date" -> {"day"}
    [] type = "range" -> {"range"}
    [] type = "enum" -> EnumOptions
    [] type = "query" -> page.offered
    [] OTHER -> {}

\* Each tag has a definition, that of a range if it is a part of one.
WellDefined ==
  \A tag \in saved.tags :
    \/ tag \in DOMAIN saved.types /\ saved.types[tag] # "range"
    \/ \E k \in ParameterNames :
         tag = PartOf(k) /\ Whole(k) \in DOMAIN saved.types /\ saved.types[Whole(k)] = "range"

Chosen(posted) ==
  /\ page.shows # "none"
  /\ WellDefined
  /\ DOMAIN posted = DOMAIN saved.types
  /\ \A n \in DOMAIN posted : posted[n] \in Choice(saved.types[n])

\* Any values, chosen on the page or not.
Posted == UNION {[S -> ValueKinds] : S \in SUBSET Tags}

\* The request is received: it loads the query and its data source.
Handle(types, posted) ==
  /\ posting = NoPosting
  /\ posting' = [pc |-> "loaded", types |-> types, posted |-> posted,
                 todo |-> DOMAIN posted, invalid |-> {}, orphan |-> "gone" \in source,
                 chosen |-> types = saved.types /\ Chosen(posted),
                 stopped |-> source # {}, offered |-> dropdown.values, lost |-> page.lost]
  /\ page' = NoPage
  /\ UNCHANGED <<saved, source, dropdown, revisions>>

\* QueryResultResource.post
PostResult(posted) == Handle(saved.types, posted)

\* QueryResultListResource.post: the text comes from the client, and may be that
\* of any query.
PostText(posted) == Handle(NoTypes, posted)

\* QueryRefreshResource.post: the values are in the URL, and the definitions are
\* not looked at.
PostRefresh(posted) ==
  /\ \A n \in DOMAIN posted : posted[n] \in Strings
  /\ Handle(NoTypes, posted)

-----------------------------------------------------------------------------
(* ParameterizedQuery                                                      *)

\* The validators: what they accept, and of what they raise an exception, since
\* they only expect a ValueError.
Allowed(type) ==
  CASE type = "text" -> Strings
    [] type = "number" -> {"digits", "number"}
    [] type = "date" -> {"digits", "day"}
    [] type = "range" -> {"range"}
    [] type = "enum" -> EnumOptions
    [] OTHER -> {}

Raising(type) ==
  CASE type = "number" -> {"range", "null"}
    [] type = "date" -> {"number", "range", "null"}
    [] OTHER -> {}

\* unicode(value)
AsText(kind) == IF kind = "number" THEN "digits" ELSE kind

\* Without definitions everything is valid, with any only what they name, dots
\* and all.
Defined(n) == n \in DOMAIN posting.types

Suits(n) ==
  \/ DOMAIN posting.types = {}
  \/ /\ Defined(n)
     /\ \/ posting.posted[n] \in Allowed(posting.types[n])
        \/ posting.types[n] = "query" /\ AsText(posting.posted[n]) \in dropdown.values

Raises(n) ==
  /\ Defined(n)
  /\ \/ posting.posted[n] \in Raising(posting.types[n])
     \/ posting.types[n] = "query" /\ ~Offers

Answers(pc) ==
  /\ posting' = [posting EXCEPT !.pc = pc]
  /\ UNCHANGED <<saved, source, dropdown, page, revisions>>

\* run_query: there must be a data source, and it must not be paused.
Admit ==
  /\ posting.pc = "loaded"
  /\ Answers(IF posting.orphan THEN "error" ELSE IF "paused" \in source THEN "refused"
             ELSE "check")

\* _valid
CheckValue(n) ==
  /\ posting.pc = "check"
  /\ n \in posting.todo
  /\ IF Raises(n) THEN Answers("error")
     ELSE /\ posting' = [posting EXCEPT !.todo = @ \ {n},
                           !.invalid = IF Suits(n) THEN @ ELSE @ \cup {n}]
          /\ UNCHANGED <<saved, source, dropdown, page, revisions>>

\* Mutant: the parts of a range are not told.
NamesWhole(posted) == DOMAIN posted

\* _parameter_names: of an object those of its parts, with a dot.
PartNames(posted) ==
  {n \in DOMAIN posted : posted[n] # "range"}
    \cup {Append(n, "start") : n \in {x \in DOMAIN posted : posted[x] = "range"}}

\* Mutant: names are compared up to the dot.
LacksKeys(posted) ==
  \E tag \in saved.tags : \A n \in DOMAIN posted : n[1] # tag[1]

\* missing_params
Lacks(posted) == saved.tags \ PartNames(posted) # {}

\* apply: all of the values or an InvalidParameterError.
Reject ==
  /\ posting.pc = "check" /\ posting.todo = {}
  /\ posting.invalid # {}
  /\ Answers("invalid")

Miss ==
  /\ posting.pc = "check" /\ posting.todo = {}
  /\ posting.invalid = {}
  /\ Lacks(posting.posted)
  /\ Answers("missing")

\* The text is looked for among the results, or enqueued.
Execute ==
  /\ posting.pc = "check" /\ posting.todo = {}
  /\ posting.invalid = {}
  /\ ~Lacks(posting.posted)
  /\ Answers("executed")

Close ==
  /\ posting.pc \notin {"idle", "loaded", "check"}
  /\ posting' = NoPosting
  /\ UNCHANGED <<saved, source, dropdown, page, revisions>>

-----------------------------------------------------------------------------
ParametersNext ==
  \/ \E query \in Queries : EditTemplate(query)
  \/ \E values \in SUBSET Offerings : NewResult(values)
  \/ \E now \in SUBSET {"paused", "gone"} : ChangeSource(now)
  \/ Detach \/ ShowQuery \/ ShowDropdown
  \/ \E posted \in Posted : PostResult(posted) \/ PostRefresh(posted) \/ PostText(posted)
  \/ \E n \in Tags : CheckValue(n)
  \/ Admit \/ Reject \/ Miss \/ Execute \/ Close

ParametersSpec == ParametersInit /\ [][ParametersNext]_parameterVars

-----------------------------------------------------------------------------
(* Properties                                                              *)

\* The types of the state.
ParametersTypeOK ==
  /\ saved \in Queries
  /\ source \subseteq {"paused", "gone"}
  /\ dropdown \in Dropdowns
  /\ page \in [shows : {"none", "query", "values"}, offered : SUBSET Offerings,
               lost : SUBSET Offerings]
  /\ posting # NoPosting =>
       /\ posting.pc \in {"loaded", "check", "executed", "invalid", "missing", "refused", "error"}
       /\ posting.types \in {saved.types, NoTypes} /\ posting.posted \in Posted
       /\ posting.invalid \subseteq DOMAIN posting.posted \ posting.todo
  /\ revisions \in 0..MaxRevisions

\* mustache_render: a tag without a value becomes nothing, and so does a part of
\* what is not an object, also if its whole name was posted.
Rendered(tag, posted) ==
  IF Whole(tag[1]) \notin DOMAIN posted THEN Blank
  ELSE IF Len(tag) = 1 THEN posted[tag]
  ELSE IF posted[Whole(tag[1])] = "range" THEN "day" ELSE Blank

\* parameterized_query.py:107-152: in a text that a request has run every tag has
\* a value, unless one was posted under a name with a dot, which can be done
\* where there are no definitions or one has that name; and where there are
\* definitions, each value has one of its name and fits it, for a dropdown one
\* that it offered since the request was received.
TextIsFilled ==
  posting.pc = "executed" =>
    /\ \A tag \in saved.tags :
         \/ Rendered(tag, posting.posted) # Blank
         \/ Len(tag) = 2 /\ tag \in DOMAIN posting.posted
    /\ DOMAIN posting.types # {} => \A n \in DOMAIN posting.posted :
         /\ n \in DOMAIN posting.types
         /\ posting.posted[n] \in Allowed(posting.types[n])
            \/ (posting.types[n] = "query" /\ AsText(posting.posted[n]) \in posting.offered)

\* query_results.py:22-42, 111-123: a request with values that a page has offered,
\* one for each definition of a query whose tags are all defined and which has not
\* been edited since, is not turned down unless the query's data source was paused
\* or gone while it was handled, or one of its values was chosen from a dropdown of
\* which a result since the page was shown has lacked that value.
OfferedIsAccepted ==
  posting.pc \in {"invalid", "missing", "refused", "error"} /\ posting.chosen =>
    \/ posting.stopped
    \/ \E n \in DOMAIN posting.posted :
         posting.types[n] = "query" /\ posting.posted[n] \in posting.lost

=============================================================================
