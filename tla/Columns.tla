------------------------------ MODULE Columns ------------------------------
(***************************************************************************)
(* How query runners make columns and rows of what a server or a file has:  *)
(* the names of a cursor's columns (fetch_columns; hive_ds takes them as     *)
(* they are), the cells of a sheet (excel), the lines of a file (csvupload), *)
(* the documents of mongodb, of which a count is one with a single value,    *)
(* the issues that Jira sends in pages, and the objects under a key of redis, *)
(* to which columns can be added before they are selected and ordered       *)
(* (redis29). A value is its type. A name is a sequence of numbers, digits   *)
(* and greater ones for letters, so that one made by appending a number may *)
(* be equal to one that is there. The other names of columns (aliases) are   *)
(* left out, and so are the types that the server gives a cursor's columns. *)
(***************************************************************************)
EXTENDS Naturals, SequencesExt, FiniteSetsExt

CONSTANTS
  Names,      \* names of columns in the data; <<>> is an empty cell
  Types,      \* types of values, as guess_type has them
  MaxColumns, \* bound: columns of the data
  MaxRows,    \* bound: rows
  MaxAdded    \* bound: computed columns

ASSUME ColumnsAssumption ==
  /\ IsFiniteSet(Names) /\ Names \subseteq Seq(Nat)
  /\ Types \subseteq {"integer", "float", "boolean", "datetime", "string"}
  /\ MaxColumns \in Nat \ {0} /\ MaxRows \in Nat /\ MaxAdded \in Nat

VARIABLES
  source,  \* the kind of data source
  fields,  \* whether a query of mongodb says which fields are its columns
  header,  \* the names as they come, if they come first
  columns, \* the columns: name and type
  rows,    \* the rows: the type of the value for each name
  stage,   \* how far the answer is
  added,   \* the computed columns
  twice    \* history: an order that names a column twice, or a later page

columnVars == <<source, fields, header, columns, rows, stage, added, twice>>

WithHeader == {"cursor", "hive", "sheet", "csv"}
Sources == WithHeader \cup {"documents", "issues", "objects"}

Column(name, type) == [name |-> name, type |-> type]
NamesOf(cs) == {cs[i].name : i \in DOMAIN cs}

ColumnsInit ==
  /\ source \in Sources
  /\ fields \in BOOLEAN
  /\ fields => source = "documents"
  /\ header \in IF source \in WithHeader THEN UNION {[1..n -> Names] : n \in 1..MaxColumns}
                ELSE {<<>>}
  /\ columns = <<>>
  /\ rows = <<>>
  /\ stage = "header"
  /\ added = {}
  /\ twice = FALSE

-----------------------------------------------------------------------------
(* Names                                                                   *)

\* fetch_columns: a number is appended to a name that is there already; the
\* number grows each time.
NamedNext(before, name) ==
  IF Contains(before.names, name)
  THEN [names |-> Append(before.names, Append(name, before.count)), count |-> before.count + 1]
  ELSE [names |-> Append(before.names, name), count |-> before.count]

Fetched(names) ==
  LET made[k \in 0..Len(names)] ==
        IF k = 0 THEN [names |-> <<>>, count |-> 1] ELSE NamedNext(made[k - 1], names[k])
  IN made[Len(names)].names

\* __extract_columns: an empty cell is named "column_", here 99, and its index.
Titled(names) == [i \in DOMAIN names |-> IF names[i] = <<>> THEN <<99, i - 1>> ELSE names[i]]

Title ==
  CASE source = "cursor" -> Fetched(header)
    [] source = "sheet" -> Titled(header)
    [] OTHER -> header

ReadHeader ==
  /\ stage = "header"
  /\ stage' = "rows"
  /\ columns' = [i \in DOMAIN Title |-> Column(Title[i], "string")]
  /\ UNCHANGED <<source, fields, header, rows, added, twice>>

-----------------------------------------------------------------------------
(* Rows                                                                    *)

\* What is not asked for in the right form, and a line of a file that is shorter
\* than its header: there is no answer.
NoAnswer ==
  /\ (source = "csv" /\ stage = "rows") \/ stage = "extra"
  /\ stage' = "error"
  /\ UNCHANGED <<source, fields, header, columns, rows, added, twice>>

Keys == Names \ {<<>>}
Records == UNION {[S -> Types] : S \in SUBSET Keys}

\* dict(zip(names, row)), and the same made cell by cell: of several columns with
\* a name, the last wins; in csvupload the first does. Of a cursor's values the
\* types are left out, as those of its columns; a file has strings.
ReadRow ==
  /\ stage = "rows"
  /\ source \in WithHeader
  /\ Len(rows) < MaxRows
  /\ \E line \in
         [NamesOf(columns) -> IF source = "sheet" THEN Types ELSE {"string"}] :
       rows' = Append(rows, line)
  /\ UNCHANGED <<source, fields, header, columns, stage, added, twice>>

\* A record whose names are new, in some order, makes columns at the end: of the
\* type of its value in parse_results, of strings in add_column.
WithColumnsOf(record) ==
  LET new == SetToSeq(DOMAIN record \ NamesOf(columns))
  IN columns \o [i \in DOMAIN new |->
       Column(new[i], IF source = "documents" THEN record[new[i]] ELSE "string")]

ReadRecord ==
  /\ stage = "rows"
  /\ source \notin WithHeader
  /\ Len(rows) < MaxRows
  /\ \E record \in Records :
       /\ rows' = Append(rows, record)
       /\ columns' = IF twice THEN columns ELSE WithColumnsOf(record)
  /\ UNCHANGED <<source, fields, header, stage, added, twice>>

\* merge of another page of issues appends its rows alone.
NextPageOfIssues ==
  /\ stage = "rows"
  /\ source = "issues"
  /\ ~twice
  /\ twice' = TRUE
  /\ UNCHANGED <<source, fields, header, columns, rows, stage, added>>

-----------------------------------------------------------------------------
(* Types                                                                   *)

\* Mutant: floats make a column of floats, whatever else is there.
TypeFromFloats(S) ==
  IF Cardinality(S) = 1 THEN CHOOSE t \in S : TRUE
  ELSE IF "float" \in S THEN "float" ELSE "string"

\* get_column_type_from_set, and what excel and csvupload do of themselves; a
\* column without values stays one of strings.
TypeFromSet(S) ==
  IF Cardinality(S) = 1 THEN CHOOSE t \in S : TRUE
  ELSE IF S = {"float", "integer"} THEN "float" ELSE "string"

TypesIn(name) == {rows[i][name] : i \in {j \in DOMAIN rows : name \in DOMAIN rows[j]}}

\* default_value_for_type, as a type: "false" and "" are strings.
DefaultType(type) == IF type \in {"integer", "float"} THEN "integer" ELSE "string"

Typed == [i \in DOMAIN columns |-> Column(columns[i].name, TypeFromSet(TypesIn(columns[i].name)))]

\* In a sheet the type is that of a cell's column; the values of one whose name
\* comes again later are lost, and may have had any.
TypedSheet ==
  {[i \in DOMAIN columns |-> Column(columns[i].name, type[i])] :
     type \in {ts \in [DOMAIN columns -> Types \cup {"string"}] :
                \A i \in DOMAIN columns :
                  LET name == columns[i].name
                  IN \/ ts[i] = TypeFromSet(TypesIn(name))
                     \/ rows # <<>> /\ \E j \in DOMAIN columns : j > i /\ columns[j].name = name}}

\* run_query of mongodb: the columns that are among the fields, in an order that is
\* asked for; without fields all, perhaps sorted. The rows stay as they are, with
\* _id, and with what a document within a document has in columns of its own.
Arranged ==
  {cs \in SeqOf(ToSet(columns), Len(columns)) :
     IsInjective(cs) /\ (fields \/ ToSet(cs) = ToSet(columns))}

\* Sheets and objects have their columns typed when all rows are there; in
\* objects (__extract_data of redis29) the values that are missing are added.
TypeColumns ==
  /\ stage = "rows"
  /\ \/ source = "sheet" /\ columns' \in TypedSheet
     \/ source = "objects" /\ columns' = Typed
     \/ source = "documents" /\ columns' \in Arranged
     \/ source \notin {"sheet", "objects", "documents"} /\ UNCHANGED columns
  /\ IF source = "objects"
     THEN /\ stage' = "extra"
          /\ rows' = [i \in DOMAIN rows |->
               [name \in NamesOf(columns) |->
                 IF name \in DOMAIN rows[i] THEN rows[i][name]
                 ELSE DefaultType(TypeFromSet(TypesIn(name)))]]
     ELSE stage' = "done" /\ UNCHANGED rows
  /\ UNCHANGED <<source, fields, header, added, twice>>

-----------------------------------------------------------------------------
(* What a query of redis29 asks for                                        *)

\* handle_extra_columns: a name that is there already is an error.
AddColumn(name) ==
  /\ stage = "extra"
  /\ Cardinality(added) < MaxAdded
  /\ IF name \in NamesOf(columns)
     THEN stage' = "error" /\ UNCHANGED <<columns, rows, added>>
     ELSE /\ added' = added \cup {name}
          /\ \E value \in [DOMAIN rows -> Types] :
               /\ rows' = [i \in DOMAIN rows |->
                    [key \in DOMAIN rows[i] \cup {name} |->
                      IF key = name THEN value[i] ELSE rows[i][key]]]
               /\ columns' = Append(columns, Column(name, TypeFromSet(ToSet(value))))
          /\ UNCHANGED stage
  /\ UNCHANGED <<source, fields, header, twice>>

\* The columns that are selected, in the order they have.
Kept(cs, selected) ==
  LET kept[k \in 0..Len(cs)] ==
        IF k = 0 THEN <<>>
        ELSE IF cs[k].name \in selected THEN Append(kept[k - 1], cs[k]) ELSE kept[k - 1]
  IN kept[Len(cs)]

\* handle_select_and_ordering: all columns if none is selected, and with any the
\* computed ones; those that are ordered come first.
SelectAndOrder(everything, select, order) ==
  LET all == NamesOf(columns)
      selected == IF everything \/ select \cup added = {} THEN all ELSE select \cup added
      typeOf(name) == (CHOOSE c \in ToSet(columns) : c.name = name).type
      rest == Kept(columns, selected \ ToSet(order))
  IN /\ stage = "extra"
     /\ IF selected \subseteq all /\ ToSet(order) \subseteq selected
        THEN /\ stage' = "done"
             /\ columns' = [i \in DOMAIN order |-> Column(order[i], typeOf(order[i]))] \o rest
             /\ rows' = [i \in DOMAIN rows |->
                  [name \in DOMAIN rows[i] \cap selected |-> rows[i][name]]]
             /\ twice' = ~IsInjective(order)
        ELSE stage' = "error" /\ UNCHANGED <<columns, rows, twice>>
     /\ UNCHANGED <<source, fields, header, added>>

-----------------------------------------------------------------------------
ColumnsNext ==
  \/ ReadHeader \/ NoAnswer \/ ReadRow \/ ReadRecord \/ NextPageOfIssues \/ TypeColumns
  \/ \E name \in Keys : AddColumn(name)
  \/ \E everything \in BOOLEAN, select \in SUBSET Keys, order \in SeqOf(Keys, 2) :
       SelectAndOrder(everything, select, order)

ColumnsSpec == ColumnsInit /\ [][ColumnsNext]_columnVars

-----------------------------------------------------------------------------
(* Properties                                                              *)

\* The types of the state.
ColumnsTypeOK ==
  /\ source \in Sources /\ fields \in BOOLEAN
  /\ stage \in {"header", "rows", "extra", "done", "error"}
  /\ \A i \in DOMAIN columns : columns[i].type \in Types \cup {"string"}
  /\ \A i \in DOMAIN rows : \A name \in DOMAIN rows[i] : rows[i][name] \in Types \cup {"string", "integer"}
  /\ added \subseteq Keys
  /\ twice \in BOOLEAN

Twice(names, name) == \E i, j \in DOMAIN names : i # j /\ names[i] = name /\ names[j] = name

\* Names that come twice: in a header whose names are taken as they are, by the
\* number appended to one that comes twice, or in the order that is asked for.
NamedTwice ==
  \/ source \in {"hive", "sheet", "csv"} /\ ~IsInjective(Title)
  \/ source = "cursor" /\ \E i, j \in DOMAIN header, n \in 1..MaxColumns :
       header[i] = Append(header[j], n) /\ Twice(header, header[j])
  \/ source = "objects" /\ twice

Fits(value, type) == type \in {"string", value} \/ (type = "float" /\ value = "integer")

\* query_runner/__init__.py:100-116 and 322-410, jql.py:27: the columns of an
\* answer have different names, unless names come twice; every value has a column,
\* unless issues are on a later page or a query of mongodb says which fields are
\* columns; and its type fits that of the column, unless another document has a
\* value of another type there, it stands for a date or a boolean that is missing
\* in an object, or it is in a sheet, in one of several columns of a name.
ColumnsDescribeRows ==
  stage = "done" =>
    /\ NamedTwice \/ IsInjective([i \in DOMAIN columns |-> columns[i].name])
    /\ \A r \in ToSet(rows) :
         (source = "issues" /\ twice) \/ fields \/ DOMAIN r \subseteq NamesOf(columns)
    /\ \A r \in ToSet(rows), c \in ToSet(columns) : c.name \in DOMAIN r =>
         \/ Fits(r[c.name], c.type)
         \/ source = "documents" /\ \E q \in ToSet(rows) :
              c.name \in DOMAIN q /\ q[c.name] # r[c.name]
         \/ source = "objects" /\ c.type \in {"datetime", "boolean"} /\ r[c.name] = "string"
         \/ source = "sheet" /\ Twice([i \in DOMAIN columns |-> columns[i].name], c.name)

=============================================================================
