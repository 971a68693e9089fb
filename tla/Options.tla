------------------------------- MODULE Options -------------------------------
(***************************************************************************)
(* The options of data sources and notification destinations. What a type   *)
(* declares secret is masked when the options are shown, and a field that    *)
(* comes back masked keeps the value of the row. A request reads the row,    *)
(* makes new options of what was posted and writes the whole column, while   *)
(* the type is a column of its own that is written when it changes; nothing  *)
(* checks a version. Values that somebody types are numbers in the order in  *)
(* which they are typed.                                                     *)
(***************************************************************************)
EXTENDS Naturals

CONSTANTS
  Holders,   \* data sources and destinations
  Types,     \* types of query runners or destinations
  Fields,    \* fields of the options
  SecretOf,  \* the fields that each type declares secret
  Clients,   \* clients with a form each, and one request or command at a time
  MaxTyped,  \* bound: the values that are typed
  MaxSaves   \* bound: the saves that are begun

ASSUME OptionsAssumption ==
  /\ SecretOf \in [Types -> SUBSET Fields]
  /\ MaxTyped \in Nat
  /\ MaxSaves \in Nat

VARIABLES
  config,  \* the rows: type and options
  form,    \* what each client has been shown
  save,    \* the request of each client that is being handled
  values,  \* the values typed so far
  saves,   \* the saves begun so far
  meant,   \* history: the value somebody wanted each field to have
  stale    \* history: fields left masked by a save that could not keep them

optionVars == <<config, form, save, values, saves, meant, stale>>

Mask == 0   \* SECRET_PLACEHOLDER
Absent == MaxTyped + 1

NoConfig == [state |-> "none"]
GoneConfig == [state |-> "gone"]
NoForm == [state |-> "none"]
NoSave == [state |-> "none"]

\* Options are functions on all fields; Absent is a field that is not there.
Values == 0..Absent
Empty == [f \in Fields |-> Absent]

ConfigRow(type, options) == [state |-> "row", type |-> type, options |-> options]

OptionsInit ==
  /\ config = [o \in Holders |-> NoConfig]
  /\ form = [c \in Clients |-> NoForm]
  /\ save = [c \in Clients |-> NoSave]
  /\ values = 0
  /\ saves = 0
  /\ meant = [o \in Holders |-> Empty]
  /\ stale = {}

-----------------------------------------------------------------------------
(* ConfigurationContainer                                                  *)

\* to_dict(mask_secrets=True)
Masked(type, options) ==
  [f \in Fields |->
    IF f \in SecretOf[type] /\ options[f] # Absent THEN Mask ELSE options[f]]

\* Mutant: the placeholder is taken like any other value.
UpdatedLiterally(type, old, posted) == posted

\* update: a placeholder in a secret field stands for the value there is.
Updated(type, old, posted) ==
  [f \in Fields |->
    IF f \in SecretOf[type] /\ posted[f] = Mask THEN old[f] ELSE posted[f]]

\* self[k] raises KeyError: there is no such value.
Unknown(type, old, posted) ==
  \E f \in SecretOf[type] : posted[f] = Mask /\ old[f] = Absent

-----------------------------------------------------------------------------
(* Requests                                                                *)

\* A posted form: as it was shown, but for one field that is typed or cleared.
Filled(shown) ==
  {shown}
    \cup {[shown EXCEPT ![f] = Absent] : f \in Fields}
    \cup (IF values < MaxTyped THEN {[shown EXCEPT ![f] = values + 1] : f \in Fields} ELSE {})

ValuesAfter(posted) ==
  IF values < MaxTyped /\ \E f \in Fields : posted[f] = values + 1 THEN values + 1 ELSE values

\* DataSourceListResource.post and DestinationListResource.post; the answer is
\* the row, masked.
CreateConfig(c, o, type) ==
  /\ config[o] = NoConfig
  /\ save[c] = NoSave
  /\ \E posted \in Filled(Empty) :
       /\ values' = ValuesAfter(posted)
       /\ config' = [config EXCEPT ![o] = ConfigRow(type, posted)]
       /\ meant' = [meant EXCEPT ![o] = posted]
       /\ form' = [form EXCEPT ![c] =
            [state |-> "shown", holder |-> o, type |-> type, options |-> Masked(type, posted)]]
  /\ UNCHANGED <<save, saves, stale>>

\* DataSourceResource.get and DestinationResource.get
Show(c, o) ==
  /\ config[o].state = "row"
  /\ save[c] = NoSave
  /\ form' = [form EXCEPT ![c] =
       [state |-> "shown", holder |-> o, type |-> config[o].type,
        options |-> Masked(config[o].type, config[o].options)]]
  /\ UNCHANGED <<config, save, values, saves, meant, stale>>

\* The row is read and updated in the copy, by the schema of the type that is
\* posted. A KeyError ends the request.
ReadConfig(c, state, o, type, posted) ==
  LET row == config[o]
  IN /\ save[c] = NoSave
     /\ row.state = "row"
     /\ ~Unknown(type, row.options, posted)
     /\ saves < MaxSaves
     /\ saves' = saves + 1
     /\ values' = ValuesAfter(posted)
     /\ save' = [save EXCEPT ![c] =
          [state |-> state, holder |-> o, seen |-> row, type |-> type,
           posted |-> posted, options |-> Updated(type, row.options, posted)]]
     /\ UNCHANGED <<config, form, meant, stale>>

\* DataSourceResource.post and DestinationResource.post
Post(c, type) ==
  /\ form[c] # NoForm
  /\ \E posted \in Filled(form[c].options) : ReadConfig(c, "save", form[c].holder, type, posted)

\* The edit command of the server, with options and perhaps a type; a
\* placeholder may be typed for a field.
Command(c, o, type) ==
  \E typed \in Filled(Empty) \cup {[Empty EXCEPT ![f] = Mask] : f \in Fields} :
    ReadConfig(c, "command", o, type, typed)

\* With a type alone the options are not written.
CommandType(o, type) ==
  /\ config[o].state = "row"
  /\ type # config[o].type
  /\ config' = [config EXCEPT ![o].type = type]
  /\ UNCHANGED <<form, save, values, saves, meant, stale>>

\* What the client wants a field to be: what it typed, or what it left masked.
Meant(s) ==
  [f \in Fields |-> IF s.posted[f] = Mask THEN meant[s.holder][f] ELSE s.posted[f]]

\* A mask loses a field that another save has changed since this one read the
\* row, or that the type posted with it does not declare secret.
Loses(s, f) ==
  /\ s.posted[f] = Mask
  /\ f \notin SecretOf[s.type] \/ config[s.holder].options[f] # s.seen.options[f]

\* The commit: changed columns are written. The answer to a request is the copy,
\* masked.
SaveConfig(c) ==
  LET s == save[c]
      o == s.holder
      type == IF s.type = s.seen.type THEN config[o].type ELSE s.type
  IN /\ s # NoSave
     /\ config[o].state = "row"
     /\ config' = [config EXCEPT ![o] = ConfigRow(type, s.options)]
     /\ meant' = [meant EXCEPT ![o] = Meant(s)]
     /\ stale' = {p \in stale : p[1] # o \/ s.posted[p[2]] = Mask}
                 \cup {<<o, f>> : f \in {g \in Fields : Loses(s, g)}}
     /\ form' = IF s.state = "command" THEN form
                ELSE [form EXCEPT ![c] = [state |-> "shown", holder |-> o, type |-> s.type,
                                          options |-> Masked(s.type, s.options)]]
     /\ save' = [save EXCEPT ![c] = NoSave]
     /\ UNCHANGED <<values, saves>>

\* The name is taken, or the row is gone: an error, and nothing is written.
SaveFails(c) ==
  /\ save[c] # NoSave
  /\ save' = [save EXCEPT ![c] = NoSave]
  /\ UNCHANGED <<config, form, values, saves, meant, stale>>

\* DataSource.delete, see Results; a destination with subscriptions stays.
DeleteConfig(o) ==
  /\ config[o].state = "row"
  /\ config' = [config EXCEPT ![o] = GoneConfig]
  /\ meant' = [meant EXCEPT ![o] = Empty]
  /\ stale' = {p \in stale : p[1] # o}
  /\ UNCHANGED <<form, save, values, saves>>

-----------------------------------------------------------------------------
OptionsNext ==
  \/ \E c \in Clients :
       \/ \E o \in Holders : Show(c, o)
       \/ \E o \in Holders, type \in Types : CreateConfig(c, o, type) \/ Command(c, o, type)
       \/ \E type \in Types : Post(c, type)
       \/ SaveConfig(c) \/ SaveFails(c)
  \/ \E o \in Holders : DeleteConfig(o) \/ \E type \in Types : CommandType(o, type)

OptionsSpec == OptionsInit /\ [][OptionsNext]_optionVars

-----------------------------------------------------------------------------
(* Properties                                                              *)

ConfigRows == [state : {"row"}, type : Types, options : [Fields -> Values]]

\* The types of the state; nothing typed is of the future.
OptionsTypeOK ==
  /\ config \in [Holders -> {NoConfig, GoneConfig} \cup ConfigRows]
  /\ form \in [Clients -> {NoForm} \cup
       [state : {"shown"}, holder : Holders, type : Types, options : [Fields -> Values]]]
  /\ save \in [Clients -> {NoSave} \cup
       [state : {"save", "command"}, holder : Holders, seen : ConfigRows, type : Types,
        posted : [Fields -> Values], options : [Fields -> Values]]]
  /\ values \in 0..MaxTyped
  /\ saves \in 0..MaxSaves
  /\ meant \in [Holders -> [Fields -> Values]]
  /\ stale \subseteq Holders \X Fields

\* configuration.py:54-76: a field has the value that was typed for it last,
\* however often forms in which it is masked are saved, also under another type,
\* unless it was left masked by a save that overlapped with a change of the
\* field, or that names a type for which it is not secret.
SecretsSurvive ==
  \A o \in Holders, f \in Fields :
    config[o].state = "row" /\ <<o, f>> \notin stale => config[o].options[f] = meant[o][f]

=============================================================================
