------------------------------- MODULE MCPages -------------------------------
(***************************************************************************)
(* An instance of the modules about pages that may be behind what they      *)
(* change: a dashboard (Editing), a form with masked secrets (Options) and  *)
(* values for the parameters of a query (Parameters). They share no         *)
(* variable, so one of them moves in each behaviour.                        *)
(***************************************************************************)
EXTENDS MCEditing, Options, Parameters

\* The second type declares but one of the fields secret.
TypeSecrets == [t \in Types |-> IF t = "first" THEN Fields ELSE {"password"}]

\* One parameter of every type; definitions whose name has a dot, alone and
\* beside one of a range or of a dropdown.
SomeSchemas ==
  {t \in UNION {[S -> ParameterTypes] : S \in SUBSET Tags} :
    \/ DOMAIN t \subseteq {Whole("p")}
    \/ DOMAIN t = {PartOf("p")} /\ t[PartOf("p")] \in {"text", "range"}
    \/ DOMAIN t = Tags /\ t[Whole("p")] \in {"range", "query"} /\ t[PartOf("p")] = "text"}

VARIABLE part  \* the module that moves

\* A result of the dropdown query is there at the beginning only if a parameter
\* needs it.
PagesInit ==
  /\ part \in {"editing", "options", "parameters"}
  /\ Init
  /\ OptionsInit
  /\ ParametersInit
  /\ dropdown.ran => \E n \in DOMAIN saved.types : saved.types[n] = "query"
  /\ part # "parameters" => saved = [tags |-> {}, types |-> NoTypes]

PagesNext ==
  /\ \/ part = "editing" /\ Next /\ UNCHANGED <<optionVars, parameterVars>>
     \/ part = "options" /\ OptionsNext /\ UNCHANGED <<vars, parameterVars>>
     \/ part = "parameters" /\ ParametersNext /\ UNCHANGED <<vars, optionVars>>
  /\ UNCHANGED part

PagesSpec == PagesInit /\ [][PagesNext]_<<part, vars, optionVars, parameterVars>>

=============================================================================
