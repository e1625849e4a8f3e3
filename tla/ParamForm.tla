----------------------------- MODULE ParamForm -----------------------------
(***************************************************************************)
(* The parameters of an algorithm between its config class, the stored     *)
(* default row, the form of the Algorithms page and the clearing overrides *)
(* of the scenario wizard (param_schema.py, algorithm_catalog.py).         *)
(*                                                                         *)
(* A value is tagged with what it is: "num" (in units, Unit of them to 1), *)
(* "bool", "list" (of numbers), "none" or "junk".  What is submitted is    *)
(* <<form, value>>: a value of the JSON body, or a text that spells it, a  *)
(* blank text for "none".                                                  *)
(***************************************************************************)
EXTENDS Integers, Sequences, Functions

CONSTANTS
    Unit,
    FieldKinds,        \* the parameters of the config class and the kind of each
    PublishedValues,
    ClassAccepts(_),   \* _validate on a config whose fields have their types
    NoDefault, Wrong

FormFields == DOMAIN FieldKinds
NoParam == [f \in {} |-> Wrong]
None == <<"none">>
ParamValues == ({"num"} \X Int) \cup ({"bool"} \X BOOLEAN) \cup ({"list"} \X Seq(Int))
               \cup {None, <<"junk">>}

Integer(v) == v[1] = "num" /\ v[2] % Unit = 0
IntegerList(v) == v[1] = "list" /\ \A i \in DOMAIN v[2] : v[2][i] % Unit = 0

(* coerce_field_value: the types a config class accepts.                   *)
HasType(kind, v) ==
    CASE kind = "bool"           -> v[1] = "bool"
      [] kind = "int"            -> Integer(v)
      [] kind = "float"          -> v[1] = "num"
      [] kind = "optional_float" -> v[1] \in {"num", "none"}
      [] kind = "int_list"       -> IntegerList(v)

(* The published values are such that a form may send them; what stands    *)
(* for an error or a missing row is neither a value nor a row.             *)
ASSUME ParamFormAssumption ==
    /\ Unit \in Nat \ {0}
    /\ PublishedValues \in [FormFields -> ParamValues]
    /\ \A f \in FormFields :
          /\ FieldKinds[f] \in {"int", "float", "optional_float", "bool", "int_list"}
          /\ HasType(FieldKinds[f], PublishedValues[f])
          /\ PublishedValues[f] # <<"list", <<>> >>
    /\ ClassAccepts(PublishedValues)
    /\ Wrong \notin ParamValues /\ Wrong \notin [FormFields -> ParamValues]
    /\ \A fields \in SUBSET FormFields :
          NoDefault \notin [params : [fields -> ParamValues], origin : {"CUSTOM"}]

(* from_dict: missing fields have the published value.                     *)
FromParams(params) ==
    LET config == [f \in FormFields |-> IF f \in DOMAIN params THEN params[f]
                                                              ELSE PublishedValues[f]]
    IN  IF /\ DOMAIN params \subseteq FormFields
           /\ \A f \in FormFields : HasType(FieldKinds[f], config[f])
           /\ ClassAccepts(config)
        THEN config ELSE Wrong

(* A list may be sent as a JSON list or as text; a text of one number is a *)
(* list of it.  Otherwise a text is what it spells.                        *)
parse_form_value(kind, raw) ==
    LET v == raw[2]
        parsed == IF kind = "int_list" /\ raw[1] = "text" /\ v[1] = "num"
                  THEN <<"list", <<v[2]>> >> ELSE v
    IN  IF HasType(kind, parsed) /\ parsed # <<"list", <<>> >> THEN parsed ELSE Wrong

(* validate_params: the parsed fields, and the config they give over base. *)
validate_params(raw, base) ==
    LET parsed == [f \in DOMAIN raw \cap FormFields |-> parse_form_value(FieldKinds[f], raw[f])]
        known  == Restrict(base, DOMAIN base \cap FormFields)
    IN  IF DOMAIN raw \subseteq FormFields /\ \A f \in DOMAIN parsed : parsed[f] # Wrong
        THEN [parsed |-> parsed,
              config |-> FromParams([f \in DOMAIN parsed \cup DOMAIN known |->
                                        IF f \in DOMAIN parsed THEN parsed[f] ELSE known[f]])]
        ELSE [parsed |-> parsed, config |-> Wrong]

AsBody(params) == [f \in DOMAIN params |-> <<"json", params[f]>>]
NonDefault(config) ==
    Restrict(config, {f \in FormFields : config[f] # PublishedValues[f]})

-----------------------------------------------------------------------------
(* The Algorithms page.                                                    *)

(* param_form: what the dialog shows of a stored row.  A row that is no    *)
(* longer valid is shown as the published values, with an error.           *)
param_form(row) ==
    LET config == validate_params(AsBody(row.params), NoParam).config IN
    IF row = NoDefault \/ row.params = NoParam
    THEN [values |-> PublishedValues, stored_error |-> FALSE]
    ELSE [values |-> IF config = Wrong THEN PublishedValues ELSE config,
          stored_error |-> config = Wrong]

(* displayValue and collectValues: a switch is sent as a boolean, any      *)
(* other field as the text in its box, a list of one number like a number. *)
Text(v) == <<"text", IF v[1] = "list" /\ Len(v[2]) = 1 THEN <<"num", v[2][1]>> ELSE v>>
collectValues(values) ==
    [f \in FormFields |-> IF FieldKinds[f] = "bool" THEN <<"json", values[f]>>
                                                    ELSE Text(values[f])]

(* Mutant of same_values: the row is compared with what would be stored.   *)
same_values_stored(params, config) == params = NonDefault(config)

same_values(params, config) == validate_params(AsBody(params), NoParam).config = config

(* save_defaults: the row after values were submitted, or Wrong.           *)
save_defaults(row, raw) ==
    LET config == validate_params(raw, NoParam).config IN
    CASE config = Wrong -> Wrong
      [] config # Wrong /\ NonDefault(config) = NoParam -> NoDefault
      [] OTHER -> IF row # NoDefault /\ same_values(row.params, config) THEN row
                  ELSE [params |-> NonDefault(config), origin |-> "CUSTOM"]

-----------------------------------------------------------------------------
(* The clearing overrides of a scenario.                                   *)

Base(row) == IF row = NoDefault THEN NoParam ELSE row.params

(* readClearingParams: the boxes that are not empty.  paramText spells an  *)
(* override of "none" as a word that is no number.                         *)
readClearingParams(overrides) ==
    [f \in {g \in DOMAIN overrides : g \in FormFields} |->
        IF overrides[f] = None
        THEN <<"text", IF FieldKinds[f] = "optional_float" THEN <<"junk">> ELSE None>>
        ELSE Text(overrides[f])]

validate_scenario_clearing_params(raw, row) ==
    LET validation == validate_params(raw, Base(row)) IN
    IF validation.config = Wrong THEN Wrong ELSE validation.parsed

(* The parameters of the clearing algorithm in a run, Wrong: it fails.     *)
market_clearing_params(row, overrides) ==
    [f \in DOMAIN overrides \cup DOMAIN Base(row) |->
        IF f \in DOMAIN overrides THEN overrides[f] ELSE Base(row)[f]]
ClearingConfig(row, overrides) == FromParams(market_clearing_params(row, overrides))
=============================================================================
