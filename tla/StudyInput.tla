------------------------------ MODULE StudyInput ------------------------------
(***************************************************************************)
(* What a new study may search: the create form (forms_hpo.py), the        *)
(* validation of the service, which run_hpo calls directly                 *)
(* (hpo_service.py), the search space (param_space.py), and how a trial    *)
(* splits a candidate (worker.py).                                         *)
(*                                                                         *)
(* A number is given in units, One of them to 1.  A point of the unit      *)
(* interval is a fraction [num, den].  Seeds are texts, since one seed can *)
(* be written in several ways.  Names and the weights of the objective are *)
(* left out.                                                               *)
(***************************************************************************)
EXTENDS Integers, Sequences, FiniteSets, FiniteSetsExt, Functions

CONSTANTS
    One,
    Known,             \* registered algorithms
    Searchable,        \* those with default search bounds, which the form offers
    Baselines,         \* those that do not learn
    Fields,            \* the numeric fields of each algorithm's config class
    IntegerFields,
    Defaults,          \* their published values
    ValidFields(_, _), \* what a config class accepts
    LogCurve(_, _),    \* where a log scale is at a point
    SeedOf,            \* the number a text stands for, or NotASeed
    SEED_UPPER,
    NotASeed, Absent, Invalid

ASSUME StudyInputAssumption ==
    /\ One \in Nat \ {0} /\ SEED_UPPER \in Nat
    /\ Baselines \subseteq Known /\ Searchable \subseteq Known
    /\ \A alg \in Known : /\ DOMAIN Defaults[alg] = Fields[alg]
                          /\ ValidFields(alg, Defaults[alg])

FAILSTACK_SEARCH_KEYS == {"failstack_limit", "failstack_delta"}
Integral == IntegerFields \cup {"failstack_limit"}

-----------------------------------------------------------------------------
(* The search space.                                                       *)

Point(num, den) == [num |-> num, den |-> den]

ValidSpec(s) ==
    /\ s.scale \in {"linear", "log", "int"}
    /\ s.low < s.high
    /\ s.scale = "log" => s.low > 0
    /\ s.scale = "int" => s.low % One = 0 /\ s.high % One = 0

Steps(s) == (s.high - s.low) \div One

to_unit(s, value) == Point(2 * ((value - s.low) \div One) + 1, 2 * (Steps(s) + 1))

from_unit(s, u) ==
    CASE s.scale = "linear" -> s.low + (u.num * (s.high - s.low)) \div u.den
      [] s.scale = "log"    -> LogCurve(s, u)
      [] s.scale = "int"    ->
            Min({s.high, s.low + One * ((u.num * (Steps(s) + 1)) \div u.den)})

decode(bounds, x) == [name \in DOMAIN bounds |-> from_unit(bounds[name], x[name])]

-----------------------------------------------------------------------------
(* The form.                                                               *)

(* A row without a scale gets that of its parameter.                       *)
parse_bound_entry(name, row) ==
    [row EXCEPT !.scale = IF @ # Absent THEN @
                          ELSE IF name \in Integral THEN "int" ELSE "linear"]

ValidRow(name, row) == ValidSpec(row) /\ (name \in Integral) = (row.scale = "int")

FailStackFloor(name, row) ==
    /\ name = "failstack_limit" => row.low >= One
    /\ name = "failstack_delta" => row.low >= 0

Allowed(alg, failstack) == Fields[alg] \cup (IF failstack THEN FAILSTACK_SEARCH_KEYS ELSE {})

clean_bounds(form) == [name \in DOMAIN form.bounds |-> parse_bound_entry(name, form.bounds[name])]

FormBounds(form) ==
    /\ DOMAIN form.bounds \in SUBSET Allowed(form.alg, form.failstack) \ {{}}
    /\ \A name \in DOMAIN form.bounds :
          LET row == clean_bounds(form)[name] IN ValidRow(name, row) /\ FailStackFloor(name, row)

parse_seed_list(texts) ==
    LET seeds == [i \in DOMAIN texts |-> SeedOf[texts[i]]] IN
    IF texts # <<>> /\ NotASeed \notin Range(seeds) /\ IsInjective(seeds)
       /\ \A i \in DOMAIN seeds : seeds[i] \in 0 .. SEED_UPPER - 1
    THEN seeds ELSE Invalid

ValidSeeds(search, evaluation) ==
    /\ Invalid \notin {search, evaluation}
    /\ Range(search) \cap Range(evaluation) = {}

ValidTarget(target, alg, counts) == target = "MATCHING" => alg \in counts \ Baselines

(* is_valid, with the algorithms of the agents of the scenario.            *)
FormAccepts(form, counts) ==
    /\ form.alg \in Searchable
    /\ form.failstack => form.alg \notin Baselines
    /\ form.limit # Absent => form.limit >= One /\ form.limit % One = 0
    /\ form.delta # Absent => form.delta >= 0
    /\ FormBounds(form)
    /\ ValidSeeds(parse_seed_list(form.search), parse_seed_list(form.evaluation))
    /\ ValidTarget(form.target, form.alg, counts)

(* What is searched is not fixed as well, and nothing is fixed unless the  *)
(* fail-stack is on.                                                       *)
to_service_input(form) ==
    LET given == {key \in FAILSTACK_SEARCH_KEYS :
                    /\ form.failstack
                    /\ key \notin DOMAIN form.bounds
                    /\ (IF key = "failstack_limit" THEN form.limit ELSE form.delta) # Absent}
    IN  [alg |-> form.alg, target |-> form.target, bounds |-> clean_bounds(form),
         failstack |-> form.failstack,
         fixed |-> [key \in given |->
                      IF key = "failstack_limit" THEN form.limit ELSE form.delta],
         search |-> parse_seed_list(form.search),
         evaluation |-> parse_seed_list(form.evaluation)]

-----------------------------------------------------------------------------
(* The service.                                                            *)

FromDict(alg, params) ==
    ValidFields(alg, [f \in Fields[alg] |->
                        IF f \in DOMAIN params THEN params[f] ELSE Defaults[alg][f]])

Ends == {Point(0, 1), Point(1, 1)}

(* The fields of the config class among the searched ones.                 *)
AlgorithmPart(bounds) == Restrict(bounds, DOMAIN bounds \ FAILSTACK_SEARCH_KEYS)

(* Mutant of BoundsHold: only the lower ends are looked at.                *)
BoundsHoldBelow(alg, bounds) ==
    LET algo == AlgorithmPart(bounds) IN
    /\ \A name \in DOMAIN algo :
          FromDict(alg, [n \in {name} |-> from_unit(bounds[name], Point(0, 1))])
    /\ FromDict(alg, decode(algo, [name \in DOMAIN algo |-> Point(0, 1)]))

(* Each end alone, and all lower and all upper ends together.              *)
BoundsHold(alg, bounds) ==
    LET algo == AlgorithmPart(bounds) IN
    \A end \in Ends :
       /\ \A name \in DOMAIN algo : FromDict(alg, [n \in {name} |-> from_unit(bounds[name], end)])
       /\ FromDict(alg, decode(algo, [name \in DOMAIN algo |-> end]))

validate_bounds(alg, bounds, failstack) ==
    /\ DOMAIN bounds \in SUBSET Allowed(alg, failstack) \ {{}}
    /\ \A name \in DOMAIN bounds :
         /\ ValidRow(name, bounds[name])
         /\ FailStackFloor(name, bounds[name])
    /\ BoundsHold(alg, bounds)

validate_fixed_params(fixed) ==
    /\ DOMAIN fixed \subseteq FAILSTACK_SEARCH_KEYS
    /\ "failstack_limit" \in DOMAIN fixed => fixed["failstack_limit"] >= One
    /\ "failstack_delta" \in DOMAIN fixed => fixed["failstack_delta"] >= 0

validate_study_input(data, counts) ==
    /\ data.alg \in Known
    /\ ValidTarget(data.target, data.alg, counts)
    /\ validate_fixed_params(data.fixed)
    /\ validate_bounds(data.alg, data.bounds, data.failstack)
    /\ ValidSeeds(data.search, data.evaluation)

-----------------------------------------------------------------------------
(* A trial.                                                                *)

(* The fail-stack of the tuned agents: what the study fixes, over it what  *)
(* the candidate says; nothing if the fail-stack is off.                   *)
split_params(cand, data) ==
    [overrides |-> AlgorithmPart(cand),
     failstack |->
        IF ~ data.failstack THEN [key \in {} |-> 0]
        ELSE [key \in FAILSTACK_SEARCH_KEYS \cap (DOMAIN cand \cup DOMAIN data.fixed) |->
                IF key \in DOMAIN cand THEN cand[key] ELSE data.fixed[key]]]
=============================================================================
