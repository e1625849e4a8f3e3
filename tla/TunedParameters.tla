--------------------------- MODULE TunedParameters ---------------------------
(***************************************************************************)
(* Where the parameters of a run's policies come from, and what becomes of *)
(* those a study has found.  Stored defaults of an algorithm, the agents'  *)
(* own parameters and a candidate's overrides are laid over each other     *)
(* (context.py); a trial clones the scenario with its candidate            *)
(* (worker.py, library_service.py); a finished study is applied to the     *)
(* defaults or to the scenario (views_hpo.py); the algorithms page edits   *)
(* the defaults (algorithm_catalog.py, param_schema.py).                   *)
(*                                                                         *)
(* Parameters are functions on some of the Keys.  The published defaults   *)
(* and the checks of a config class are constants.  One study at a time,   *)
(* one trial at a time; the scenario and the defaults may be edited        *)
(* between any two of its steps.                                           *)
(***************************************************************************)
EXTENDS Naturals, FiniteSets, Functions

CONSTANTS
    Algorithms, Keys, Values,
    Published,       \* the class defaults of each algorithm
    ValidConfigs,    \* the configs each algorithm's class accepts
    SearchKeys,      \* what a candidate sets
    OwnParams,       \* parameters an imported agent may carry
    Agents,          \* positions of the scenario's agents
    Names, FoldCase, \* their names, and the lower case of a name
    FailStacks,      \* fail-stack settings of an agent
    MaxEdits, MaxStudies,
    NoRow, NoStudy

Configs == [Keys -> Values]
Params == UNION {[D -> Values] : D \in SUBSET Keys}
Candidates == [SearchKeys -> Values]

ASSUME TunedAssumption ==
    /\ Published \in [Algorithms -> Configs]
    /\ ValidConfigs \in [Algorithms -> SUBSET Configs]
    /\ \A alg \in Algorithms : Published[alg] \in ValidConfigs[alg]
    /\ SearchKeys \subseteq Keys /\ OwnParams \subseteq Params
    /\ Agents \subseteq Nat
    /\ NoRow \notin Algorithms
    /\ FoldCase \in [Names -> STRING]
    /\ MaxEdits \in Nat /\ MaxStudies \in Nat

VARIABLES
    default,   \* AlgorithmDefault rows: parameters and origin, or NoRow
    agent,     \* the scenario's agents: name, algorithm, own parameters, fail-stack
    study,     \* the study and its best parameters, or NoStudy
    trial,     \* its current trial: the run's agents and what they ran with
    won,       \* the trial that found the best parameters
    edits, studies

vars == <<default, agent, study, trial, won, edits, studies>>

-----------------------------------------------------------------------------
(* Precedence.                                                             *)

Over(top, base) ==
    [k \in DOMAIN top \cup DOMAIN base |-> IF k \in DOMAIN top THEN top[k] ELSE base[k]]

NoParams == [k \in {} |-> 0]

algorithm_defaults(rows) ==
    [alg \in Algorithms |-> IF rows[alg] = NoRow THEN NoParams ELSE rows[alg].params]

overrides_apply(alg, only) == only \in {NoRow, alg}

(* The effective parameters of a policy: defaults, then the agent's own if *)
(* it runs its own algorithm, then the overrides if they are meant for it. *)
agent_params(row, alg, rows, overrides, only) ==
    LET base == algorithm_defaults(rows)[alg]
        own  == IF alg = row.alg THEN Over(row.params, base) ELSE base
    IN  IF overrides_apply(alg, only) THEN Over(overrides, own) ELSE own

(* from_dict: missing parameters have the published value.                 *)
Config(alg, params) == Over(params, Published[alg])
Accepted(alg, params) == Config(alg, params) \in ValidConfigs[alg]

(* SimulationContext.build and the snapshot it writes.                     *)
Effective(rows, defaults, forced, overrides, only) ==
    [a \in Agents |->
        LET alg == IF forced = NoRow THEN rows[a].alg ELSE forced
        IN  [alg |-> alg, fs |-> rows[a].fs,
             config |-> Config(alg, agent_params(rows[a], alg, defaults, overrides, only))]]

Builds(effective) == \A a \in Agents : effective[a].config \in ValidConfigs[effective[a].alg]

Ordinary(rows, defaults) == Effective(rows, defaults, NoRow, NoParams, NoRow)

-----------------------------------------------------------------------------
Init ==
    /\ default = [alg \in Algorithms |-> NoRow]
    /\ agent \in [Agents -> [name : Names, alg : Algorithms,
                             params : OwnParams \cup {NoParams}, fs : FailStacks]]
    /\ IsInjective([a \in Agents |-> agent[a].name])
    /\ \A a \in Agents : Accepted(agent[a].alg, agent[a].params)
    /\ study = NoStudy /\ trial = NoRow /\ won = NoRow
    /\ edits = 0 /\ studies = 0

Edit == edits < MaxEdits /\ edits' = edits + 1

(* The wizard: another algorithm clears the agent's own parameters.        *)
EditAgent(a, name, alg, fs) ==
    /\ Edit
    /\ \A b \in Agents \ {a} : agent[b].name # name
    /\ agent' = [agent EXCEPT ![a] =
                    [name |-> name, alg |-> alg, fs |-> fs,
                     params |-> IF alg = @.alg THEN @.params ELSE NoParams]]
    /\ agent' # agent
    /\ UNCHANGED <<default, study, trial, won, studies>>

non_default_params(alg, config) ==
    Restrict(config, {k \in Keys : config[k] # Published[alg][k]})

(* save_defaults: a form that equals the published values deletes the row, *)
(* one that changes nothing keeps its origin.                              *)
Saved(alg, config) ==
    LET params == non_default_params(alg, config) IN
    IF DOMAIN params = {} THEN NoRow
    ELSE IF default[alg] # NoRow /\ Config(alg, default[alg].params) = config
         THEN default[alg]
         ELSE [params |-> params, origin |-> "CUSTOM", study |-> NoStudy]

SaveDefault(alg, config) ==
    /\ Edit
    /\ config \in ValidConfigs[alg]
    /\ default' = [default EXCEPT ![alg] = Saved(alg, config)]
    /\ UNCHANGED <<agent, study, trial, won, studies>>

ResetDefault(alg) ==
    /\ Edit
    /\ default[alg] # NoRow
    /\ default' = [default EXCEPT ![alg] = NoRow]
    /\ UNCHANGED <<agent, study, trial, won, studies>>

-----------------------------------------------------------------------------
(* A study.                                                                *)

Status == IF study = NoStudy THEN "NONE" ELSE study.status
Phase == IF trial = NoRow THEN "NONE" ELSE trial.phase

(* validate_study_input: MATCHING needs an agent of the algorithm.         *)
StudyCreate(target, alg, fs) ==
    /\ studies < MaxStudies
    /\ Status \in {"NONE", "FINISHED"}
    /\ target = "MATCHING" => \E a \in Agents : agent[a].alg = alg
    /\ studies' = studies + 1
    /\ study' = [id |-> studies', status |-> "RUNNING", target |-> target, alg |-> alg,
                 fs |-> fs, best |-> NoRow]
    /\ trial' = NoRow
    /\ UNCHANGED <<default, agent, won, edits>>

(* target_algorithms: the forced algorithm and the only one to override.   *)
Forced == IF study.target = "ALL" THEN study.alg ELSE NoRow
Only == IF study.target = "ALL" THEN NoRow ELSE study.alg

(* copy_agent: a name that an earlier agent has up to case gets a suffix.  *)
CloneName(a) ==
    IF \E b \in Agents : b < a /\ FoldCase[agent[b].name] = FoldCase[agent[a].name]
    THEN "renamed" ELSE agent[a].name

(* clone_scenario_for_run with a candidate.                                *)
Cloned(a, cand) ==
    LET alg   == IF Forced = NoRow THEN agent[a].alg ELSE Forced
        tuned == overrides_apply(alg, Only)
    IN  [name |-> CloneName(a), alg |-> alg,
         params |-> IF tuned THEN Over(cand, agent[a].params) ELSE agent[a].params,
         fs |-> IF tuned THEN study.fs ELSE agent[a].fs]

TrialClone(cand) ==
    /\ Status = "RUNNING"
    /\ Phase \in {"NONE", "DONE", "FAILED"}
    /\ trial' = [phase |-> "CLONED", study |-> study.id, cand |-> cand, seen |-> agent,
                 same |-> TRUE, rows |-> [a \in Agents |-> Cloned(a, cand)],
                 ran |-> NoRow, defaults |-> default]
    /\ UNCHANGED <<default, agent, study, won, edits, studies>>

(* Mutant of Foreign: agents of other algorithms are given their params.   *)
ForeignNone == {}

(* The parameters of another algorithm are dropped from the run's agents,  *)
(* which are found by the names the scenario has now.                      *)
Foreign ==
    {agent[a].name : a \in {b \in Agents : Only = NoRow /\ agent[b].alg # study.alg}}

TrialFix ==
    /\ Phase = "CLONED"
    /\ trial' = [trial EXCEPT
            !.phase = "FIXED",
            !.same = agent = trial.seen,
            !.rows = [a \in Agents |->
                IF @[a].name \in Foreign THEN [@[a] EXCEPT !.params = trial.cand] ELSE @[a]]]
    /\ UNCHANGED <<default, agent, study, won, edits, studies>>

TrialRun ==
    /\ Phase = "FIXED"
    /\ LET ran == Effective(trial.rows, default, Forced, trial.cand, Only) IN
       trial' = [trial EXCEPT !.phase = IF Builds(ran) THEN "DONE" ELSE "FAILED",
                              !.ran = ran, !.defaults = default]
    /\ UNCHANGED <<default, agent, study, won, edits, studies>>

StudyFinish ==
    /\ Status = "RUNNING"
    /\ Phase = "DONE"
    /\ study' = [study EXCEPT !.status = "FINISHED", !.best = trial.cand]
    /\ won' = trial
    /\ UNCHANGED <<default, agent, trial, edits, studies>>

Appliable == Status = "FINISHED"

ApplyToDefault ==
    /\ Edit
    /\ Appliable
    /\ LET merged == Over(study.best, algorithm_defaults(default)[study.alg]) IN
       /\ Accepted(study.alg, merged)
       /\ default' = [default EXCEPT ![study.alg] =
                        [params |-> merged, origin |-> "OPTIMIZED", study |-> study.id]]
    /\ UNCHANGED <<agent, study, trial, won, studies>>

(* The agents that are written: those of the algorithm, and the others too *)
(* if they are to be switched to it.                                       *)
Targets(switch) ==
    {a \in Agents : agent[a].alg = study.alg \/ (switch /\ study.target = "ALL")}

(* Mutant of Tuned: the params of the agent's old algorithm are kept.      *)
TunedMerged(a) ==
    [name |-> agent[a].name, alg |-> study.alg, fs |-> study.fs,
     params |-> Over(study.best, agent[a].params)]

Tuned(a) ==
    [name |-> agent[a].name, alg |-> study.alg, fs |-> study.fs,
     params |-> IF agent[a].alg = study.alg THEN Over(study.best, agent[a].params)
                                            ELSE study.best]

(* Mutant of ApplyToScenario: what is merged is not validated.             *)
ApplyToScenarioUnchecked(switch) ==
    /\ Edit
    /\ Appliable
    /\ Targets(switch) # {}
    /\ agent' = [a \in Agents |-> IF a \in Targets(switch) THEN Tuned(a) ELSE agent[a]]
    /\ UNCHANGED <<default, study, trial, won, studies>>

ApplyToScenario(switch) ==
    /\ Edit
    /\ Appliable
    /\ Targets(switch) # {}
    /\ \A a \in Targets(switch) : Accepted(study.alg, Tuned(a).params)
    /\ agent' = [a \in Agents |-> IF a \in Targets(switch) THEN Tuned(a) ELSE agent[a]]
    /\ UNCHANGED <<default, study, trial, won, studies>>

Next ==
    \/ \E a \in Agents, name \in Names, alg \in Algorithms, fs \in FailStacks :
          EditAgent(a, name, alg, fs)
    \/ \E alg \in Algorithms : \E config \in ValidConfigs[alg] : SaveDefault(alg, config)
    \/ \E alg \in Algorithms : ResetDefault(alg)
    \/ \E target \in {"ALL", "MATCHING"}, alg \in Algorithms, fs \in FailStacks :
          StudyCreate(target, alg, fs)
    \/ \E cand \in Candidates : TrialClone(cand)
    \/ TrialFix
    \/ TrialRun
    \/ StudyFinish
    \/ ApplyToDefault
    \/ \E switch \in BOOLEAN : ApplyToScenario(switch)

Spec == Init /\ [][Next]_vars

-----------------------------------------------------------------------------
\* A trial that no edit has overtaken runs what its study promises: under ALL
\* every agent runs the study's algorithm with the candidate over its own
\* parameters, which count only if they belong to that algorithm; under
\* MATCHING the agents of the algorithm do, and all others run exactly as in
\* an ordinary run of the scenario (evaluate_task).
TrialRunsCandidate ==
    Phase \in {"DONE", "FAILED"} /\ trial.same =>
    \A a \in Agents :
        LET row   == trial.seen[a]
            alg   == study.alg
            plain == algorithm_defaults(trial.defaults)[alg]
            own   == IF row.alg = alg THEN Over(row.params, plain) ELSE plain
        IN  trial.ran[a] =
              IF study.target = "ALL" \/ row.alg = alg
              THEN [alg |-> alg, fs |-> study.fs, config |-> Config(alg, Over(trial.cand, own))]
              ELSE Ordinary(trial.seen, trial.defaults)[a]

\* "A scenario agent's own algorithm_params belong to its own algorithm, so they
\* are dropped when that algorithm differs from the study algorithm"
\* (worker.py:151): no trial runs an agent with parameters it carried for another
\* algorithm. The run's agent is looked up by the scenario agent's name, which
\* the copy does not always keep.
ForeignParamsAreDropped ==
    Phase \in {"DONE", "FAILED"} /\ trial.same =>
    \A a \in Agents :
        trial.seen[a].alg # trial.ran[a].alg =>
        trial.ran[a].config = Config(study.alg, Over(trial.cand,
                                    algorithm_defaults(trial.defaults)[study.alg]))

\* Applying a study to the scenario it was run on makes an ordinary run of the
\* scenario use what the winning trial used, agent by agent, and leaves the
\* other agents alone; in particular such a run can be built. This needs that
\* neither the scenario nor the defaults were edited since (_apply_to_scenario
\* against evaluate_task and SimulationContext.build).
AppliedIsTuned ==
    [][ \A switch \in BOOLEAN :
          ( /\ ApplyToScenario(switch)
            /\ won.same /\ won.seen = agent /\ won.defaults = default ) =>
             \A a \in Agents :
                Ordinary(agent', default')[a] =
                    IF a \in Targets(switch) THEN won.ran[a] ELSE Ordinary(agent, default)[a] ]_vars

\* A default shown as the result of a study contains what that study found,
\* until somebody saves other values (defaults_origin, save_defaults,
\* _apply_to_default).
OriginIsTrue ==
    \A alg \in Algorithms :
        /\ default[alg] # NoRow /\ default[alg].origin = "OPTIMIZED"
        /\ study # NoStudy /\ default[alg].study = study.id
        => /\ study.alg = alg
           /\ \A k \in SearchKeys : Config(alg, default[alg].params)[k] = study.best[k]

\* Stored defaults and agents' own parameters are accepted by the config class
\* of their algorithm whatever is saved, edited, applied or switched, so that no
\* default on its own can stop a run (save_defaults, _validated_params).
StoredIsAccepted ==
    /\ \A alg \in Algorithms :
          default[alg] # NoRow => Accepted(alg, default[alg].params)
    /\ \A a \in Agents : Accepted(agent[a].alg, agent[a].params)

\* A stored parameter set is what its row says it is, and can be used.
StoredIsTrue == OriginIsTrue /\ StoredIsAccepted
=============================================================================
