------------------------ MODULE TunedParametersProofs ------------------------
(***************************************************************************)
(* A stored parameter set is what its row says and can be used, a trial    *)
(* runs its candidate, and a study that is applied is what its winner ran, *)
(* for every set of algorithms, keys, values, checks and agents.           *)
(*                                                                         *)
(* OriginIsTrue is not inductive: whether the row that a study leaves      *)
(* behind is right depends on when the study's best can still change, and  *)
(* on which studies the older rows came from.  Invariant adds that rows    *)
(* come from studies that have begun, that only a finished study has rows, *)
(* and that a trial which has run knows its candidate.  Tuning follows a   *)
(* trial from the copy of the scenario to the study that it wins.          *)
(*                                                                         *)
(* The inputs of MCTunedParameters stay what they are, so what is shown of *)
(* forms, learning starts and studies is shown of the operators: a value   *)
(* that is sent is read as the value again; any start that is not below    *)
(* the smallest one of a learner may take the place of its own; and the    *)
(* part of the unit interval that an integer gets is a whole quotient.     *)
(***************************************************************************)
EXTENDS FiniteSetTheorems, WellFoundedInduction, MCTunedParameters, TLAPS

FromStudy(alg) == default[alg] # NoRow /\ default[alg].origin = "OPTIMIZED"

\* What is known of one default, one agent, the study and its trial.
DefaultOK(alg) ==
    /\ default[alg] # NoRow =>
          default[alg].params \in Params /\ Accepted(alg, default[alg].params)
    /\ FromStudy(alg) => default[alg].study \in Nat /\ default[alg].study <= studies

AgentOK(a) ==
    /\ agent[a].alg \in Algorithms
    /\ agent[a].params \in Params
    /\ Accepted(agent[a].alg, agent[a].params)

StudyOK ==
    study # NoStudy =>
        /\ study \in [id : Nat, status : {"RUNNING", "FINISHED"},
                      target : {"ALL", "MATCHING"}, alg : Algorithms, fs : FailStacks,
                      best : Candidates \cup {NoRow}]
        /\ study.id = studies
        /\ study.status = "FINISHED" => study.best \in Candidates

TrialOK == trial # NoRow => "cand" \in DOMAIN trial /\ trial.cand \in Candidates

\* The rows that the present study has left behind.
Origin(alg) ==
    FromStudy(alg) /\ study # NoStudy /\ default[alg].study = study.id =>
        /\ study.status = "FINISHED"
        /\ study.alg = alg
        /\ \A k \in SearchKeys : Config(alg, default[alg].params)[k] = study.best[k]

Invariant ==
    /\ studies \in Nat
    /\ default \in [Algorithms -> {default[alg] : alg \in Algorithms}]
    /\ agent \in [Agents -> {agent[a] : a \in Agents}]
    /\ \A alg \in Algorithms : DefaultOK(alg) /\ Origin(alg)
    /\ \A a \in Agents : AgentOK(a)
    /\ StudyOK
    /\ TrialOK

-----------------------------------------------------------------------------
(* Parameters laid over each other.                                        *)

LEMMA ParamsAre ==
    ASSUME NEW p
    PROVE  p \in Params <=> DOMAIN p \subseteq Keys /\ p \in [DOMAIN p -> Values]
BY DEF Params

LEMMA NoParamsAre == NoParams \in Params /\ DOMAIN NoParams = {}
<1>1. DOMAIN NoParams = {} /\ NoParams \in [{} -> Values]
    BY DEF NoParams
<1> QED BY <1>1, ParamsAre

LEMMA CandidatesAre == Candidates \subseteq Params
BY TunedAssumption, ParamsAre DEF Candidates

\* Laying one parameter set over another gives a parameter set; over a whole
\* config it gives a whole config (agent_params, from_dict).
LEMMA OverIs ==
    ASSUME NEW top \in Params, NEW base \in Params
    PROVE  /\ Over(top, base) \in Params
           /\ DOMAIN Over(top, base) = DOMAIN top \cup DOMAIN base
           /\ \A k \in DOMAIN top : Over(top, base)[k] = top[k]
           /\ \A k \in DOMAIN base \ DOMAIN top : Over(top, base)[k] = base[k]
<1> DEFINE D == DOMAIN top \cup DOMAIN base
<1>1. /\ DOMAIN top \subseteq Keys /\ top \in [DOMAIN top -> Values]
      /\ DOMAIN base \subseteq Keys /\ base \in [DOMAIN base -> Values]
    BY ParamsAre
<1>2. \A k \in D : (IF k \in DOMAIN top THEN top[k] ELSE base[k]) \in Values
    BY <1>1
<1>3. Over(top, base) \in [D -> Values]
    BY <1>2 DEF Over
<1>4. DOMAIN Over(top, base) = D
    BY DEF Over
<1>5. Over(top, base) \in Params
    BY <1>1, <1>3, <1>4, ParamsAre
<1> QED BY <1>4, <1>5 DEF Over

LEMMA PublishedIs ==
    ASSUME NEW alg \in Algorithms
    PROVE  /\ Published[alg] \in Configs /\ Published[alg] \in Params
           /\ Published[alg] \in ValidConfigs[alg]
           /\ ValidConfigs[alg] \subseteq Configs
<1>1. Published[alg] \in Configs /\ Published[alg] \in ValidConfigs[alg]
    BY TunedAssumption
<1>2. ValidConfigs[alg] \subseteq Configs
    BY TunedAssumption
<1> QED BY <1>1, <1>2, ParamsAre DEF Configs

\* An agent without parameters of its own can always run.
LEMMA NoParamsAccepted ==
    ASSUME NEW alg \in Algorithms
    PROVE  Accepted(alg, NoParams)
<1>1. Config(alg, NoParams) = Published[alg]
    BY PublishedIs, NoParamsAre DEF Config, Over, Configs
<1> QED BY <1>1, PublishedIs DEF Accepted

\* What is stored of a config is enough to get it back (non_default_params).
LEMMA Restored ==
    ASSUME NEW alg \in Algorithms, NEW config \in Configs
    PROVE  /\ non_default_params(alg, config) \in Params
           /\ Config(alg, non_default_params(alg, config)) = config
<1> DEFINE S == {k \in Keys : config[k] # Published[alg][k]}
           p == non_default_params(alg, config)
<1>1. p = [k \in S |-> config[k]]
    BY DEF non_default_params, Restrict
<1>2. DOMAIN p = S /\ p \in [S -> Values]
    BY <1>1 DEF Configs
<1>3. p \in Params
    BY <1>2, ParamsAre
<1>4. Published[alg] \in [Keys -> Values] /\ config \in [Keys -> Values]
    BY PublishedIs DEF Configs
<1>5. S \cup Keys = Keys
    OBVIOUS
<1>6. Config(alg, p) = [k \in Keys |-> IF k \in S THEN p[k] ELSE Published[alg][k]]
    BY <1>2, <1>4, <1>5 DEF Config, Over
<1>7. \A k \in Keys : (IF k \in S THEN p[k] ELSE Published[alg][k]) = config[k]
    BY <1>1
<1>8. Config(alg, p) = config
    BY <1>4, <1>6, <1>7
<1> QED BY <1>3, <1>8

-----------------------------------------------------------------------------
LEMMA InitInvariant == Init => Invariant
<1> SUFFICES ASSUME Init PROVE Invariant
    OBVIOUS
<1>1. studies \in Nat /\ studies = 0
    BY DEF Init
<1>2. default \in [Algorithms -> {default[alg] : alg \in Algorithms}]
    BY DEF Init
<1>3. agent \in [Agents -> [name : Names, alg : Algorithms,
                            params : OwnParams \cup {NoParams}, fs : FailStacks]]
    BY DEF Init
<1>4. agent \in [Agents -> {agent[a] : a \in Agents}]
    BY <1>3
<1>5. \A alg \in Algorithms : DefaultOK(alg) /\ Origin(alg)
    BY DEF Init, DefaultOK, Origin, FromStudy
<1>6. ASSUME NEW a \in Agents PROVE AgentOK(a)
    <2>1. agent[a].alg \in Algorithms /\ agent[a].params \in OwnParams \cup {NoParams}
        BY <1>3
    <2>2. agent[a].params \in Params
        BY <2>1, NoParamsAre, TunedAssumption
    <2>3. Accepted(agent[a].alg, agent[a].params)
        BY DEF Init
    <2> QED BY <2>1, <2>2, <2>3 DEF AgentOK
<1>7. StudyOK /\ TrialOK
    BY DEF Init, StudyOK, TrialOK
<1> QED BY <1>1, <1>2, <1>4, <1>5, <1>6, <1>7 DEF Invariant

\* What a step leaves alone stays right.
LEMMA DefaultsKept ==
    ASSUME Invariant, default' = default, studies' = studies
    PROVE  \A alg \in Algorithms : DefaultOK(alg)'
BY DEF Invariant, DefaultOK, FromStudy, Accepted, Config

LEMMA OriginsKept ==
    ASSUME Invariant, default' = default, study' = study
    PROVE  \A alg \in Algorithms : Origin(alg)'
BY DEF Invariant, Origin, FromStudy, Config

LEMMA AgentsKept ==
    ASSUME Invariant, agent' = agent
    PROVE  \A a \in Agents : AgentOK(a)'
BY DEF Invariant, AgentOK, Accepted, Config

LEMMA StudyKept ==
    ASSUME Invariant, study' = study, studies' = studies
    PROVE  StudyOK'
BY DEF Invariant, StudyOK

LEMMA TrialKept ==
    ASSUME Invariant, trial' = trial
    PROVE  TrialOK'
BY DEF Invariant, TrialOK

\* One agent row that is written with accepted parameters.
LEMMA EditAgentKeeps ==
    ASSUME Invariant, NEW a \in Agents, NEW name \in Names, NEW alg \in Algorithms,
           NEW fs \in FailStacks, EditAgent(a, name, alg, fs)
    PROVE  Invariant'
<1> DEFINE new == [name |-> name, alg |-> alg, fs |-> fs,
                   params |-> IF alg = agent[a].alg THEN agent[a].params ELSE NoParams]
<1>1. agent' = [agent EXCEPT ![a] = new] /\ agent \in [Agents -> {agent[b] : b \in Agents}]
    BY DEF EditAgent, Invariant
<1>2. UNCHANGED <<default, study, trial, studies>>
    BY DEF EditAgent
<1>3. \A b \in Agents : agent'[b] = IF b = a THEN new ELSE agent[b]
    BY <1>1
<1>4. agent' \in [Agents -> {agent'[b] : b \in Agents}]
    BY <1>1
<1>5. ASSUME NEW b \in Agents PROVE AgentOK(b)'
    <2>1. AgentOK(b) /\ AgentOK(a)
        BY DEF Invariant
    <2>2. CASE b # a
        BY <1>3, <2>1, <2>2 DEF AgentOK, Accepted, Config
    <2>3. CASE b = a
        <3>1. new.alg = alg /\ new.params \in Params /\ Accepted(alg, new.params)
            BY <2>1, <2>3, NoParamsAre, NoParamsAccepted DEF AgentOK
        <3>2. agent'[b] = new
            BY <1>3, <2>3
        <3> QED BY <3>1, <3>2 DEF AgentOK, Accepted, Config
    <2> QED BY <2>2, <2>3
<1> QED
    BY <1>2, <1>4, <1>5, DefaultsKept, OriginsKept, StudyKept, TrialKept DEF Invariant

\* One row of the defaults that is written or deleted.
LEMMA RowWritten ==
    ASSUME Invariant, NEW alg \in Algorithms, NEW row,
           default' = [default EXCEPT ![alg] = row],
           UNCHANGED <<agent, study, trial, studies>>,
           row = NoRow \/ (row.params \in Params /\ Accepted(alg, row.params)),
           row = NoRow \/ row.origin # "OPTIMIZED" \/ row = default[alg]
           \/ ( /\ study # NoStudy /\ study.status = "FINISHED" /\ study.alg = alg
                /\ row.study = study.id
                /\ \A k \in SearchKeys : Config(alg, row.params)[k] = study.best[k] )
    PROVE  Invariant'
<1>1. default' \in [Algorithms -> {default'[x] : x \in Algorithms}]
    BY DEF Invariant
<1>2. \A x \in Algorithms : default'[x] = IF x = alg THEN row ELSE default[x]
    BY DEF Invariant
<1>3. ASSUME NEW x \in Algorithms PROVE DefaultOK(x)' /\ Origin(x)'
    <2>1. DefaultOK(x) /\ Origin(x)
        BY DEF Invariant
    <2>2. CASE x # alg \/ row = default[alg]
        <3>1. default'[x] = default[x] /\ study' = study /\ studies' = studies
            BY <1>2, <2>2
        <3> QED BY <2>1, <3>1 DEF DefaultOK, Origin, FromStudy, Accepted, Config
    <2>3. CASE x = alg /\ row # default[alg]
        <3>1. default'[x] = row /\ study' = study /\ studies' = studies
            BY <1>2, <2>3
        <3>2. study # NoStudy => study.id \in Nat /\ study.id = studies
            BY DEF Invariant, StudyOK
        <3>3. DefaultOK(x)'
            BY <2>3, <3>1, <3>2 DEF DefaultOK, FromStudy, Accepted, Config
        <3>4. Origin(x)'
            BY <2>3, <3>1 DEF Origin, FromStudy, Config
        <3> QED BY <3>3, <3>4
    <2> QED BY <2>2, <2>3
<1>4. agent' \in [Agents -> {agent'[a] : a \in Agents}] /\ studies' \in Nat
    BY DEF Invariant
<1> QED BY <1>1, <1>3, <1>4, AgentsKept, StudyKept, TrialKept DEF Invariant

LEMMA SaveDefaultKeeps ==
    ASSUME Invariant, NEW alg \in Algorithms, NEW config \in ValidConfigs[alg],
           SaveDefault(alg, config)
    PROVE  Invariant'
<1> DEFINE p == non_default_params(alg, config)
           row == Saved(alg, config)
<1>1. default' = [default EXCEPT ![alg] = row] /\ UNCHANGED <<agent, study, trial, studies>>
    BY DEF SaveDefault
<1>2. p \in Params /\ Accepted(alg, p)
    BY PublishedIs, Restored DEF Accepted
<1>3. DefaultOK(alg)
    BY DEF Invariant
<1>4. \/ row = NoRow
      \/ row = default[alg] /\ default[alg] # NoRow
      \/ row = [params |-> p, origin |-> "CUSTOM", study |-> NoStudy]
    BY DEF Saved
<1>5. row = NoRow \/ (row.params \in Params /\ Accepted(alg, row.params))
    BY <1>2, <1>3, <1>4 DEF DefaultOK
<1>6. row = NoRow \/ row.origin # "OPTIMIZED" \/ row = default[alg]
    BY <1>4
<1> HIDE DEF row
<1> QED BY <1>1, <1>5, <1>6, RowWritten

LEMMA ResetDefaultKeeps ==
    ASSUME Invariant, NEW alg \in Algorithms, ResetDefault(alg)
    PROVE  Invariant'
BY RowWritten DEF ResetDefault

\* A new study: no row comes from it yet.
LEMMA StudyCreateKeeps ==
    ASSUME Invariant, NEW target \in {"ALL", "MATCHING"}, NEW alg \in Algorithms,
           NEW fs \in FailStacks, StudyCreate(target, alg, fs)
    PROVE  Invariant'
<1>1. /\ study' = [id |-> studies + 1, status |-> "RUNNING", target |-> target,
                   alg |-> alg, fs |-> fs, best |-> NoRow]
      /\ studies' = studies + 1 /\ trial' = NoRow
      /\ default' = default /\ agent' = agent
    BY DEF StudyCreate
<1>2. studies \in Nat /\ studies' \in Nat
    BY <1>1 DEF Invariant
<1>3. StudyOK' /\ TrialOK'
    BY <1>1, <1>2 DEF StudyOK, TrialOK
<1>4. ASSUME NEW x \in Algorithms PROVE DefaultOK(x)' /\ Origin(x)'
    <2>1. DefaultOK(x)
        BY DEF Invariant
    <2>2. DefaultOK(x)'
        BY <1>1, <1>2, <2>1 DEF DefaultOK, FromStudy, Accepted, Config
    <2>3. FromStudy(x)' => default'[x].study # study'.id
        BY <1>1, <1>2, <2>1 DEF DefaultOK, FromStudy
    <2> QED BY <2>2, <2>3 DEF Origin
<1>5. /\ default' \in [Algorithms -> {default'[x] : x \in Algorithms}]
      /\ agent' \in [Agents -> {agent'[a] : a \in Agents}]
    BY <1>1 DEF Invariant
<1> QED BY <1>1, <1>2, <1>3, <1>4, <1>5, AgentsKept DEF Invariant

\* The steps of a trial: it knows its candidate from the clone on.
LEMMA TrialKeeps ==
    ASSUME Invariant,
           (\E cand \in Candidates : TrialClone(cand)) \/ TrialFix \/ TrialRun
    PROVE  Invariant'
<1>1. UNCHANGED <<default, agent, study, studies>>
    BY DEF TrialClone, TrialFix, TrialRun
<1>2. TrialOK'
    <2>1. CASE \E cand \in Candidates : TrialClone(cand)
        BY <2>1 DEF TrialClone, TrialOK
    <2>2. CASE TrialFix
        <3>1. trial # NoRow
            BY <2>2 DEF TrialFix, Phase
        <3>2. "cand" \in DOMAIN trial /\ trial.cand \in Candidates
            BY <3>1 DEF Invariant, TrialOK
        <3>3. "cand" \in DOMAIN trial' /\ trial'.cand = trial.cand
            BY <2>2, <3>2 DEF TrialFix
        <3> QED BY <3>2, <3>3 DEF TrialOK
    <2>3. CASE TrialRun
        <3>1. trial # NoRow
            BY <2>3 DEF TrialRun, Phase
        <3>2. "cand" \in DOMAIN trial /\ trial.cand \in Candidates
            BY <3>1 DEF Invariant, TrialOK
        <3>3. "cand" \in DOMAIN trial' /\ trial'.cand = trial.cand
            BY <2>3, <3>2 DEF TrialRun
        <3> QED BY <3>2, <3>3 DEF TrialOK
    <2> QED BY <2>1, <2>2, <2>3
<1>3. /\ default' \in [Algorithms -> {default'[x] : x \in Algorithms}]
      /\ agent' \in [Agents -> {agent'[a] : a \in Agents}]
      /\ studies' \in Nat
    BY <1>1 DEF Invariant
<1> QED BY <1>1, <1>2, <1>3, DefaultsKept, OriginsKept, AgentsKept, StudyKept DEF Invariant

\* The best parameters change only before any row comes from the study.
LEMMA StudyFinishKeeps ==
    ASSUME Invariant, StudyFinish
    PROVE  Invariant'
<1>1. study # NoStudy /\ study.status = "RUNNING"
    BY DEF StudyFinish, Status
<1>2. trial # NoRow /\ trial.cand \in Candidates
    <2>1. trial # NoRow
        BY DEF StudyFinish, Phase
    <2> QED BY <2>1 DEF Invariant, TrialOK
<1>3. /\ study' = [study EXCEPT !.status = "FINISHED", !.best = trial.cand]
      /\ UNCHANGED <<default, agent, trial, studies>>
    BY DEF StudyFinish
<1>4. study \in [id : Nat, status : {"RUNNING", "FINISHED"},
                 target : {"ALL", "MATCHING"}, alg : Algorithms, fs : FailStacks,
                 best : Candidates \cup {NoRow}] /\ study.id = studies
    BY <1>1 DEF Invariant, StudyOK
<1>5. /\ study' \in [id : Nat, status : {"RUNNING", "FINISHED"},
                     target : {"ALL", "MATCHING"}, alg : Algorithms, fs : FailStacks,
                     best : Candidates \cup {NoRow}]
      /\ study'.id = study.id /\ study'.best = trial.cand
    BY <1>2, <1>3, <1>4
<1>6. StudyOK'
    BY <1>2, <1>3, <1>4, <1>5 DEF StudyOK
<1>7. ASSUME NEW alg \in Algorithms PROVE Origin(alg)'
    <2>1. Origin(alg)
        BY DEF Invariant
    <2>2. FromStudy(alg) => default[alg].study # study.id
        BY <1>1, <2>1 DEF Origin
    <2> QED BY <1>3, <1>5, <2>2 DEF Origin, FromStudy
<1>8. /\ default' \in [Algorithms -> {default'[x] : x \in Algorithms}]
      /\ agent' \in [Agents -> {agent'[a] : a \in Agents}]
      /\ studies' \in Nat
    BY <1>3 DEF Invariant
<1> QED BY <1>3, <1>6, <1>7, <1>8, DefaultsKept, AgentsKept, TrialKept DEF Invariant

\* The best parameters laid over the defaults are the study's on its keys.
LEMMA ApplyToDefaultKeeps ==
    ASSUME Invariant, ApplyToDefault
    PROVE  Invariant'
<1> DEFINE alg == study.alg
           base == algorithm_defaults(default)[alg]
           merged == Over(study.best, base)
           row == [params |-> merged, origin |-> "OPTIMIZED", study |-> study.id]
<1>1. study # NoStudy /\ study.status = "FINISHED"
    BY DEF ApplyToDefault, Appliable, Status
<1>2. alg \in Algorithms /\ study.best \in Candidates
    BY <1>1 DEF Invariant, StudyOK
<1>3. /\ Accepted(alg, merged)
      /\ default' = [default EXCEPT ![alg] = row]
      /\ UNCHANGED <<agent, study, trial, studies>>
    BY DEF ApplyToDefault
<1>4. base \in Params
    BY <1>2, NoParamsAre DEF algorithm_defaults, Invariant, DefaultOK
<1>5. study.best \in Params /\ DOMAIN study.best = SearchKeys
    BY <1>2, CandidatesAre DEF Candidates
<1>6. merged \in Params /\ DOMAIN merged = SearchKeys \cup DOMAIN base
      /\ \A k \in SearchKeys : merged[k] = study.best[k]
    <2> HIDE DEF base
    <2> QED BY <1>4, <1>5, OverIs
<1>7. \A k \in SearchKeys : Config(alg, merged)[k] = study.best[k]
    <2>1. Published[alg] \in Params /\ SearchKeys \subseteq DOMAIN merged
        BY <1>2, <1>6, PublishedIs
    <2> HIDE DEF merged, alg
    <2>2. \A k \in DOMAIN merged : Over(merged, Published[alg])[k] = merged[k]
        BY <1>6, <2>1, OverIs
    <2> QED BY <1>6, <2>1, <2>2 DEF Config
<1>8. row.params = merged /\ row.study = study.id
    OBVIOUS
<1> HIDE DEF row, merged, alg
<1>9. alg = study.alg
    BY DEF alg
<1> QED BY <1>1, <1>2, <1>3, <1>6, <1>7, <1>8, <1>9, RowWritten

LEMMA ApplyToScenarioKeeps ==
    ASSUME Invariant, NEW switch \in BOOLEAN, ApplyToScenario(switch)
    PROVE  Invariant'
<1>1. study # NoStudy /\ study.status = "FINISHED"
    BY DEF ApplyToScenario, Appliable, Status
<1>2. study.alg \in Algorithms /\ study.best \in Params
    BY <1>1, CandidatesAre DEF Invariant, StudyOK
<1>3. agent' = [a \in Agents |-> IF a \in Targets(switch) THEN Tuned(a) ELSE agent[a]]
    BY DEF ApplyToScenario
<1>4. UNCHANGED <<default, study, trial, studies>>
    BY DEF ApplyToScenario
<1>5. ASSUME NEW a \in Agents PROVE AgentOK(a)'
    <2>1. AgentOK(a)
        BY DEF Invariant
    <2>2. CASE a \notin Targets(switch)
        <3>1. agent'[a] = agent[a]
            BY <1>3, <2>2
        <3> QED BY <2>1, <3>1 DEF AgentOK, Accepted, Config
    <2>3. CASE a \in Targets(switch)
        <3>1. agent'[a] = Tuned(a)
            BY <1>3, <2>3
        <3>2. Accepted(study.alg, Tuned(a).params)
            BY <2>3 DEF ApplyToScenario
        <3>3. Tuned(a).alg = study.alg
            BY DEF Tuned
        <3>4. Tuned(a).params \in Params
            <4>1. Over(study.best, agent[a].params) \in Params
                BY <1>2, <2>1, OverIs DEF AgentOK
            <4> QED BY <1>2, <4>1 DEF Tuned
        <3> QED BY <1>2, <3>1, <3>2, <3>3, <3>4 DEF AgentOK, Accepted, Config
    <2> QED BY <2>2, <2>3
<1>6. agent' \in [Agents -> {agent'[a] : a \in Agents}]
    BY <1>3
<1>7. /\ default' \in [Algorithms -> {default'[x] : x \in Algorithms}]
      /\ studies' \in Nat
    BY <1>4 DEF Invariant
<1> QED
    BY <1>4, <1>5, <1>6, <1>7, DefaultsKept, OriginsKept, StudyKept, TrialKept DEF Invariant

LEMMA NextKeeps == Invariant /\ [Next]_vars => Invariant'
<1> SUFFICES ASSUME Invariant, [Next]_vars PROVE Invariant'
    OBVIOUS
<1>1. ASSUME NEW a \in Agents, NEW name \in Names, NEW alg \in Algorithms,
             NEW fs \in FailStacks, EditAgent(a, name, alg, fs)
      PROVE  Invariant'
    BY <1>1, EditAgentKeeps
<1>2. ASSUME NEW alg \in Algorithms, NEW config \in ValidConfigs[alg],
             SaveDefault(alg, config)
      PROVE  Invariant'
    BY <1>2, SaveDefaultKeeps
<1>3. ASSUME NEW alg \in Algorithms, ResetDefault(alg) PROVE Invariant'
    BY <1>3, ResetDefaultKeeps
<1>4. ASSUME NEW target \in {"ALL", "MATCHING"}, NEW alg \in Algorithms,
             NEW fs \in FailStacks, StudyCreate(target, alg, fs)
      PROVE  Invariant'
    BY <1>4, StudyCreateKeeps
<1>5. CASE (\E cand \in Candidates : TrialClone(cand)) \/ TrialFix \/ TrialRun
    BY <1>5, TrialKeeps
<1>6. CASE StudyFinish
    BY <1>6, StudyFinishKeeps
<1>7. CASE ApplyToDefault
    BY <1>7, ApplyToDefaultKeeps
<1>8. ASSUME NEW switch \in BOOLEAN, ApplyToScenario(switch) PROVE Invariant'
    BY <1>8, ApplyToScenarioKeeps
<1>9. CASE UNCHANGED vars
    <2>1. UNCHANGED <<default, agent, study, trial, studies>>
        BY <1>9 DEF vars
    <2>2. /\ default' \in [Algorithms -> {default'[x] : x \in Algorithms}]
          /\ agent' \in [Agents -> {agent'[a] : a \in Agents}]
          /\ studies' \in Nat
        BY <2>1 DEF Invariant
    <2> QED
        BY <2>1, <2>2, DefaultsKept, OriginsKept, AgentsKept, StudyKept, TrialKept
        DEF Invariant
<1> QED
    BY <1>1, <1>2, <1>3, <1>4, <1>5, <1>6, <1>7, <1>8, <1>9 DEF Next

\* A default that a study left behind holds what the study found, and every
\* stored default and every agent's own parameters are accepted by the config
\* class of their algorithm, whatever is saved, edited, applied or switched
\* (algorithm_catalog.save_defaults, views_hpo._apply_to_default,
\* _apply_to_scenario).
THEOREM StoredIsRight == Spec => []StoredIsTrue
<1>1. Invariant => StoredIsTrue
    <2> SUFFICES ASSUME Invariant PROVE StoredIsTrue
        OBVIOUS
    <2>1. OriginIsTrue
        BY DEF Invariant, OriginIsTrue, Origin, FromStudy
    <2>2. StoredIsAccepted
        BY DEF Invariant, StoredIsAccepted, DefaultOK, AgentOK
    <2> QED BY <2>1, <2>2 DEF StoredIsTrue
<1> QED BY <1>1, InitInvariant, NextKeeps, PTL DEF Spec

-----------------------------------------------------------------------------
(* What a trial runs, and what becomes of it when it is applied.  The      *)
(* names by which the run's agents are found are those of the scenario     *)
(* only if no two of them are the same up to case (NamesDiffer).           *)

NamesDiffer == \A m, n \in Names : FoldCase[m] = FoldCase[n] => m = n

\* A trial tunes an agent if it runs the study's algorithm.
Takes(t, s, a) == s.target = "ALL" \/ t.seen[a].alg = s.alg

\* The scenario that was copied; its names tell its agents apart.
SeenOK(seen) ==
    \A a \in Agents :
        /\ seen[a].alg \in Algorithms /\ seen[a].params \in Params
        /\ seen[a].name \in Names
        /\ \A b \in Agents : seen[a].name = seen[b].name => a = b

\* Tuned agents have the candidate over their own parameters, or alone if those
\* belong to another algorithm.
RowsFixed(t, s) ==
    \A a \in Agents :
        LET row == t.seen[a] IN
        /\ Takes(t, s, a) =>
              /\ t.rows[a].alg = s.alg /\ t.rows[a].fs = s.fs
              /\ t.rows[a].params = IF row.alg = s.alg THEN Over(t.cand, row.params)
                                                       ELSE t.cand
        /\ ~Takes(t, s, a) =>
              t.rows[a].alg = row.alg /\ t.rows[a].fs = row.fs /\ t.rows[a].params = row.params

\* TrialRunsCandidate of one trial of one study.
RunsCandidate(t, s) ==
    \A a \in Agents :
        LET row   == t.seen[a]
            plain == algorithm_defaults(t.defaults)[s.alg]
            own   == IF row.alg = s.alg THEN Over(row.params, plain) ELSE plain
        IN  t.ran[a] =
              IF Takes(t, s, a)
              THEN [alg |-> s.alg, fs |-> s.fs, config |-> Config(s.alg, Over(t.cand, own))]
              ELSE Ordinary(t.seen, t.defaults)[a]

\* What the copy of the scenario has: its names, and the candidate where it tunes.
CopiedFrom(t, s) ==
    \A a \in Agents :
        LET alg == IF s.target = "ALL" THEN s.alg ELSE t.seen[a].alg
        IN  /\ t.rows[a].name = t.seen[a].name /\ t.rows[a].alg = alg
            /\ t.rows[a] = [name |-> t.rows[a].name, alg |-> t.rows[a].alg,
                            params |-> t.rows[a].params, fs |-> t.rows[a].fs]
            /\ t.rows[a].params = IF Takes(t, s, a) THEN Over(t.cand, t.seen[a].params)
                                                    ELSE t.seen[a].params
            /\ t.rows[a].fs = IF Takes(t, s, a) THEN s.fs ELSE t.seen[a].fs

TrialFields == {"phase", "cand", "seen", "same", "rows", "ran", "defaults"}

\* The trial, at each of its steps.
TrialTrue ==
    trial # NoRow =>
        /\ study.alg \in Algorithms
        /\ TrialFields \subseteq DOMAIN trial
        /\ SeenOK(trial.seen)
        /\ trial.phase = "CLONED" => CopiedFrom(trial, study)
        /\ trial.phase = "FIXED" /\ trial.same => RowsFixed(trial, study)
        /\ trial.phase \in {"DONE", "FAILED"} /\ trial.same => RunsCandidate(trial, study)

\* The trial that a finished study has taken its parameters from.
WonTrue ==
    study # NoStudy /\ study.status = "FINISHED" =>
        /\ won.cand = study.best
        /\ won.same => RunsCandidate(won, study)

Tuning == SeenOK(agent) /\ TrialTrue /\ WonTrue

\* Parameters laid over each other twice.
LEMMA OverTwice ==
    ASSUME NEW top \in Params, NEW mid \in Params, NEW base \in Params
    PROVE  /\ Over(Over(top, mid), base) = Over(top, Over(mid, base))
           /\ Over(top, Over(Over(top, mid), base)) = Over(top, Over(mid, base))
           /\ Over(top, Over(top, base)) = Over(top, base)
           /\ Over(NoParams, base) = base
<1> DEFINE D == DOMAIN top \cup DOMAIN mid \cup DOMAIN base
           f == Over(top, Over(mid, base))
<1>1. DOMAIN Over(top, mid) = DOMAIN top \cup DOMAIN mid
      /\ DOMAIN Over(mid, base) = DOMAIN mid \cup DOMAIN base
    BY DEF Over
<1>2. f = [k \in D |-> IF k \in DOMAIN top THEN top[k]
                       ELSE IF k \in DOMAIN mid THEN mid[k] ELSE base[k]]
    BY <1>1 DEF Over
<1>3. Over(Over(top, mid), base) = f
    BY <1>1, <1>2 DEF Over
<1>4. Over(top, Over(Over(top, mid), base)) = f
    BY <1>1, <1>2, <1>3 DEF Over
<1>5. Over(top, Over(top, base)) = Over(top, base)
    BY DEF Over
<1>6. Over(NoParams, base) = base
    BY NoParamsAre, ParamsAre DEF Over
<1> QED BY <1>3, <1>4, <1>5, <1>6

LEMMA DefaultsAre ==
    ASSUME Invariant, NEW alg \in Algorithms
    PROVE  algorithm_defaults(default)[alg] \in Params
BY NoParamsAre DEF algorithm_defaults, Invariant, DefaultOK

\* The target of a study, as the clone and the run take it.
LEMMA TargetIs ==
    ASSUME study.alg \in Algorithms
    PROVE  /\ study.alg # NoRow
           /\ study.target = "ALL" => Forced = study.alg /\ Only = NoRow
           /\ study.target # "ALL" => Forced = NoRow /\ Only = study.alg
           /\ \A alg : overrides_apply(alg, Only) <=> study.target = "ALL" \/ alg = study.alg
BY TunedAssumption DEF Forced, Only, overrides_apply
-----------------------------------------------------------------------------
\* The copy keeps the names and tunes the agents that the study is about.
LEMMA ClonedIs ==
    ASSUME Invariant, Tuning, NamesDiffer, NEW cand \in Candidates, TrialClone(cand)
    PROVE  TrialTrue'
<1>1. study.alg \in Algorithms /\ study' = study /\ agent' = agent
    BY DEF TrialClone, Status, Invariant, StudyOK
<1>2. /\ trial'.phase = "CLONED" /\ trial'.cand = cand /\ trial'.seen = agent
      /\ trial'.rows = [a \in Agents |-> Cloned(a, cand)]
      /\ TrialFields \subseteq DOMAIN trial'
    BY DEF TrialClone, TrialFields
<1>3. SeenOK(trial'.seen)
    BY <1>2 DEF Tuning
<1>4. ASSUME NEW a \in Agents
      PROVE  /\ CloneName(a) = agent[a].name
             /\ agent[a].alg \in Algorithms
    <2>1. SeenOK(agent) /\ \A b \in Agents : b \in Nat
        BY TunedAssumption DEF Tuning
    <2>2. \A b \in Agents : b < a => b # a
        BY <2>1
    <2>3. \A b \in Agents : b < a => agent[b].name # agent[a].name
        BY <2>1, <2>2 DEF SeenOK
    <2>4. \A b \in Agents : b < a => FoldCase[agent[b].name] # FoldCase[agent[a].name]
        BY <2>1, <2>3 DEF SeenOK, NamesDiffer
    <2> QED BY <2>1, <2>4 DEF CloneName, SeenOK
<1>5. CopiedFrom(trial', study)
    <2> SUFFICES ASSUME NEW a \in Agents
        PROVE  LET t == trial'
                   alg == IF study.target = "ALL" THEN study.alg ELSE t.seen[a].alg
               IN  /\ t.rows[a].name = t.seen[a].name /\ t.rows[a].alg = alg
                   /\ t.rows[a] = [name |-> t.rows[a].name, alg |-> t.rows[a].alg,
                                   params |-> t.rows[a].params, fs |-> t.rows[a].fs]
                   /\ t.rows[a].params = IF Takes(t, study, a)
                                         THEN Over(t.cand, t.seen[a].params)
                                         ELSE t.seen[a].params
                   /\ t.rows[a].fs = IF Takes(t, study, a) THEN study.fs ELSE t.seen[a].fs
        BY DEF CopiedFrom
    <2> DEFINE alg == IF study.target = "ALL" THEN study.alg ELSE agent[a].alg
    <2>1. alg = IF Forced = NoRow THEN agent[a].alg ELSE Forced
        BY <1>1, TargetIs
    <2>2. overrides_apply(alg, Only) <=> Takes(trial', study, a)
        BY <1>1, <1>2, TargetIs DEF Takes
    <2> HIDE DEF alg
    <2>3. trial'.rows[a] =
            [name |-> CloneName(a), alg |-> alg,
             params |-> IF overrides_apply(alg, Only) THEN Over(cand, agent[a].params)
                                                       ELSE agent[a].params,
             fs |-> IF overrides_apply(alg, Only) THEN study.fs ELSE agent[a].fs]
        BY <1>2, <2>1 DEF Cloned
    <2> QED BY <1>2, <1>4, <2>2, <2>3 DEF alg
<1> QED BY <1>1, <1>2, <1>3, <1>5 DEF TrialTrue

\* The agents whose parameters are dropped are those of other algorithms.
LEMMA FixedIs ==
    ASSUME Invariant, Tuning, TrialFix
    PROVE  TrialTrue'
<1>1. trial # NoRow /\ trial.phase = "CLONED" /\ study' = study
    BY DEF TrialFix, Phase
<1>2. /\ study.alg \in Algorithms /\ TrialFields \subseteq DOMAIN trial /\ SeenOK(trial.seen)
      /\ CopiedFrom(trial, study)
    BY <1>1 DEF Tuning, TrialTrue
<1>3. /\ trial'.phase = "FIXED" /\ trial'.seen = trial.seen /\ trial'.cand = trial.cand
      /\ trial'.same = (agent = trial.seen)
      /\ trial'.rows = [a \in Agents |-> IF trial.rows[a].name \in Foreign
                                         THEN [trial.rows[a] EXCEPT !.params = trial.cand]
                                         ELSE trial.rows[a]]
      /\ TrialFields \subseteq DOMAIN trial'
    BY <1>2 DEF TrialFix, TrialFields
<1>4. ASSUME agent = trial.seen PROVE RowsFixed(trial', study)
    <2> SUFFICES ASSUME NEW a \in Agents
        PROVE  LET t == trial'
                   row == t.seen[a] IN
               /\ Takes(t, study, a) =>
                     /\ t.rows[a].alg = study.alg /\ t.rows[a].fs = study.fs
                     /\ t.rows[a].params = IF row.alg = study.alg
                                           THEN Over(t.cand, row.params) ELSE t.cand
               /\ ~Takes(t, study, a) =>
                     /\ t.rows[a].alg = row.alg /\ t.rows[a].fs = row.fs
                     /\ t.rows[a].params = row.params
        BY DEF RowsFixed
    <2>1. trial.rows[a].name \in Foreign
          <=> study.target = "ALL" /\ trial.seen[a].alg # study.alg
        <3>1. trial.rows[a].name = agent[a].name
            BY <1>2, <1>4 DEF CopiedFrom
        <3>2. \A b \in Agents : agent[a].name = agent[b].name => a = b
            BY <1>2, <1>4 DEF SeenOK
        <3>3. Foreign = {agent[b].name : b \in {c \in Agents : study.target = "ALL"
                                                   /\ agent[c].alg # study.alg}}
            <4>1. Only = NoRow <=> study.target = "ALL"
                BY <1>2, TargetIs
            <4> QED BY <4>1 DEF Foreign
        <3> QED BY <1>4, <3>1, <3>2, <3>3
    <2>2. Takes(trial', study, a) <=> Takes(trial, study, a)
        BY <1>3 DEF Takes
    <2>3. /\ trial'.rows[a].alg = trial.rows[a].alg /\ trial'.rows[a].fs = trial.rows[a].fs
          /\ trial'.rows[a].params = IF trial.rows[a].name \in Foreign THEN trial.cand
                                     ELSE trial.rows[a].params
        BY <1>2, <1>3 DEF CopiedFrom
    <2> QED BY <1>2, <1>3, <2>1, <2>2, <2>3 DEF CopiedFrom, Takes
<1> QED BY <1>1, <1>2, <1>3, <1>4 DEF TrialTrue

\* The run lays the candidate over what the fixed agents and the defaults give.
LEMMA RanIs ==
    ASSUME Invariant, Tuning, TrialRun
    PROVE  TrialTrue'
<1> DEFINE ran == Effective(trial.rows, default, Forced, trial.cand, Only)
<1>1. trial # NoRow /\ trial.phase = "FIXED" /\ study' = study
    BY DEF TrialRun, Phase
<1>2. /\ study.alg \in Algorithms /\ TrialFields \subseteq DOMAIN trial /\ SeenOK(trial.seen)
      /\ trial.same => RowsFixed(trial, study)
      /\ trial.cand \in Candidates
    BY <1>1 DEF Tuning, TrialTrue, Invariant, TrialOK
<1>3. /\ trial'.phase \in {"DONE", "FAILED"} /\ trial'.seen = trial.seen
      /\ trial'.cand = trial.cand /\ trial'.same = trial.same
      /\ trial'.ran = ran /\ trial'.defaults = default
      /\ TrialFields \subseteq DOMAIN trial'
    BY <1>2 DEF TrialRun, TrialFields
<1>4. ASSUME trial.same PROVE RunsCandidate(trial', study)
    <2> SUFFICES ASSUME NEW a \in Agents
        PROVE  LET t == trial'
                   row   == t.seen[a]
                   plain == algorithm_defaults(t.defaults)[study.alg]
                   own   == IF row.alg = study.alg THEN Over(row.params, plain) ELSE plain
               IN  t.ran[a] =
                     IF Takes(t, study, a)
                     THEN [alg |-> study.alg, fs |-> study.fs,
                           config |-> Config(study.alg, Over(t.cand, own))]
                     ELSE Ordinary(t.seen, t.defaults)[a]
        BY DEF RunsCandidate
    <2> DEFINE row == trial.seen[a]
               new == trial.rows[a]
               alg == IF Forced = NoRow THEN new.alg ELSE Forced
               base == algorithm_defaults(default)[alg]
    <2>1. ran[a] = [alg |-> alg, fs |-> new.fs,
                    config |-> Config(alg, agent_params(new, alg, default, trial.cand, Only))]
        BY DEF Effective
    <2>2. row.alg \in Algorithms /\ row.params \in Params
        BY <1>2 DEF SeenOK
    <2>3. trial.cand \in Params
        BY <1>2, CandidatesAre
    <2>4. Takes(trial', study, a) <=> Takes(trial, study, a)
        BY <1>3 DEF Takes
    <2>5. CASE Takes(trial, study, a)
        <3>1. /\ new.alg = study.alg /\ new.fs = study.fs
              /\ new.params = IF row.alg = study.alg THEN Over(trial.cand, row.params)
                                                     ELSE trial.cand
            BY <1>2, <1>4, <2>5 DEF RowsFixed
        <3>2. alg = study.alg /\ alg \in Algorithms /\ overrides_apply(alg, Only)
            BY <1>2, <3>1, TargetIs
        <3>3. base \in Params
            <4> HIDE DEF alg
            <4> QED BY <3>2, DefaultsAre
        <3>4. agent_params(new, alg, default, trial.cand, Only)
              = Over(trial.cand, Over(new.params, base))
            BY <3>1, <3>2 DEF agent_params
        <3>5. Over(trial.cand, Over(new.params, base))
              = Over(trial.cand, IF row.alg = study.alg THEN Over(row.params, base) ELSE base)
            <4> HIDE DEF base, row, new
            <4>1. CASE row.alg = study.alg
                BY <2>2, <2>3, <3>1, <3>3, <4>1, OverTwice
            <4>2. CASE row.alg # study.alg
                BY <2>3, <3>1, <3>3, <4>2, OverTwice
            <4> QED BY <4>1, <4>2
        <3> QED BY <1>3, <2>1, <2>4, <2>5, <3>1, <3>2, <3>4, <3>5
    <2>6. CASE ~Takes(trial, study, a)
        <3>1. new.alg = row.alg /\ new.fs = row.fs /\ new.params = row.params
            BY <1>2, <1>4, <2>6 DEF RowsFixed
        <3>2. /\ study.target # "ALL" /\ row.alg # study.alg
              /\ alg = row.alg /\ ~overrides_apply(alg, Only)
            BY <1>2, <2>6, <3>1, TargetIs DEF Takes
        <3>3. base \in Params
            <4> HIDE DEF alg
            <4> QED BY <2>2, <3>2, DefaultsAre
        <3>4. agent_params(new, alg, default, trial.cand, Only) = Over(row.params, base)
            BY <3>1, <3>2 DEF agent_params
        <3>5. agent_params(row, alg, default, NoParams, NoRow)
              = Over(NoParams, Over(row.params, base))
            BY <3>2 DEF agent_params, overrides_apply
        <3>6. Over(NoParams, Over(row.params, base)) = Over(row.params, base)
            <4> HIDE DEF base, row
            <4>1. Over(row.params, base) \in Params
                BY <2>2, <3>3, OverIs
            <4> QED BY <4>1, OverTwice
        <3>7. Ordinary(trial.seen, default)[a]
              = [alg |-> row.alg, fs |-> row.fs,
                 config |-> Config(row.alg, agent_params(row, row.alg, default,
                                                         NoParams, NoRow))]
            BY DEF Ordinary, Effective
        <3> QED BY <1>3, <2>1, <2>4, <2>6, <3>1, <3>2, <3>4, <3>5, <3>6, <3>7
    <2> QED BY <2>5, <2>6
<1> QED BY <1>1, <1>2, <1>3, <1>4 DEF TrialTrue

\* Two studies of the same target are promised the same.
LEMMA SamePromise ==
    ASSUME NEW t, NEW s, NEW r, s.target = r.target, s.alg = r.alg, s.fs = r.fs
    PROVE  RunsCandidate(t, s) <=> RunsCandidate(t, r)
BY DEF RunsCandidate, Takes

\* The best parameters of a study are those of its last trial.
LEMMA WinnerIs ==
    ASSUME Invariant, Tuning, StudyFinish
    PROVE  Tuning'
<1>1. /\ study # NoStudy /\ trial # NoRow /\ trial.phase = "DONE"
      /\ study' = [study EXCEPT !.status = "FINISHED", !.best = trial.cand]
      /\ won' = trial /\ trial' = trial /\ agent' = agent
    BY DEF StudyFinish, Status, Phase
<1>2. /\ study \in [id : Nat, status : {"RUNNING", "FINISHED"},
                    target : {"ALL", "MATCHING"}, alg : Algorithms, fs : FailStacks,
                    best : Candidates \cup {NoRow}]
      /\ trial.cand \in Candidates
    BY <1>1 DEF Invariant, StudyOK, TrialOK
<1>3. /\ study'.target = study.target /\ study'.alg = study.alg /\ study'.fs = study.fs
      /\ study'.best = trial.cand
    BY <1>1, <1>2
<1>5. trial.same => RunsCandidate(trial, study')
    BY <1>1, <1>3, SamePromise DEF Tuning, TrialTrue
<1>6. TrialTrue' /\ WonTrue'
    BY <1>1, <1>2, <1>3, <1>5, SamePromise DEF Tuning, TrialTrue, WonTrue
<1> QED BY <1>1, <1>6 DEF Tuning

\* Editing an agent keeps the names apart.
LEMMA NamesKept ==
    ASSUME Invariant', \A a \in Agents : agent'[a].name \in Names,
           \A a \in Agents, b \in Agents : agent'[a].name = agent'[b].name => a = b
    PROVE  SeenOK(agent')
BY DEF Invariant, AgentOK, SeenOK

\* Neither the agents nor the defaults of now matter to a trial that has them.
LEMMA TuningKept ==
    ASSUME Tuning, SeenOK(agent'), UNCHANGED <<study, trial, won>>
    PROVE  Tuning'
BY DEF Tuning, TrialTrue, WonTrue

LEMMA TuningStep ==
    ASSUME NamesDiffer, Invariant, Invariant', Tuning, [Next]_vars
    PROVE  Tuning'
<1>1. ASSUME NEW a \in Agents, NEW name \in Names, NEW alg \in Algorithms,
             NEW fs \in FailStacks, EditAgent(a, name, alg, fs)
      PROVE  Tuning'
    <2>1. /\ \A b \in Agents \ {a} : agent[b].name # name
          /\ \A b \in Agents : agent'[b].name = IF b = a THEN name ELSE agent[b].name
          /\ UNCHANGED <<study, trial, won>>
        BY <1>1 DEF EditAgent, Invariant
    <2>2. \A b \in Agents, c \in Agents : agent[b].name \in Names
                                       /\ (agent[b].name = agent[c].name => b = c)
        BY DEF Tuning, SeenOK
    <2>3. SeenOK(agent')
        BY <2>1, <2>2, NamesKept
    <2> QED BY <2>1, <2>3, TuningKept
<1>2. ASSUME NEW switch \in BOOLEAN, ApplyToScenario(switch) PROVE Tuning'
    <2>1. \A a \in Agents : agent'[a].name = agent[a].name
        BY <1>2 DEF ApplyToScenario, Tuned
    <2>2. \A b \in Agents, c \in Agents : agent[b].name \in Names
                                       /\ (agent[b].name = agent[c].name => b = c)
        BY DEF Tuning, SeenOK
    <2>3. SeenOK(agent')
        BY <2>1, <2>2, NamesKept
    <2> QED BY <1>2, <2>3, TuningKept DEF ApplyToScenario
<1>3. ASSUME agent' = agent, UNCHANGED <<study, trial, won>> PROVE Tuning'
    BY <1>3, TuningKept DEF Tuning
<1>4. ASSUME NEW target \in {"ALL", "MATCHING"}, NEW alg \in Algorithms,
             NEW fs \in FailStacks, StudyCreate(target, alg, fs)
      PROVE  Tuning'
    BY <1>4 DEF StudyCreate, Tuning, TrialTrue, WonTrue
<1>5. CASE (\E cand \in Candidates : TrialClone(cand)) \/ TrialFix \/ TrialRun
    <2>1. TrialTrue'
        BY <1>5, ClonedIs, FixedIs, RanIs
    <2>2. agent' = agent /\ study' = study /\ won' = won
        BY <1>5 DEF TrialClone, TrialFix, TrialRun
    <2> QED BY <2>1, <2>2 DEF Tuning, WonTrue
<1>6. CASE StudyFinish
    BY <1>6, WinnerIs
<1>7. CASE (\E alg \in Algorithms : \E config \in ValidConfigs[alg] : SaveDefault(alg, config))
           \/ (\E alg \in Algorithms : ResetDefault(alg)) \/ ApplyToDefault \/ UNCHANGED vars
    BY <1>3, <1>7 DEF SaveDefault, ResetDefault, ApplyToDefault, vars
<1> QED BY <1>1, <1>2, <1>4, <1>5, <1>6, <1>7 DEF Next

LEMMA InitTuning == Init => Tuning
BY InitInvariant DEF Init, Tuning, TrialTrue, WonTrue, SeenOK, IsInjective, Invariant, AgentOK

LEMMA TuningHolds == NamesDiffer /\ Spec => [](Invariant /\ Tuning)
<1> SUFFICES ASSUME NamesDiffer PROVE Spec => [](Invariant /\ Tuning)
    OBVIOUS
<1>1. Init => Invariant /\ Tuning
    BY InitInvariant, InitTuning
<1>2. Invariant /\ Tuning /\ [Next]_vars => (Invariant /\ Tuning)'
    BY NextKeeps, TuningStep
<1> QED BY <1>1, <1>2, PTL DEF Spec

\* A trial that no edit has overtaken runs its candidate on the agents it is
\* for and leaves the others as they are, if no two names of the scenario are
\* the same up to case (worker.evaluate_task, clone_scenario_for_run).
THEOREM TrialIsTheCandidate == NamesDiffer /\ Spec => []TrialRunsCandidate
<1>1. Tuning => TrialRunsCandidate
    BY DEF Tuning, TrialTrue, TrialRunsCandidate, RunsCandidate, Takes, Phase
<1> QED BY <1>1, TuningHolds, PTL

\* An ordinary run of the scenario that a study was applied to uses what the
\* winning trial used.
LEMMA AppliedStep ==
    ASSUME Invariant, Tuning, NEW switch \in BOOLEAN, ApplyToScenario(switch),
           won.same, won.seen = agent, won.defaults = default, NEW a \in Agents
    PROVE  Ordinary(agent', default')[a] =
               IF a \in Targets(switch) THEN won.ran[a] ELSE Ordinary(agent, default)[a]
<1> DEFINE row  == agent[a]
           base == algorithm_defaults(default)[study.alg]
           runs(r) == [alg |-> r.alg, fs |-> r.fs,
                       config |-> Config(r.alg, agent_params(r, r.alg, default,
                                                             NoParams, NoRow))]
<1>1. /\ study # NoStudy /\ study.status = "FINISHED" /\ default' = default
      /\ agent'[a] = IF a \in Targets(switch) THEN Tuned(a) ELSE row
    BY DEF ApplyToScenario, Appliable, Status
<1>2. /\ study.alg \in Algorithms /\ study.best \in Candidates
      /\ RunsCandidate(won, study) /\ won.cand = study.best
      /\ row.params \in Params
    BY <1>1 DEF Invariant, StudyOK, Tuning, WonTrue, AgentOK
<1>3. Ordinary(agent', default')[a] = runs(agent'[a])
      /\ Ordinary(agent, default)[a] = runs(row)
    BY <1>1 DEF Ordinary, Effective
<1>4. CASE a \notin Targets(switch)
    BY <1>1, <1>3, <1>4
<1>5. CASE a \in Targets(switch)
    <2> DEFINE new == Tuned(a)
               own == IF row.alg = study.alg THEN Over(row.params, base) ELSE base
    <2>1. Takes(won, study, a)
        BY <1>5 DEF Targets, Takes
    <2>2. won.ran[a] = [alg |-> study.alg, fs |-> study.fs,
                        config |-> Config(study.alg, Over(study.best, own))]
        BY <1>2, <2>1 DEF RunsCandidate
    <2>3. /\ new.alg = study.alg /\ new.fs = study.fs
          /\ new.params = IF row.alg = study.alg THEN Over(study.best, row.params)
                                                 ELSE study.best
        BY DEF Tuned
    <2>4. base \in Params /\ study.best \in Params
        BY <1>2, DefaultsAre, CandidatesAre
    <2>5. agent_params(new, new.alg, default, NoParams, NoRow)
          = Over(NoParams, Over(new.params, base))
        BY <2>3 DEF agent_params, overrides_apply
    <2>6. /\ new.params \in Params
          /\ Over(new.params, base) = Over(study.best, own)
        <3> HIDE DEF base, new, row
        <3>1. CASE row.alg = study.alg
            <4>1. new.params = Over(study.best, row.params) /\ own = Over(row.params, base)
                BY <2>3, <3>1
            <4> HIDE DEF own
            <4>2. row.params \in Params
                BY <1>2
            <4>3. Over(study.best, row.params) \in Params
                BY <2>4, <4>2, OverIs
            <4>4. Over(Over(study.best, row.params), base)
                  = Over(study.best, Over(row.params, base))
                BY <2>4, <4>2, OverTwice
            <4> QED BY <4>1, <4>3, <4>4
        <3>2. CASE row.alg # study.alg
            BY <2>3, <2>4, <3>2
        <3> QED BY <3>1, <3>2
    <2>7. Over(NoParams, Over(new.params, base)) = Over(study.best, own)
        <3> HIDE DEF base, new, own
        <3>1. Over(new.params, base) \in Params
            BY <2>4, <2>6, OverIs
        <3> QED BY <2>6, <3>1, OverTwice
    <2> HIDE DEF own, new
    <2>8. runs(new) = won.ran[a]
        BY <2>2, <2>3, <2>5, <2>7
    <2> QED BY <1>1, <1>3, <1>5, <2>8 DEF new
<1> QED BY <1>4, <1>5

\* Applying a study to the scenario and defaults it was run on makes the
\* scenario run as the winning trial did, agent by agent, and changes no other
\* agent (_apply_to_scenario, SimulationContext.build).
THEOREM AppliedIsTheWinner == NamesDiffer /\ Spec => AppliedIsTuned
<1>1. Invariant /\ Tuning =>
        [ \A switch \in BOOLEAN :
            ( /\ ApplyToScenario(switch)
              /\ won.same /\ won.seen = agent /\ won.defaults = default ) =>
               \A a \in Agents :
                  Ordinary(agent', default')[a] =
                      IF a \in Targets(switch) THEN won.ran[a]
                      ELSE Ordinary(agent, default)[a] ]_vars
    BY AppliedStep
<1> QED BY <1>1, TuningHolds, PTL DEF AppliedIsTuned

-----------------------------------------------------------------------------
(* What a form sends of a value is read as the value again.                *)

RawValues == {"text", "json"} \X ParamValues

\* Values that may be sent: they have their types, and lists are not empty.
Sendable(f, v) == v \in ParamValues /\ HasType(FieldKinds[f], v) /\ v # <<"list", <<>> >>

LEMMA Kinds ==
  ASSUME NEW f \in FormFields
  PROVE  /\ FieldKinds[f] \in {"int", "float", "optional_float", "bool", "int_list"}
         /\ Sendable(f, PublishedValues[f])
  BY ParamFormAssumption DEF Sendable

LEMMA ValueIs ==
  ASSUME NEW v \in ParamValues
  PROVE  \/ v = <<"num", v[2]>> /\ v[2] \in Int
         \/ v = <<"bool", v[2]>> /\ v[2] \in BOOLEAN
         \/ v = <<"list", v[2]>> /\ v[2] \in Seq(Int)
         \/ v = None \/ v = <<"junk">>
  BY DEF ParamValues

LEMMA ParseIsUsable ==
  ASSUME NEW f \in FormFields, NEW raw \in RawValues,
         parse_form_value(FieldKinds[f], raw) # Wrong
  PROVE  Sendable(f, parse_form_value(FieldKinds[f], raw))
<1> DEFINE v == raw[2]
           kind == FieldKinds[f]
           parsed == IF kind = "int_list" /\ raw[1] = "text" /\ v[1] = "num"
                     THEN <<"list", <<v[2]>> >> ELSE v
<1>1. v \in ParamValues
  BY DEF RawValues
<1>2. parsed \in ParamValues
  <2>1. CASE v[1] = "num"
    <3>1. v[2] \in Int
      BY <1>1, <2>1, ValueIs DEF None
    <3>2. <<v[2]>> \in Seq(Int)
      BY <3>1
    <3>3. <<"list", <<v[2]>> >> \in ParamValues
      BY <3>2 DEF ParamValues
    <3> QED
      BY <1>1, <3>3
  <2>2. CASE v[1] # "num"
    BY <1>1, <2>2
  <2> QED
    BY <2>1, <2>2
<1>3. parse_form_value(kind, raw)
        = IF HasType(kind, parsed) /\ parsed # <<"list", <<>> >> THEN parsed ELSE Wrong
  BY DEF parse_form_value
<1> HIDE DEF parsed
<1> QED
  BY <1>2, <1>3 DEF Sendable

LEMMA SentIsParsed ==
  ASSUME NEW f \in FormFields, NEW v, Sendable(f, v)
  PROVE  /\ parse_form_value(FieldKinds[f], <<"json", v>>) = v
         /\ parse_form_value(FieldKinds[f], Text(v)) = v
         /\ <<"json", v>> \in RawValues /\ Text(v) \in RawValues /\ v # Wrong
<1> DEFINE kind == FieldKinds[f]
<1>1. v \in ParamValues /\ HasType(kind, v) /\ v # <<"list", <<>> >>
  BY DEF Sendable
<1>2. parse_form_value(kind, <<"json", v>>) = v /\ <<"json", v>> \in RawValues
  BY <1>1 DEF parse_form_value, RawValues
<1>3. CASE v[1] = "list" /\ Len(v[2]) = 1
  <2>1. v = <<"list", v[2]>> /\ v[2] \in Seq(Int)
    BY <1>1, <1>3, ValueIs DEF None
  <2>2. v[2] = <<v[2][1]>> /\ v[2][1] \in Int
    BY <1>3, <2>1
  <2>3. Text(v) = <<"text", <<"num", v[2][1]>> >>
    BY <1>3 DEF Text
  <2>4. kind = "int_list"
    BY <1>1, <1>3, Kinds DEF HasType, Integer
  <2>5. parse_form_value(kind, Text(v))
          = IF HasType(kind, <<"list", <<v[2][1]>> >>)
                /\ <<"list", <<v[2][1]>> >> # <<"list", <<>> >>
            THEN <<"list", <<v[2][1]>> >> ELSE Wrong
    BY <2>3, <2>4 DEF parse_form_value
  <2>6. <<"list", <<v[2][1]>> >> = v
    BY <2>1, <2>2
  <2>7. parse_form_value(kind, Text(v)) = v
    BY <1>1, <2>5, <2>6
  <2>8. <<"num", v[2][1]>> \in ParamValues
    BY <2>2 DEF ParamValues
  <2>9. Text(v) \in RawValues
    BY <2>3, <2>8 DEF RawValues
  <2> QED
    BY <1>1, <1>2, <2>7, <2>9, ParamFormAssumption
<1>4. CASE ~ (v[1] = "list" /\ Len(v[2]) = 1)
  <2>1. Text(v) = <<"text", v>>
    BY <1>4 DEF Text
  <2>2. ~ (kind = "int_list" /\ v[1] = "num")
    BY <1>1 DEF HasType, IntegerList
  <2>3. parse_form_value(kind, Text(v)) = v
    BY <1>1, <2>1, <2>2 DEF parse_form_value
  <2>4. Text(v) \in RawValues
    BY <1>1, <2>1 DEF RawValues
  <2> QED
    BY <1>1, <1>2, <2>3, <2>4, ParamFormAssumption
<1> QED
  BY <1>3, <1>4

\* Parameters of any fields, and a config of the class.
Given(params) ==
    /\ params = [f \in DOMAIN params |-> params[f]]
    /\ \A f \in DOMAIN params : params[f] \in ParamValues
Sent(raw) == \A f \in DOMAIN raw : raw[f] \in RawValues
Usable(config) ==
    /\ config \in [FormFields -> ParamValues]
    /\ \A f \in FormFields : Sendable(f, config[f])
    /\ ClassAccepts(config)

Completed(params) ==
    [f \in FormFields |-> IF f \in DOMAIN params THEN params[f] ELSE PublishedValues[f]]
Parsed(raw) == [f \in DOMAIN raw |-> parse_form_value(FieldKinds[f], raw[f])]
Readable(raw) ==
    DOMAIN raw \subseteq FormFields /\ \A f \in DOMAIN raw : Parsed(raw)[f] # Wrong

LEMMA PublishedUsable == Usable(PublishedValues)
  BY Kinds, ParamFormAssumption DEF Usable

LEMMA UsableIsNoError == ASSUME NEW config, Usable(config) PROVE config # Wrong
  BY ParamFormAssumption DEF Usable

\* from_dict gives what was asked, completed, or an error.
LEMMA FromParamsIs ==
  ASSUME NEW params, Given(params)
  PROVE  /\ FromParams(params) # Wrong =>
              /\ DOMAIN params \subseteq FormFields
              /\ FromParams(params) = Completed(params)
              /\ \A f \in FormFields : HasType(FieldKinds[f], Completed(params)[f])
              /\ ClassAccepts(Completed(params))
         /\ DOMAIN params \subseteq FormFields /\ Usable(Completed(params))
              => FromParams(params) = Completed(params)
<1>1. FromParams(params)
        = IF /\ DOMAIN params \subseteq FormFields
             /\ \A f \in FormFields : HasType(FieldKinds[f], Completed(params)[f])
             /\ ClassAccepts(Completed(params))
          THEN Completed(params) ELSE Wrong
  BY DEF FromParams, Completed
<1>2. Usable(Completed(params)) =>
        /\ \A f \in FormFields : HasType(FieldKinds[f], Completed(params)[f])
        /\ ClassAccepts(Completed(params))
  BY DEF Usable, Sendable
<1> QED
  BY <1>1, <1>2

LEMMA ReadableIs ==
  ASSUME NEW raw, Sent(raw), Readable(raw)
  PROVE  /\ \A f \in DOMAIN raw : Sendable(f, Parsed(raw)[f])
         /\ Given(Parsed(raw)) /\ DOMAIN Parsed(raw) = DOMAIN raw
         /\ FromParams(Parsed(raw)) # Wrong => Usable(FromParams(Parsed(raw)))
<1>1. \A f \in DOMAIN raw : Sendable(f, Parsed(raw)[f])
  BY ParseIsUsable DEF Sent, Readable, Parsed
<1>2. DOMAIN Parsed(raw) = DOMAIN raw
  BY DEF Parsed
<1>3. Given(Parsed(raw))
  BY <1>1, <1>2 DEF Given, Sendable, Parsed
<1>4. \A f \in FormFields : Sendable(f, Completed(Parsed(raw))[f])
  BY <1>1, <1>2, Kinds DEF Completed
<1>5. Completed(Parsed(raw)) \in [FormFields -> ParamValues]
  BY <1>4 DEF Completed, Sendable
<1> QED
  BY <1>1, <1>2, <1>3, <1>4, <1>5, FromParamsIs DEF Usable

\* validate_params reads what it is sent and completes it, first from base.
LEMMA ValidateIs ==
  ASSUME NEW raw, Sent(raw), NEW base, Given(base)
  PROVE  LET known == {f \in DOMAIN base : f \in FormFields}
             joined == [f \in DOMAIN raw \cup known |->
                          IF f \in DOMAIN raw THEN Parsed(raw)[f] ELSE base[f]]
         IN  /\ ~ Readable(raw) => validate_params(raw, base).config = Wrong
             /\ Readable(raw) => validate_params(raw, base)
                                    = [parsed |-> Parsed(raw), config |-> FromParams(joined)]
<1> DEFINE known == {f \in DOMAIN base : f \in FormFields}
           joined == [f \in DOMAIN raw \cup known |->
                        IF f \in DOMAIN raw THEN Parsed(raw)[f] ELSE base[f]]
           parsed == [f \in DOMAIN raw \cap FormFields |-> parse_form_value(FieldKinds[f], raw[f])]
           kept == Restrict(base, DOMAIN base \cap FormFields)
           mixed == [f \in DOMAIN parsed \cup DOMAIN kept |->
                       IF f \in DOMAIN parsed THEN parsed[f] ELSE kept[f]]
<1>1. validate_params(raw, base)
        = IF DOMAIN raw \subseteq FormFields /\ \A f \in DOMAIN parsed : parsed[f] # Wrong
          THEN [parsed |-> parsed, config |-> FromParams(mixed)]
          ELSE [parsed |-> parsed, config |-> Wrong]
  BY DEF validate_params
<1>2. CASE DOMAIN raw \subseteq FormFields
  <2>1. DOMAIN raw \cap FormFields = DOMAIN raw
    BY <1>2
  <2>2. parsed = Parsed(raw)
    BY <2>1 DEF Parsed
  <2>3. kept = [f \in known |-> base[f]]
    BY DEF Restrict
  <2>4. DOMAIN parsed = DOMAIN raw /\ DOMAIN kept = known
    BY <2>1, <2>3
  <2>5. mixed = joined
    BY <2>2, <2>3, <2>4
  <2> HIDE DEF mixed, joined, parsed
  <2>6. Readable(raw) <=> \A f \in DOMAIN parsed : parsed[f] # Wrong
    BY <1>2, <2>2, <2>4 DEF Readable
  <2> QED
    BY <1>1, <1>2, <2>2, <2>5, <2>6 DEF joined
<1>3. CASE ~ (DOMAIN raw \subseteq FormFields)
  BY <1>1, <1>3 DEF Readable
<1> QED
  BY <1>2, <1>3

LEMMA ValidateAlone ==
  ASSUME NEW raw, Sent(raw)
  PROVE  validate_params(raw, NoParam).config
           = IF Readable(raw) THEN FromParams(Parsed(raw)) ELSE Wrong
<1>1. DOMAIN NoParam = {} /\ Given(NoParam)
  BY DEF NoParam, Given
<1>2. CASE Readable(raw)
  <2> DEFINE known == {f \in DOMAIN NoParam : f \in FormFields}
             joined == [f \in DOMAIN raw \cup known |->
                          IF f \in DOMAIN raw THEN Parsed(raw)[f] ELSE NoParam[f]]
  <2>1. validate_params(raw, NoParam) = [parsed |-> Parsed(raw), config |-> FromParams(joined)]
    BY <1>1, <1>2, ValidateIs
  <2>2. DOMAIN raw \cup known = DOMAIN raw
    BY <1>1
  <2>3. joined = Parsed(raw)
    BY <2>2 DEF Parsed
  <2> QED
    BY <1>2, <2>1, <2>3
<1>3. CASE ~ Readable(raw)
  BY <1>1, <1>3, ValidateIs
<1> QED
  BY <1>2, <1>3

\* Values that may be sent come through as they are, both ways of sending.
LEMMA ComesThrough ==
  ASSUME NEW params, Given(params), DOMAIN params \subseteq FormFields,
         \A f \in DOMAIN params : Sendable(f, params[f])
  PROVE  /\ Sent(AsBody(params)) /\ Readable(AsBody(params))
         /\ Parsed(AsBody(params)) = params
<1>1. DOMAIN AsBody(params) = DOMAIN params
      /\ \A f \in DOMAIN params : AsBody(params)[f] = <<"json", params[f]>>
  BY DEF AsBody
<1>2. Sent(AsBody(params)) /\ \A f \in DOMAIN params :
        /\ parse_form_value(FieldKinds[f], AsBody(params)[f]) = params[f]
        /\ params[f] # Wrong
  BY <1>1, SentIsParsed DEF Sent
<1>3. Parsed(AsBody(params)) = params
  BY <1>1, <1>2 DEF Parsed, Given
<1> QED
  BY <1>1, <1>2, <1>3 DEF Readable

\* A stored row that is read without an error holds what it is read as.
LEMMA StoredIsRead ==
  ASSUME NEW params, Given(params), validate_params(AsBody(params), NoParam).config # Wrong
  PROVE  /\ Usable(validate_params(AsBody(params), NoParam).config)
         /\ validate_params(AsBody(params), NoParam).config = FromParams(params)
<1> DEFINE body == AsBody(params)
<1>1. DOMAIN body = DOMAIN params
      /\ \A f \in DOMAIN params : body[f] = <<"json", params[f]>>
  BY DEF AsBody
<1>2. Sent(body)
  BY <1>1 DEF Sent, RawValues, Given
<1>3. Readable(body) /\ validate_params(body, NoParam).config = FromParams(Parsed(body))
  BY <1>2, ValidateAlone
<1>4. ASSUME NEW f \in DOMAIN params PROVE Parsed(body)[f] = params[f]
  <2>1. Parsed(body)[f] = parse_form_value(FieldKinds[f], <<"json", params[f]>>)
    BY <1>1 DEF Parsed
  <2>2. Parsed(body)[f] # Wrong
    BY <1>1, <1>3 DEF Readable
  <2> QED
    BY <2>1, <2>2 DEF parse_form_value
<1>5. Parsed(body) = params
  BY <1>1, <1>4 DEF Given, Parsed
<1> QED
  BY <1>2, <1>3, <1>5, ReadableIs

Stores(row) == row # NoDefault => Given(row.params)

\* What a row keeps of a usable config gives the config back.
LEMMA KeptIsWhole ==
  ASSUME NEW config, Usable(config)
  PROVE  /\ Given(NonDefault(config)) /\ DOMAIN NonDefault(config) \subseteq FormFields
         /\ \A f \in DOMAIN NonDefault(config) : Sendable(f, NonDefault(config)[f])
         /\ FromParams(NonDefault(config)) = config
         /\ (NonDefault(config) = NoParam) <=> (config = PublishedValues)
         /\ \E fields \in SUBSET FormFields : NonDefault(config) \in [fields -> ParamValues]
<1> DEFINE other == {f \in FormFields : config[f] # PublishedValues[f]}
           kept == NonDefault(config)
<1>1. kept = [f \in other |-> config[f]]
  BY DEF NonDefault, Restrict, Usable
<1>2. config \in [FormFields -> ParamValues] /\ \A f \in FormFields : Sendable(f, config[f])
  BY DEF Usable
<1>3. DOMAIN kept = other /\ \A f \in other : kept[f] = config[f]
  BY <1>1
<1> HIDE DEF kept
<1>4. Given(kept) /\ kept \in [other -> ParamValues]
  BY <1>1, <1>2, <1>3 DEF Given
<1>5. Completed(kept) = config
  <2>1. \A f \in FormFields : Completed(kept)[f] = config[f]
    BY <1>3 DEF Completed
  <2>2. Completed(kept) \in [FormFields -> ParamValues]
    BY <1>2, <2>1 DEF Completed
  <2> QED
    BY <1>2, <2>1, <2>2
<1>6. FromParams(kept) = config
  BY <1>3, <1>4, <1>5, FromParamsIs
<1>7. kept = NoParam <=> config = PublishedValues
  <2>1. kept = NoParam <=> other = {}
    BY <1>1, <1>3 DEF NoParam
  <2>2. PublishedValues \in [FormFields -> ParamValues]
    BY ParamFormAssumption
  <2>3. other = {} <=> config = PublishedValues
    BY <1>2, <2>2
  <2> QED
    BY <2>1, <2>3
<1> QED
  BY <1>2, <1>3, <1>4, <1>6, <1>7 DEF kept

LEMMA EmptyIsPublished ==
  /\ Given(NoParam) /\ FromParams(NoParam) = PublishedValues
  /\ validate_params(AsBody(NoParam), NoParam).config = PublishedValues
<1>1. Given(NoParam) /\ DOMAIN NoParam = {}
  BY DEF Given, NoParam
<1>2. Completed(NoParam) = PublishedValues
  BY <1>1, ParamFormAssumption DEF Completed
<1>3. FromParams(NoParam) = PublishedValues
  BY <1>1, <1>2, PublishedUsable, FromParamsIs
<1>4. /\ Sent(AsBody(NoParam)) /\ Readable(AsBody(NoParam))
      /\ Parsed(AsBody(NoParam)) = NoParam
  BY <1>1, ComesThrough
<1> QED
  BY <1>1, <1>3, <1>4, ValidateAlone

\* What the dialog shows: the config of the row, or the published values.
LEMMA ShownIs ==
  ASSUME NEW row, Stores(row)
  PROVE  LET form == param_form(row)
             config == validate_params(AsBody(row.params), NoParam).config
         IN  /\ Usable(form.values)
             /\ row = NoDefault => form = [values |-> PublishedValues, stored_error |-> FALSE]
             /\ row # NoDefault /\ config # Wrong
                  => form = [values |-> config, stored_error |-> FALSE]
             /\ form.values # PublishedValues => row # NoDefault /\ form.values = config
<1> DEFINE config == validate_params(AsBody(row.params), NoParam).config
           form == param_form(row)
<1>1. form = IF row = NoDefault \/ row.params = NoParam
             THEN [values |-> PublishedValues, stored_error |-> FALSE]
             ELSE [values |-> IF config = Wrong THEN PublishedValues ELSE config,
                   stored_error |-> config = Wrong]
  BY DEF param_form
<1>2. row # NoDefault /\ config # Wrong => Usable(config)
  BY StoredIsRead DEF Stores
<1>3. row # NoDefault /\ row.params = NoParam => config = PublishedValues
  BY EmptyIsPublished
<1> HIDE DEF config, form
<1>4. ASSUME row = NoDefault \/ row.params = NoParam
      PROVE  /\ Usable(form.values)
             /\ row = NoDefault => form = [values |-> PublishedValues, stored_error |-> FALSE]
             /\ row # NoDefault /\ config # Wrong
                  => form = [values |-> config, stored_error |-> FALSE]
             /\ form.values # PublishedValues => row # NoDefault /\ form.values = config
  <2>1. form = [values |-> PublishedValues, stored_error |-> FALSE]
    BY <1>1, <1>4
  <2>2. row # NoDefault => config = PublishedValues
    BY <1>3, <1>4
  <2> QED
    BY <2>1, <2>2, PublishedUsable
<1>5. ASSUME row # NoDefault, row.params # NoParam
      PROVE  /\ Usable(form.values)
             /\ row = NoDefault => form = [values |-> PublishedValues, stored_error |-> FALSE]
             /\ row # NoDefault /\ config # Wrong
                  => form = [values |-> config, stored_error |-> FALSE]
             /\ form.values # PublishedValues => row # NoDefault /\ form.values = config
  <2>1. form = [values |-> IF config = Wrong THEN PublishedValues ELSE config,
                stored_error |-> config = Wrong]
    BY <1>1, <1>5
  <2>2. row # NoDefault /\ config # Wrong
           => form = [values |-> config, stored_error |-> FALSE]
    BY <2>1
  <2>3. form.values = IF config = Wrong THEN PublishedValues ELSE config
    BY <2>1
  <2> QED
    BY <1>2, <1>5, <2>2, <2>3, PublishedUsable
<1>6. /\ Usable(form.values)
      /\ row = NoDefault => form = [values |-> PublishedValues, stored_error |-> FALSE]
      /\ row # NoDefault /\ config # Wrong
           => form = [values |-> config, stored_error |-> FALSE]
      /\ form.values # PublishedValues => row # NoDefault /\ form.values = config
  BY <1>4, <1>5
<1> QED
  BY <1>6 DEF config, form

\* save_defaults: nothing, no row, the row as it was, or a row of the config.
LEMMA SavedIs ==
  ASSUME NEW row, Stores(row), NEW raw, Sent(raw)
  PROVE  LET config == validate_params(raw, NoParam).config
             saved == save_defaults(row, raw)
             same == row # NoDefault /\ validate_params(AsBody(row.params), NoParam).config = config
         IN  /\ config = Wrong => saved = Wrong
             /\ config # Wrong =>
                  /\ Usable(config) /\ Readable(raw) /\ config = FromParams(Parsed(raw))
                  /\ config = PublishedValues => saved = NoDefault
                  /\ config # PublishedValues /\ same => saved = row
                  /\ config # PublishedValues /\ ~ same =>
                       saved = [params |-> NonDefault(config), origin |-> "CUSTOM"]
<1> DEFINE config == validate_params(raw, NoParam).config
           saved == save_defaults(row, raw)
           same == row # NoDefault /\ validate_params(AsBody(row.params), NoParam).config = config
<1>1. /\ config = Wrong => saved = Wrong
      /\ config # Wrong /\ NonDefault(config) = NoParam => saved = NoDefault
      /\ config # Wrong /\ NonDefault(config) # NoParam =>
           saved = IF same THEN row ELSE [params |-> NonDefault(config), origin |-> "CUSTOM"]
  BY DEF save_defaults, same_values
<1>2. config # Wrong =>
        Usable(config) /\ Readable(raw) /\ config = FromParams(Parsed(raw))
  BY ValidateAlone, ReadableIs
<1>3. config # Wrong => (NonDefault(config) = NoParam <=> config = PublishedValues)
  BY <1>2, KeptIsWhole
<1> QED
  BY <1>1, <1>2, <1>3

\* The dialog sends back what it shows.
LEMMA SentBack ==
  ASSUME NEW config, Usable(config)
  PROVE  /\ Sent(collectValues(config))
         /\ validate_params(collectValues(config), NoParam).config = config
<1> DEFINE raw == collectValues(config)
<1>1. /\ DOMAIN raw = FormFields
      /\ \A f \in FormFields : raw[f] = <<"json", config[f]>> \/ raw[f] = Text(config[f])
  BY DEF collectValues
<1>2. config \in [FormFields -> ParamValues] /\ \A f \in FormFields : Sendable(f, config[f])
  BY DEF Usable
<1> HIDE DEF raw
<1>3. ASSUME NEW f \in FormFields
      PROVE  /\ raw[f] \in RawValues /\ config[f] # Wrong
             /\ parse_form_value(FieldKinds[f], raw[f]) = config[f]
  <2>1. /\ parse_form_value(FieldKinds[f], <<"json", config[f]>>) = config[f]
        /\ parse_form_value(FieldKinds[f], Text(config[f])) = config[f]
        /\ <<"json", config[f]>> \in RawValues /\ Text(config[f]) \in RawValues
        /\ config[f] # Wrong
    BY <1>2, SentIsParsed
  <2> QED
    BY <1>1, <2>1
<1>4. Sent(raw)
  BY <1>1, <1>3 DEF Sent
<1>5. Parsed(raw) = config
  BY <1>1, <1>2, <1>3 DEF Parsed
<1>6. Readable(raw)
  BY <1>1, <1>3, <1>5 DEF Readable
<1>7. Given(config) /\ DOMAIN config = FormFields
  BY <1>2 DEF Given
<1>8. Completed(config) = config
  BY <1>2, <1>7 DEF Completed
<1>9. FromParams(config) = config
  BY <1>7, <1>8, FromParamsIs
<1> QED
  BY <1>4, <1>5, <1>6, <1>9, ValidateAlone DEF raw

LEMMA KeepsRow ==
  ASSUME NEW row, Stores(row), NEW raw, Sent(raw)
  PROVE  LET saved == save_defaults(row, raw)
             again == save_defaults(row, collectValues(param_form(row).values))
         IN  /\ again = IF param_form(row).values = PublishedValues THEN NoDefault ELSE row
             /\ saved # Wrong =>
                  LET form == param_form(saved) IN
                  /\ ~ form.stored_error
                  /\ (saved = NoDefault) = (form.values = PublishedValues)
                  /\ form.values = FromParams(Base(saved))
                  /\ \A f \in FormFields :
                        form.values[f] = IF f \in DOMAIN raw
                                         THEN parse_form_value(FieldKinds[f], raw[f])
                                         ELSE PublishedValues[f]
                  /\ (saved = row /\ row # NoDefault) =
                        (row # NoDefault /\ param_form(row) = form /\ saved # NoDefault)
<1> DEFINE saved == save_defaults(row, raw)
           shown == param_form(row).values
           again == save_defaults(row, collectValues(shown))
           config == validate_params(raw, NoParam).config
           held == validate_params(AsBody(row.params), NoParam).config
<1>1. /\ Usable(shown)
      /\ shown # PublishedValues => row # NoDefault /\ shown = held
  BY ShownIs
<1>2. /\ Sent(collectValues(shown))
      /\ validate_params(collectValues(shown), NoParam).config = shown /\ shown # Wrong
  BY <1>1, SentBack, UsableIsNoError
<1>3. again = IF shown = PublishedValues THEN NoDefault ELSE row
  BY <1>1, <1>2, SavedIs
<1>4. ASSUME saved # Wrong
      PROVE  LET form == param_form(saved) IN
             /\ ~ form.stored_error
             /\ (saved = NoDefault) = (form.values = PublishedValues)
             /\ form.values = FromParams(Base(saved))
             /\ \A f \in FormFields :
                   form.values[f] = IF f \in DOMAIN raw
                                    THEN parse_form_value(FieldKinds[f], raw[f])
                                    ELSE PublishedValues[f]
             /\ (saved = row /\ row # NoDefault) =
                   (row # NoDefault /\ param_form(row) = form /\ saved # NoDefault)
  <2> DEFINE form == param_form(saved)
             new == [params |-> NonDefault(config), origin |-> "CUSTOM"]
  <2>1. config # Wrong /\ Usable(config) /\ Readable(raw) /\ config = FromParams(Parsed(raw))
    BY <1>4, SavedIs
  <2>2. \A f \in FormFields : config[f] = IF f \in DOMAIN raw
                                          THEN parse_form_value(FieldKinds[f], raw[f])
                                          ELSE PublishedValues[f]
    <3>1. Given(Parsed(raw)) /\ DOMAIN Parsed(raw) = DOMAIN raw
      BY <2>1, ReadableIs
    <3>2. config = Completed(Parsed(raw))
      BY <2>1, <3>1, FromParamsIs
    <3> QED
      BY <3>1, <3>2 DEF Completed, Parsed
  <2>3. CASE config = PublishedValues
    <3>1. saved = NoDefault
      BY <2>1, <2>3, SavedIs
    <3>2. Stores(saved)
      BY <3>1 DEF Stores
    <3>3. form = [values |-> PublishedValues, stored_error |-> FALSE]
      BY <3>1, <3>2, ShownIs
    <3>4. FromParams(Base(saved)) = PublishedValues
      BY <3>1, EmptyIsPublished DEF Base
    <3> QED
      BY <2>2, <2>3, <3>1, <3>3, <3>4
  <2>4. CASE config # PublishedValues /\ row # NoDefault /\ held = config
    <3>1. saved = row
      BY <2>1, <2>4, SavedIs
    <3>2. form = [values |-> config, stored_error |-> FALSE]
      BY <2>1, <2>4, <3>1, ShownIs
    <3>3. FromParams(Base(saved)) = config
      BY <2>1, <2>4, <3>1, StoredIsRead DEF Base, Stores
    <3> QED
      BY <2>2, <2>4, <3>1, <3>2, <3>3
  <2>5. CASE config # PublishedValues /\ ~ (row # NoDefault /\ held = config)
    <3>1. saved = new
      BY <2>1, <2>5, SavedIs
    <3>2. /\ Given(new.params) /\ FromParams(new.params) = config
          /\ \E fields \in SUBSET FormFields : new.params \in [fields -> ParamValues]
          /\ DOMAIN new.params \subseteq FormFields
          /\ \A f \in DOMAIN new.params : Sendable(f, new.params[f])
      BY <2>1, KeptIsWhole
    <3>3. new # NoDefault
      <4>1. PICK fields \in SUBSET FormFields : new.params \in [fields -> ParamValues]
        BY <3>2
      <4>2. new \in [params : [fields -> ParamValues], origin : {"CUSTOM"}]
        BY <4>1
      <4> HIDE DEF new
      <4> QED
        BY <4>2, ParamFormAssumption
    <3>4. validate_params(AsBody(new.params), NoParam).config = config
      BY <3>2, ComesThrough, ValidateAlone
    <3> HIDE DEF new
    <3>5. form = [values |-> config, stored_error |-> FALSE]
      BY <2>1, <3>1, <3>2, <3>3, <3>4, ShownIs DEF Stores
    <3>6. FromParams(Base(saved)) = config
      BY <3>1, <3>2, <3>3 DEF Base
    <3>7. ~ (saved = row /\ row # NoDefault)
      BY <2>5, <3>1, <3>4
    <3>8. ~ (row # NoDefault /\ param_form(row) = form)
      <4> SUFFICES ASSUME row # NoDefault, param_form(row) = form PROVE FALSE
        OBVIOUS
      <4>1. shown = config
        BY <3>5
      <4> QED
        BY <1>1, <2>5, <4>1
    <3> QED
      BY <2>2, <2>5, <3>1, <3>3, <3>5, <3>6, <3>7, <3>8
  <2> QED
    BY <2>3, <2>4, <2>5
<1> QED
  BY <1>3, <1>4

LEMMA OnlyOptionalIsNone ==
  ASSUME NEW f \in FormFields, Sendable(f, None)
  PROVE  /\ FieldKinds[f] = "optional_float"
         /\ parse_form_value(FieldKinds[f], <<"text", <<"junk">> >>) = Wrong
         /\ <<"text", <<"junk">> >> \in RawValues
<1>1. FieldKinds[f] \in {"int", "float", "optional_float", "bool", "int_list"}
  BY Kinds
<1>2. None[1] = "none" /\ HasType(FieldKinds[f], None)
  BY DEF None, Sendable
<1>3. FieldKinds[f] = "optional_float"
  BY <1>1, <1>2 DEF HasType, Integer, IntegerList
<1>4. ~ HasType("optional_float", <<"junk">>)
  BY DEF HasType
<1>5. parse_form_value("optional_float", <<"text", <<"junk">> >>) = Wrong
  BY <1>4 DEF parse_form_value
<1>6. <<"text", <<"junk">> >> \in RawValues
  BY DEF RawValues, ParamValues
<1> QED
  BY <1>3, <1>5, <1>6

LEMMA Overrides ==
  ASSUME NEW row, Stores(row), NEW raw, Sent(raw),
         validate_scenario_clearing_params(raw, row) # Wrong
  PROVE  LET checked == validate_scenario_clearing_params(raw, row)
             config  == ClearingConfig(row, checked)
         IN  /\ (config = Wrong) = (DOMAIN Base(row) \ FormFields # {})
             /\ config # Wrong => \A f \in FormFields :
                   config[f] = CASE f \in DOMAIN checked -> checked[f]
                                 [] f \in DOMAIN Base(row) \ DOMAIN checked -> Base(row)[f]
                                 [] OTHER -> PublishedValues[f]
             /\ validate_scenario_clearing_params(readClearingParams(checked), row) =
                   IF \E f \in DOMAIN checked : checked[f] = None THEN Wrong ELSE checked
<1> DEFINE base == Base(row)
           checked == validate_scenario_clearing_params(raw, row)
           config == ClearingConfig(row, checked)
           known == {f \in DOMAIN base : f \in FormFields}
           Join(own) == [f \in DOMAIN own \cup known |->
                           IF f \in DOMAIN own THEN own[f] ELSE base[f]]
           all == [f \in DOMAIN checked \cup DOMAIN base |->
                     IF f \in DOMAIN checked THEN checked[f] ELSE base[f]]
           back == readClearingParams(checked)
<1>1. Given(base)
  BY EmptyIsPublished DEF Base, Stores
<1>2. \A sent : Sent(sent) =>
        /\ ~ Readable(sent) => validate_scenario_clearing_params(sent, row) = Wrong
        /\ Readable(sent) => validate_scenario_clearing_params(sent, row)
                               = IF FromParams(Join(Parsed(sent))) = Wrong THEN Wrong
                                 ELSE Parsed(sent)
  <2> SUFFICES ASSUME NEW sent, Sent(sent)
               PROVE  /\ ~ Readable(sent) => validate_scenario_clearing_params(sent, row) = Wrong
                      /\ Readable(sent) => validate_scenario_clearing_params(sent, row)
                               = IF FromParams(Join(Parsed(sent))) = Wrong THEN Wrong
                                 ELSE Parsed(sent)
    OBVIOUS
  <2> DEFINE joined == [f \in DOMAIN sent \cup known |->
                          IF f \in DOMAIN sent THEN Parsed(sent)[f] ELSE base[f]]
  <2>1. /\ ~ Readable(sent) => validate_params(sent, base).config = Wrong
        /\ Readable(sent) => validate_params(sent, base)
                               = [parsed |-> Parsed(sent), config |-> FromParams(joined)]
    BY <1>1, ValidateIs
  <2>2. joined = Join(Parsed(sent))
    BY DEF Parsed
  <2> HIDE DEF joined, Join
  <2> QED
    BY <2>1, <2>2 DEF validate_scenario_clearing_params
<1>3. /\ Readable(raw) /\ checked = Parsed(raw)
      /\ FromParams(Join(checked)) # Wrong
  BY <1>2
<1>4. /\ Given(checked) /\ DOMAIN checked = DOMAIN raw /\ DOMAIN checked \subseteq FormFields
      /\ \A f \in DOMAIN checked : Sendable(f, checked[f])
  BY <1>3, ReadableIs DEF Readable
<1>5. config = FromParams(all)
  BY DEF ClearingConfig, market_clearing_params
<1> HIDE DEF checked, base, config
<1>6. Given(all) /\ DOMAIN all = DOMAIN checked \cup DOMAIN base
  BY <1>1, <1>4 DEF Given
<1>7. config = Wrong <=> DOMAIN base \ FormFields # {}
  <2>1. CASE DOMAIN base \subseteq FormFields
    <3>1. known = DOMAIN base
      BY <2>1
    <3>2. all = Join(checked)
      BY <3>1
    <3> QED
      BY <1>3, <1>5, <2>1, <3>2
  <2>2. CASE ~ (DOMAIN base \subseteq FormFields)
    BY <1>5, <1>6, <2>2, FromParamsIs
  <2> QED
    BY <2>1, <2>2
<1>8. ASSUME config # Wrong, NEW f \in FormFields
      PROVE  config[f] = CASE f \in DOMAIN checked -> checked[f]
                           [] f \in DOMAIN base \ DOMAIN checked -> base[f]
                           [] OTHER -> PublishedValues[f]
  <2>1. config = Completed(all)
    BY <1>5, <1>6, <1>8, FromParamsIs
  <2>2. config[f] = IF f \in DOMAIN all THEN all[f] ELSE PublishedValues[f]
    BY <2>1 DEF Completed
  <2>3. CASE f \in DOMAIN checked
    BY <1>6, <2>2, <2>3
  <2>4. CASE f \in DOMAIN base \ DOMAIN checked
    BY <1>6, <2>2, <2>4
  <2>5. CASE f \notin DOMAIN base /\ f \notin DOMAIN checked
    BY <1>6, <2>2, <2>5
  <2> QED
    BY <2>3, <2>4, <2>5
<1>9. /\ DOMAIN back = DOMAIN checked
      /\ \A f \in DOMAIN checked :
            back[f] = IF checked[f] = None
                      THEN <<"text", IF FieldKinds[f] = "optional_float" THEN <<"junk">> ELSE None>>
                      ELSE Text(checked[f])
  <2>1. {g \in DOMAIN checked : g \in FormFields} = DOMAIN checked
    BY <1>4
  <2> QED
    BY <2>1 DEF readClearingParams
<1> HIDE DEF back, all
<1>10. ASSUME NEW f \in DOMAIN checked
       PROVE  /\ back[f] \in RawValues
              /\ checked[f] = None => parse_form_value(FieldKinds[f], back[f]) = Wrong
              /\ checked[f] # None => parse_form_value(FieldKinds[f], back[f]) = checked[f]
              /\ checked[f] # Wrong
  <2>1. f \in FormFields /\ Sendable(f, checked[f])
    BY <1>4
  <2>2. Text(checked[f]) \in RawValues /\ checked[f] # Wrong
        /\ parse_form_value(FieldKinds[f], Text(checked[f])) = checked[f]
    BY <2>1, SentIsParsed
  <2>3. CASE checked[f] = None
    <3>1. back[f] = <<"text", <<"junk">> >>
      BY <1>9, <2>1, <2>3, OnlyOptionalIsNone
    <3> QED
      BY <2>1, <2>2, <2>3, <3>1, OnlyOptionalIsNone
  <2>4. CASE checked[f] # None
    BY <1>9, <2>2, <2>4
  <2> QED
    BY <2>3, <2>4
<1>11. Sent(back)
  BY <1>9, <1>10 DEF Sent
<1>12. validate_scenario_clearing_params(back, row)
         = IF \E f \in DOMAIN checked : checked[f] = None THEN Wrong ELSE checked
  <2>1. CASE \E f \in DOMAIN checked : checked[f] = None
    <3>1. ~ Readable(back)
      BY <1>9, <1>10, <2>1 DEF Readable, Parsed
    <3> QED
      BY <1>2, <1>11, <2>1, <3>1
  <2>2. CASE \A f \in DOMAIN checked : checked[f] # None
    <3>1. Parsed(back) = [f \in DOMAIN checked |-> checked[f]]
      BY <1>9, <1>10, <2>2 DEF Parsed
    <3>2. Parsed(back) = checked
      BY <1>4, <3>1 DEF Given
    <3>3. Readable(back)
      BY <1>4, <1>9, <1>10, <3>2 DEF Readable
    <3> HIDE DEF Join
    <3> QED
      BY <1>2, <1>3, <1>11, <2>2, <3>2, <3>3
  <2> QED
    BY <2>1, <2>2
<1> QED
  BY <1>7, <1>8, <1>12 DEF checked, base, config, back

-----------------------------------------------------------------------------
(* The inputs are rows and what may be sent.                               *)

InputKnown == input = TunedInput \/ input \in Inputs

LEMMA ContentsAreValues == Contents \subseteq ParamValues
<1> SUFFICES ASSUME NEW v \in Contents PROVE v \in ParamValues
  OBVIOUS
<1>1. CASE v = None \/ v = <<"junk">>
  BY <1>1 DEF ParamValues
<1>2. CASE v = <<"bool", TRUE>>
  BY <1>2 DEF ParamValues
<1>3. CASE v \in {<<"list", <<>> >>, <<"list", <<2>> >>, <<"list", <<4, 1>> >>,
                   <<"list", <<2, 6>> >>}
  <2>1. {<<>>, <<2>>, <<4, 1>>, <<2, 6>>} \subseteq Seq(Int)
    OBVIOUS
  <2>2. PICK s \in Seq(Int) : v = <<"list", s>>
    BY <1>3, <2>1
  <2> QED
    BY <2>2 DEF ParamValues
<1>4. CASE v \in {<<"num", n>> : n \in {-2, 1, 2, 4, 5}}
  BY <1>4 DEF ParamValues
<1> QED
  BY <1>1, <1>2, <1>3, <1>4 DEF Contents

LEMMA ParamInput ==
  ASSUME InputKnown, input.kind = "param"
  PROVE  Stores(input.row) /\ Sent(input.raw)
<1>1. input \in [kind : {"param"}, row : RowsOf(Stored1 \cup Stored2), raw : Bodies]
  BY DEF InputKnown, Inputs, TunedInput
<1>2. input.row \in RowsOf(Stored1 \cup Stored2) /\ input.raw \in Bodies
  BY <1>1
<1>3. ASSUME NEW params \in Stored1 \cup Stored2 PROVE Given(params)
  <2>1. CASE params \in Stored1
    <3>1. PICK f : params \in [{f} -> Contents]
      BY <2>1 DEF Stored1
    <3> QED
      BY <3>1, ContentsAreValues DEF Given
  <2>2. CASE params \in Stored2
    <3>1. /\ params = [size |-> params.size, rate |-> params.rate]
          /\ params.size \in {<<"num", 4>>, <<"num", 2>>}
          /\ params.rate \in {<<"num", 1>>, <<"num", 2>>, <<"num", 4>>}
      BY <2>2 DEF Stored2
    <3>2. params.size \in ParamValues /\ params.rate \in ParamValues
      BY <3>1 DEF ParamValues
    <3>3. DOMAIN params = {"size", "rate"}
      BY <3>1
    <3>4. params = [f \in {"size", "rate"} |-> params[f]]
      BY <3>1
    <3> QED
      BY <3>2, <3>3, <3>4 DEF Given
  <2> QED
    BY <2>1, <2>2
<1>4. Stores(input.row)
  <2>1. CASE input.row = NoDefault
    BY <2>1 DEF Stores
  <2>2. CASE input.row # NoDefault
    <3>1. input.row \in [params : Stored1 \cup Stored2, origin : {"CUSTOM", "OPTIMIZED"}]
      BY <1>2, <2>2 DEF RowsOf
    <3>2. input.row.params \in Stored1 \cup Stored2
      BY <3>1
    <3> QED
      BY <1>3, <3>2 DEF Stores
  <2> QED
    BY <2>1, <2>2
<1>5. Sent(input.raw)
  <2>1. Raws \subseteq RawValues
    BY ContentsAreValues DEF Raws, RawValues
  <2>2. CASE input.raw \in
               UNION {[{f} -> Raws] : f \in {"size", "rate", "cap", "flag", "widths", "old"}}
    <3>1. PICK f : input.raw \in [{f} -> Raws]
      BY <2>2
    <3> QED
      BY <2>1, <3>1 DEF Sent
  <2>3. CASE input.raw \in
               [{"size", "rate"} -> {"text", "json"} \X {<<"num", n>> : n \in {1, 2, 4, 5}}]
    <3>1. {<<"num", n>> : n \in {1, 2, 4, 5}} \subseteq ParamValues
      BY DEF ParamValues
    <3>2. {"text", "json"} \X {<<"num", n>> : n \in {1, 2, 4, 5}} \subseteq RawValues
      BY <3>1 DEF RawValues
    <3> QED
      BY <2>3, <3>2 DEF Sent
  <2>4. Bodies = (UNION {[{f} -> Raws] : f \in {"size", "rate", "cap", "flag", "widths", "old"}})
                 \cup [{"size", "rate"} ->
                          {"text", "json"} \X {<<"num", n>> : n \in {1, 2, 4, 5}}]
    BY Zenon DEF Bodies
  <2> QED
    BY <1>2, <2>2, <2>3, <2>4
<1> QED
  BY <1>4, <1>5

LEMMA FormsHold == InputKnown => FormsAreFaithful
<1> SUFFICES ASSUME InputKnown, input.kind = "param" PROVE FormKeepsRow /\ OverridesCount
  BY DEF FormsAreFaithful, FormKeepsRow, OverridesCount
<1>1. Stores(input.row) /\ Sent(input.raw)
  BY ParamInput
<1>2. FormKeepsRow
  BY <1>1, KeepsRow DEF FormKeepsRow
<1>3. OverridesCount
  BY <1>1, Overrides DEF OverridesCount
<1> QED
  BY <1>2, <1>3

LEMMA InputsStay == MCSpec => []InputKnown
<1>1. MCInit => InputKnown
  BY DEF MCInit, InputKnown
<1>2. InputKnown /\ [MCNext]_<<vars, input>> => InputKnown'
  BY DEF InputKnown, MCNext
<1> QED
  BY <1>1, <1>2, PTL DEF MCSpec

\* Whatever the fields of a config class and its own check: a stored row is shown
\* as what it is, saving the dialog as it was opened keeps the row and its origin,
\* a row is stored exactly while some value is not the published one, and the
\* clearing overrides a scenario was saved with are what a run of it uses
\* (param_form, save_defaults, validate_scenario_clearing_params).
THEOREM FormsAreKept == MCSpec => []FormsAreFaithful
  BY InputsStay, FormsHold, PTL

-----------------------------------------------------------------------------
(* Largest and smallest numbers of finite sets.                            *)

\* Some numbers have a least one.
LEMMA LeastOf ==
  ASSUME NEW S, S \subseteq Nat, S # {}
  PROVE  \E x \in S : \A y \in S : x <= y
<1> DEFINE Less == OpToRel(<, Nat)
<1>a. IsWellFoundedOn(Less, Nat)
  BY NatLessThanWellFounded
<1> HIDE DEF Less
<1>1. PICK x \in S : \A y \in S : ~ (<<y, x>> \in Less)
  BY <1>a, WFMin
<1>2. ASSUME NEW y \in S PROVE x <= y
  <2>1. x \in Nat /\ y \in Nat
    OBVIOUS
  <2>2. y < x => <<y, x>> \in Less
    BY <2>1 DEF Less, OpToRel
  <2>3. ~ (y < x)
    BY <2>2, <1>1, Zenon
  <2> QED
    BY <2>1, <2>3
<1> QED
  BY <1>2

\* Among finite sets there is one such that nothing can be taken from it.
LEMMA SmallestSet ==
  ASSUME NEW B, B # {}, \A s \in B : IsFiniteSet(s)
  PROVE  \E s \in B : \A x \in s : s \ {x} \notin B
<1> DEFINE sizes == {Cardinality(s) : s \in B}
<1>1. sizes \subseteq Nat /\ sizes # {}
  BY FS_CardinalityType
<1>2. PICK n \in sizes : \A m \in sizes : n <= m
  BY <1>1, LeastOf
<1>3. PICK s \in B : n = Cardinality(s)
  BY <1>2
<1>4. ASSUME NEW x \in s, s \ {x} \in B PROVE FALSE
  <2>1. Cardinality(s \ {x}) = Cardinality(s) - 1 /\ Cardinality(s) \in Nat
    BY FS_RemoveElement, FS_CardinalityType
  <2>2. n <= Cardinality(s \ {x})
    BY <1>2, <1>4
  <2> QED
    BY <1>3, <2>1, <2>2
<1> QED
  BY <1>4

\* Both ends of a finite set of numbers.
LEMMA EndsAre ==
  ASSUME NEW S, S \subseteq Int, IsFiniteSet(S), S # {}
  PROVE  /\ Max(S) \in S /\ \A y \in S : y <= Max(S)
         /\ Min(S) \in S /\ \A y \in S : Min(S) <= y
<1> DEFINE HasEnds(s) == (\E x \in s : \A y \in s : x >= y) /\ (\E x \in s : \A y \in s : x <= y)
           B == {s \in SUBSET S : s # {} /\ ~ HasEnds(s)}
<1>1. B = {}
  <2> SUFFICES ASSUME B # {} PROVE FALSE
    OBVIOUS
  <2>1. \A s \in B : IsFiniteSet(s)
    BY FS_Subset
  <2>2. PICK s \in B : \A x \in s : s \ {x} \notin B
    BY <2>1, SmallestSet
  <2>3. PICK x \in s : TRUE
    OBVIOUS
  <2>4. s \ {x} # {}
    <3> SUFFICES ASSUME s \ {x} = {} PROVE FALSE
      OBVIOUS
    <3>1. \A y \in s : y = x /\ y \in Int
      OBVIOUS
    <3>2. \A y \in s : x >= y /\ x <= y
      BY <3>1
    <3> QED
      BY <2>3, <3>2
  <2>5. s \ {x} \in SUBSET S /\ HasEnds(s \ {x})
    BY <2>2, <2>4
  <2>6. PICK top \in s \ {x} : \A y \in s \ {x} : top >= y
    BY <2>5
  <2>7. PICK low \in s \ {x} : \A y \in s \ {x} : low <= y
    BY <2>5
  <2>8. x \in Int /\ top \in Int /\ low \in Int /\ \A y \in s : y \in Int
    OBVIOUS
  <2>9. \E z \in s : \A y \in s : z >= y
    <3>1. CASE x >= top
      <4>1. \A y \in s : x >= y
        BY <2>6, <2>8, <3>1
      <4> QED
        BY <2>3, <4>1
    <3>2. CASE top >= x
      <4>1. \A y \in s : top >= y
        BY <2>6, <3>2
      <4> QED
        BY <2>6, <4>1
    <3> QED
      BY <2>8, <3>1, <3>2
  <2>10. \E z \in s : \A y \in s : z <= y
    <3>1. CASE x <= low
      <4>1. \A y \in s : x <= y
        BY <2>7, <2>8, <3>1
      <4> QED
        BY <2>3, <4>1
    <3>2. CASE low <= x
      <4>1. \A y \in s : low <= y
        BY <2>7, <3>2
      <4> QED
        BY <2>7, <4>1
    <3> QED
      BY <2>8, <3>1, <3>2
  <2> QED
    BY <2>9, <2>10
<1>2. HasEnds(S)
  BY <1>1
<1>3. Max(S) \in S /\ \A y \in S : Max(S) >= y
  BY <1>2 DEF Max
<1>4. Min(S) \in S /\ \A y \in S : Min(S) <= y
  BY <1>2 DEF Min
<1> QED
  BY <1>3, <1>4

LEMMA LargerOf ==
  ASSUME NEW x \in Int, NEW y \in Int
  PROVE  Max({x, y}) = IF x >= y THEN x ELSE y
<1> DEFINE m == IF x >= y THEN x ELSE y
<1>1. m \in {x, y} /\ \A z \in {x, y} : m >= z
  OBVIOUS
<1>2. \A w \in {x, y} : (\A z \in {x, y} : w >= z) => w = m
  OBVIOUS
<1> QED
  BY <1>1, <1>2 DEF Max

-----------------------------------------------------------------------------
(* The config of a learner.                                                *)

Sizes(params) ==
    /\ params = [key \in DOMAIN params |-> params[key]]
    /\ \A key \in DOMAIN params : params[key] \in Int

Filled(alg, params) ==
    [key \in DOMAIN Class[alg] |-> IF key \in DOMAIN params THEN params[key] ELSE Class[alg][key]]

LEMMA FromDictIs ==
  ASSUME NEW alg \in Learners, NEW params, Sizes(params)
  PROVE  /\ Filled(alg, params) \in [DOMAIN Class[alg] -> Int]
         /\ from_dict(alg, params) # Rejected <=>
              DOMAIN params \subseteq DOMAIN Class[alg] /\ ValidSizes(alg, Filled(alg, params))
         /\ from_dict(alg, params) # Rejected => from_dict(alg, params) = Filled(alg, params)
<1>1. Filled(alg, params) \in [DOMAIN Class[alg] -> Int]
  BY LearningStartAssumption DEF Filled, Sizes
<1>2. Filled(alg, params) # Rejected
  BY <1>1, LearningStartAssumption
<1>3. from_dict(alg, params)
        = IF DOMAIN params \subseteq DOMAIN Class[alg] /\ ValidSizes(alg, Filled(alg, params))
          THEN Filled(alg, params) ELSE Rejected
  BY DEF from_dict, Filled
<1> QED
  BY <1>1, <1>2, <1>3

\* The smallest start of a valid config is a number, its batch or its window.
LEMMA MinimumIs ==
  ASSUME NEW alg \in Learners, NEW c \in [DOMAIN Class[alg] -> Int]
  PROVE  /\ min_learning_starts(alg, c) \in Int
         /\ c.batch_size \in Int /\ c.buffer_size \in Int /\ c.learning_starts \in Int
         /\ min_learning_starts(alg, c) >= c.batch_size
<1>1. c.batch_size \in Int /\ c.buffer_size \in Int /\ c.learning_starts \in Int
  BY LearningStartAssumption
<1>2. CASE alg \in DOMAIN Window
  <2>1. Window[alg] \in DOMAIN Class[alg]
    BY <1>2, LearningStartAssumption
  <2>2. c[Window[alg]] \in Int
    BY <2>1
  <2>3. min_learning_starts(alg, c) = IF c.batch_size >= c[Window[alg]] THEN c.batch_size
                                      ELSE c[Window[alg]]
    BY <1>1, <1>2, <2>2, LargerOf DEF min_learning_starts
  <2> QED
    BY <1>1, <2>2, <2>3
<1>3. CASE alg \notin DOMAIN Window
  BY <1>1, <1>3 DEF min_learning_starts
<1> QED
  BY <1>1, <1>2, <1>3

\* Any start that is not below the smallest one may take the place of another.
LEMMA OtherStart ==
  ASSUME NEW alg \in Learners, NEW params, Sizes(params), NEW s \in Int, NEW t \in Int,
         from_dict(alg, With(params, s)) # Rejected,
         t >= min_learning_starts(alg, from_dict(alg, With(params, s)))
  PROVE  LET c == from_dict(alg, With(params, s))
             d == from_dict(alg, With(params, t))
         IN  /\ c \in [DOMAIN Class[alg] -> Int] /\ d \in [DOMAIN Class[alg] -> Int]
             /\ d # Rejected /\ c.learning_starts = s /\ d.learning_starts = t
             /\ d.buffer_size = c.buffer_size
             /\ min_learning_starts(alg, d) = min_learning_starts(alg, c)
<1> DEFINE p == With(params, s)
           q == With(params, t)
           c == Filled(alg, p)
           d == Filled(alg, q)
           keys == DOMAIN Class[alg]
<1>1. /\ DOMAIN p = DOMAIN params \cup {"learning_starts"} /\ DOMAIN q = DOMAIN p
      /\ p["learning_starts"] = s /\ q["learning_starts"] = t
      /\ \A key \in DOMAIN p \ {"learning_starts"} : q[key] = p[key]
  BY DEF With
<1>2. Sizes(p) /\ Sizes(q)
  BY DEF With, Sizes
<1> HIDE DEF p, q
<1>3. /\ DOMAIN p \subseteq keys /\ ValidSizes(alg, c) /\ from_dict(alg, p) = c
      /\ c \in [keys -> Int] /\ d \in [keys -> Int]
  BY <1>2, FromDictIs DEF p
<1>4. /\ c["learning_starts"] = s /\ d["learning_starts"] = t
      /\ \A key \in keys \ {"learning_starts"} : d[key] = c[key]
  BY <1>1, <1>3 DEF Filled
<1> HIDE DEF c, d
<1>5. {"batch_size", "buffer_size"} \subseteq keys \ {"learning_starts"}
      /\ (alg \in DOMAIN Window => Window[alg] \in keys \ {"learning_starts"})
  BY LearningStartAssumption
<1>6. /\ d.batch_size = c.batch_size /\ d.buffer_size = c.buffer_size
      /\ alg \in DOMAIN Window => d[Window[alg]] = c[Window[alg]]
      /\ c.learning_starts = s /\ d.learning_starts = t
  BY <1>4, <1>5
<1>7. min_learning_starts(alg, d) = min_learning_starts(alg, c)
  BY <1>6 DEF min_learning_starts
<1>8. t >= c.batch_size
  <2>1. t >= min_learning_starts(alg, c)
    BY <1>3 DEF p
  <2> QED
    BY <1>3, <2>1, MinimumIs
<1>9. ValidSizes(alg, d)
  BY <1>3, <1>6, <1>8 DEF ValidSizes
<1>10. from_dict(alg, q) = d /\ d # Rejected
  BY <1>1, <1>2, <1>3, <1>9, FromDictIs DEF d
<1> QED
  BY <1>3, <1>6, <1>7, <1>10 DEF p, q

\* A learner as it is described: its start is not below its smallest one, and
\* every start that is not gives a config of the same sizes.
Ready(alg, params, config) ==
    /\ config \in [DOMAIN Class[alg] -> Int]
    /\ config.learning_starts >= min_learning_starts(alg, config)
    /\ \A start \in Int : start >= min_learning_starts(alg, config) =>
          LET c == from_dict(alg, With(params, start)) IN
          /\ c \in [DOMAIN Class[alg] -> Int] /\ c # Rejected
          /\ c.learning_starts = start /\ c.buffer_size = config.buffer_size
          /\ min_learning_starts(alg, c) = min_learning_starts(alg, config)

LEMMA LearnerIs ==
  ASSUME NEW alg \in Learners, NEW params, Sizes(params), learner_config(alg, params) # Rejected
  PROVE  Ready(alg, params, learner_config(alg, params))
<1> DEFINE probe == from_dict(alg, With(params, Unbounded))
           low == min_learning_starts(alg, probe)
           own == Own(alg, params)
           start == Max({own, low})
           config == from_dict(alg, With(params, start))
<1>1. probe # Rejected /\ learner_config(alg, params) = config
  BY DEF learner_config
<1>2. Unbounded \in Int /\ own \in Int
  BY LearningStartAssumption DEF Own, Sizes
<1>3. probe \in [DOMAIN Class[alg] -> Int]
  <2>1. Sizes(With(params, Unbounded))
    BY <1>2 DEF With, Sizes
  <2> QED
    BY <1>1, <2>1, FromDictIs
<1>4. low \in Int
  BY <1>3, MinimumIs
<1> HIDE DEF low, own, config, probe
<1>5. start \in Int /\ start >= low
  BY <1>2, <1>4, LargerOf
<1> HIDE DEF start
<1>6. \A s \in Int : s >= low =>
        LET c == from_dict(alg, With(params, s)) IN
        /\ c \in [DOMAIN Class[alg] -> Int] /\ c # Rejected
        /\ c.learning_starts = s /\ c.buffer_size = probe.buffer_size
        /\ min_learning_starts(alg, c) = low
  BY <1>1, <1>2, OtherStart DEF probe, low
<1>7. /\ config \in [DOMAIN Class[alg] -> Int] /\ config.learning_starts = start
      /\ config.buffer_size = probe.buffer_size /\ min_learning_starts(alg, config) = low
  BY <1>5, <1>6 DEF config
<1> QED
  BY <1>1, <1>5, <1>6, <1>7 DEF Ready

-----------------------------------------------------------------------------
(* Learners of a run.                                                      *)

LEMMA ImageIsFinite ==
  ASSUME NEW S, IsFiniteSet(S), NEW f
  PROVE  IsFiniteSet({f[x] : x \in S})
<1> DEFINE T == {f[x] : x \in S}
           g == [x \in S |-> f[x]]
<1>1. g \in Surjection(S, T)
  BY DEF Surjection
<1> QED
  BY <1>1, FS_Surjection

Team(learners) ==
    /\ IsFiniteSet(DOMAIN learners)
    /\ \A i \in DOMAIN learners :
         /\ learners[i].alg \in Learners
         /\ learners[i].config \in [DOMAIN Class[learners[i].alg] -> Int]
         /\ learners[i].config.learning_starts
               >= min_learning_starts(learners[i].alg, learners[i].config)

\* The start that is asked for: the longest of the own ones, if none is given.
Asked(explicit, learners) ==
    IF explicit # Automatic THEN explicit
    ELSE Max({learners[i].config.learning_starts : i \in DOMAIN learners})

Fits(start, learners) ==
    start >= Minimum(learners) /\ \A limit \in Limits(learners) : start <= limit

LEMMA LearnerSizes ==
  ASSUME NEW learners, Team(learners), NEW i \in DOMAIN learners
  PROVE  LET alg == learners[i].alg
             c == learners[i].config
         IN  /\ min_learning_starts(alg, c) \in Int
             /\ c.learning_starts \in Int /\ c.buffer_size \in Int
             /\ c.learning_starts >= min_learning_starts(alg, c)
             /\ first_update_transitions(alg, c) = c.learning_starts
<1> DEFINE alg == learners[i].alg
           c == learners[i].config
<1>1. alg \in Learners /\ c \in [DOMAIN Class[alg] -> Int]
      /\ c.learning_starts >= min_learning_starts(alg, c)
  BY DEF Team
<1> HIDE DEF alg, c
<1>2. /\ min_learning_starts(alg, c) \in Int
      /\ c.learning_starts \in Int /\ c.buffer_size \in Int
  BY <1>1, MinimumIs
<1>3. first_update_transitions(alg, c) = c.learning_starts
  BY <1>1, <1>2, LargerOf DEF first_update_transitions
<1> QED
  BY <1>1, <1>2, <1>3 DEF alg, c

\* The limits and the smallest start of a team are numbers.
LEMMA BoundsAre ==
  ASSUME NEW learners, Team(learners), DOMAIN learners # {}
  PROVE  /\ Minimum(learners) \in Int
         /\ \A i \in DOMAIN learners :
              min_learning_starts(learners[i].alg, learners[i].config) <= Minimum(learners)
         /\ Limits(learners) \subseteq Int /\ IsFiniteSet(Limits(learners))
         /\ \A i \in DOMAIN learners :
              learners[i].alg \in OffPolicy => learners[i].config.buffer_size \in Limits(learners)
<1> DEFINE D == DOMAIN learners
           low(i) == min_learning_starts(learners[i].alg, learners[i].config)
           top(i) == learning_starts_limit(learners[i].alg, learners[i].config)
           lows == {low(i) : i \in D}
           bounded == {i \in D : learners[i].alg \in OffPolicy}
           buffers == {learners[i].config.buffer_size : i \in bounded}
<1>1. IsFiniteSet(D)
  BY DEF Team
<1>2. lows \subseteq Int /\ lows # {}
  BY LearnerSizes
<1>3. IsFiniteSet(lows)
  <2> DEFINE f == [i \in D |-> low(i)]
  <2>1. lows = {f[i] : i \in D}
    OBVIOUS
  <2> HIDE DEF f, lows
  <2> QED
    BY <1>1, <2>1, ImageIsFinite
<1>4. Minimum(learners) = Max(lows)
  BY DEF Minimum
<1> HIDE DEF lows
<1>5. Max(lows) \in lows /\ \A y \in lows : y <= Max(lows)
  BY <1>2, <1>3, EndsAre
<1>6. \A i \in D : low(i) \in lows
  BY DEF lows
<1>7. Limits(learners) = buffers
  BY DEF Limits, learning_starts_limit
<1>8. IsFiniteSet(bounded)
  BY <1>1, FS_Subset
<1>9. IsFiniteSet(buffers)
  <2> DEFINE f == [i \in bounded |-> learners[i].config.buffer_size]
  <2>1. buffers = {f[i] : i \in bounded}
    OBVIOUS
  <2> HIDE DEF f, buffers, bounded
  <2> QED
    BY <1>8, <2>1, ImageIsFinite
<1>10. buffers \subseteq Int
  BY LearnerSizes
<1> QED
  BY <1>2, <1>4, <1>5, <1>6, <1>7, <1>9, <1>10

\* common_learning_starts: what was asked for, if it fits everyone.
LEMMA CommonIs ==
  ASSUME NEW learners, Team(learners), NEW explicit \in Int \cup {Automatic}
  PROVE  /\ DOMAIN learners = {} => common_learning_starts(explicit, learners) = NoLearner
         /\ DOMAIN learners # {} =>
              /\ Asked(explicit, learners) \in Int
              /\ common_learning_starts(explicit, learners)
                   = IF Fits(Asked(explicit, learners), learners)
                     THEN Asked(explicit, learners) ELSE Rejected
<1> DEFINE D == DOMAIN learners
           owns == {learners[i].config.learning_starts : i \in D}
           firsts == {first_update_transitions(learners[i].alg, learners[i].config) : i \in D}
<1>1. firsts = owns
  BY LearnerSizes
<1>2. D # {} => Max(owns) \in Int
  <2> SUFFICES ASSUME D # {} PROVE Max(owns) \in Int
    OBVIOUS
  <2>1. owns \subseteq Int /\ owns # {}
    BY LearnerSizes
  <2>2. IsFiniteSet(owns)
    <3> DEFINE f == [i \in D |-> learners[i].config.learning_starts]
    <3>1. owns = {f[i] : i \in D} /\ IsFiniteSet(D)
      BY DEF Team
    <3> HIDE DEF f, owns, D
    <3> QED
      BY <3>1, ImageIsFinite
  <2> HIDE DEF owns
  <2> QED
    BY <2>1, <2>2, EndsAre
<1>3. D # {} => Asked(explicit, learners) \in Int
  BY <1>2 DEF Asked
<1>4. common_learning_starts(explicit, learners)
        = LET value == Asked(explicit, learners) IN
          IF D = {} THEN NoLearner
          ELSE IF value < Minimum(learners) \/ \E limit \in Limits(learners) : value > limit
               THEN Rejected ELSE value
  BY <1>1 DEF common_learning_starts, Asked
<1>5. CASE D = {}
  BY <1>4, <1>5
<1>6. CASE D # {}
  <2> DEFINE value == Asked(explicit, learners)
             low == Minimum(learners)
  <2>1. value \in Int /\ low \in Int /\ Limits(learners) \subseteq Int
    BY <1>3, <1>6, BoundsAre
  <2>2. common_learning_starts(explicit, learners)
          = IF value < low \/ \E limit \in Limits(learners) : value > limit
            THEN Rejected ELSE value
    BY <1>4, <1>6
  <2>3. Fits(value, learners)
          <=> value >= low /\ \A limit \in Limits(learners) : value <= limit
    BY DEF Fits
  <2> HIDE DEF value, low
  <2>4. Fits(value, learners)
          <=> ~ (value < low \/ \E limit \in Limits(learners) : value > limit)
    BY <2>1, <2>3
  <2> QED
    BY <1>6, <2>1, <2>2, <2>4 DEF value
<1> QED
  BY <1>5, <1>6

-----------------------------------------------------------------------------
(* Agents of a scenario.                                                   *)

Scenario(agents, defaults) ==
    /\ DOMAIN agents \subseteq 1 .. 2
    /\ \A i \in DOMAIN agents : Sizes(agents[i].params) /\ Sizes(defaults[agents[i].alg])

LEMMA LayeredIs ==
  ASSUME NEW agent1, NEW defaults, Sizes(agent1.params), Sizes(defaults[agent1.alg])
  PROVE  Sizes(Layered(agent1, defaults))
BY DEF Sizes, Layered

\* A run of them whose parameters are all accepted.
LEMMA DescribedIs ==
  ASSUME NEW agents, NEW defaults, Scenario(agents, defaults),
         \A i \in DOMAIN Described(agents, defaults) :
            Described(agents, defaults)[i].config # Rejected
  PROVE  LET learners == Described(agents, defaults) IN
         /\ Team(learners) /\ DOMAIN learners \subseteq 1 .. 2
         /\ DOMAIN learners \subseteq DOMAIN agents
         /\ \A i \in DOMAIN learners :
              /\ learners[i].alg = agents[i].alg /\ agents[i].alg \in Learners
              /\ Ready(agents[i].alg, Layered(agents[i], defaults), learners[i].config)
<1> DEFINE learners == Described(agents, defaults)
           D == {i \in DOMAIN agents : agents[i].alg \in Learners}
<1>1. /\ DOMAIN learners = D
      /\ \A i \in D :
            /\ learners[i].alg = agents[i].alg
            /\ learners[i].config = learner_config(agents[i].alg, Layered(agents[i], defaults))
  BY DEF Described
<1>2. D \subseteq 1 .. 2 /\ IsFiniteSet(D)
  <2>1. D \subseteq 1 .. 2
    <3>1. D \subseteq DOMAIN agents
      OBVIOUS
    <3> HIDE DEF D
    <3> QED
      BY <3>1 DEF Scenario
  <2>2. IsFiniteSet(1 .. 2)
    <3>1. IsFiniteSet({1}) /\ IsFiniteSet({2})
      BY FS_Singleton
    <3>2. IsFiniteSet({1} \cup {2})
      BY <3>1, FS_Union
    <3>3. 1 .. 2 = {1} \cup {2}
      BY SMT
    <3> QED
      BY <3>2, <3>3
  <2> QED
    BY <2>1, <2>2, FS_Subset
<1>3. ASSUME NEW i \in D
      PROVE  Ready(agents[i].alg, Layered(agents[i], defaults), learners[i].config)
  <2>1. Sizes(Layered(agents[i], defaults))
    BY LayeredIs DEF Scenario
  <2>2. learner_config(agents[i].alg, Layered(agents[i], defaults)) # Rejected
    BY <1>1
  <2>3. agents[i].alg \in Learners
    OBVIOUS
  <2> QED
    BY <1>1, <2>1, <2>2, <2>3, LearnerIs
<1> HIDE DEF learners
<1>4. Team(learners)
  BY <1>1, <1>2, <1>3 DEF Team, Ready
<1> QED
  BY <1>1, <1>2, <1>3, <1>4 DEF learners

-----------------------------------------------------------------------------
(* The check at the save and the run that is built.                        *)

Summary(explicit, learners) ==
    [value |-> Asked(explicit, learners), automatic |-> explicit = Automatic,
     minimum |-> Minimum(learners),
     limit |-> IF Limits(learners) = {} THEN {} ELSE {Min(Limits(learners))}]

\* The one limit that is shown is as good as all of them.
LEMMA SummaryIs ==
  ASSUME NEW learners, Team(learners), DOMAIN learners # {}, NEW explicit \in Int \cup {Automatic}
  PROVE  /\ Summary(explicit, learners) \in Resolved
         /\ Summary(explicit, learners) \notin {Rejected, NoLearner}
         /\ \A start \in Int :
              Fits(start, learners)
                <=> /\ start >= Summary(explicit, learners).minimum
                    /\ \A limit \in Summary(explicit, learners).limit : start <= limit
<1> DEFINE limits == Limits(learners)
           shown == IF limits = {} THEN {} ELSE {Min(limits)}
           asked == Asked(explicit, learners)
           low == Minimum(learners)
<1>1. limits \subseteq Int /\ IsFiniteSet(limits) /\ low \in Int /\ asked \in Int
  BY BoundsAre, CommonIs
<1>2. Summary(explicit, learners)
        = [value |-> asked, automatic |-> explicit = Automatic, minimum |-> low, limit |-> shown]
  BY DEF Summary
<1>3. \A start \in Int :
        Fits(start, learners) <=> start >= low /\ \A limit \in limits : start <= limit
  BY DEF Fits
<1> HIDE DEF limits, low, asked
<1>4. limits # {} => Min(limits) \in limits /\ \A y \in limits : Min(limits) <= y
  BY <1>1, EndsAre
<1>5. shown \subseteq Int
  BY <1>1, <1>4
<1>6. \A start \in Int :
        (\A limit \in limits : start <= limit) <=> \A limit \in shown : start <= limit
  <2>1. CASE limits = {}
    BY <2>1
  <2>2. CASE limits # {}
    <3> DEFINE least == Min(limits)
    <3>1. least \in limits /\ (\A y \in limits : least <= y) /\ shown = {least}
      BY <1>4, <2>2
    <3> HIDE DEF least, shown
    <3>2. ASSUME NEW start \in Int, start <= least, NEW limit \in limits
          PROVE  start <= limit
      <4>1. least \in Int /\ limit \in Int /\ least <= limit
        BY <1>1, <3>1
      <4> QED
        BY <3>2, <4>1
    <3> QED
      BY <3>1, <3>2
  <2> QED
    BY <2>1, <2>2
<1> HIDE DEF shown
<1>7. (explicit = Automatic) \in BOOLEAN
  OBVIOUS
<1>8. Summary(explicit, learners) \in Resolved
  BY <1>1, <1>2, <1>5, <1>7 DEF Resolved
<1>9. Summary(explicit, learners) \notin {Rejected, NoLearner}
  BY <1>8, LearningStartAssumption
<1>10. Summary(explicit, learners).minimum = low /\ Summary(explicit, learners).limit = shown
  BY <1>2
<1> QED
  BY <1>3, <1>6, <1>8, <1>9, <1>10

LEMMA ResolveIs ==
  ASSUME NEW agents, NEW defaults, Scenario(agents, defaults),
         \A i \in DOMAIN Described(agents, defaults) :
            Described(agents, defaults)[i].config # Rejected,
         NEW explicit \in Int \cup {Automatic}
  PROVE  LET learners == Described(agents, defaults) IN
         resolve_learning_start(explicit, agents, defaults)
           = IF DOMAIN learners = {} THEN NoLearner
             ELSE IF Fits(Asked(explicit, learners), learners)
                  THEN Summary(explicit, learners) ELSE Rejected
<1> DEFINE learners == Described(agents, defaults)
           kept == Restrict(learners, {i \in DOMAIN learners : learners[i].config # Rejected})
<1>1. kept = learners
  <2>1. {i \in DOMAIN learners : learners[i].config # Rejected} = DOMAIN learners
    OBVIOUS
  <2>2. learners = [i \in DOMAIN learners |-> learners[i]]
    BY DEF Described
  <2> QED
    BY <2>1, <2>2 DEF Restrict
<1>2. resolve_learning_start(explicit, agents, defaults)
        = LET value == common_learning_starts(explicit, kept) IN
          IF value \in {NoLearner, Rejected} THEN value
          ELSE [value |-> value, automatic |-> explicit = Automatic,
                minimum |-> Minimum(kept),
                limit |-> IF Limits(kept) = {} THEN {} ELSE {Min(Limits(kept))}]
  BY DEF resolve_learning_start
<1>3. Team(learners)
  BY DescribedIs
<1> HIDE DEF learners, kept
<1>4. CASE DOMAIN learners = {}
  BY <1>1, <1>2, <1>3, <1>4, CommonIs DEF learners
<1>5. CASE DOMAIN learners # {}
  <2> DEFINE asked == Asked(explicit, learners)
  <2>1. /\ asked \in Int
        /\ common_learning_starts(explicit, learners)
             = IF Fits(asked, learners) THEN asked ELSE Rejected
    BY <1>3, <1>5, CommonIs
  <2>2. asked \notin {NoLearner, Rejected}
    BY <2>1, LearningStartAssumption
  <2>3. resolve_learning_start(explicit, agents, defaults)
          = IF Fits(asked, learners) THEN Summary(explicit, learners) ELSE Rejected
    <3>1. CASE Fits(asked, learners)
      <4>1. common_learning_starts(explicit, learners) = asked
        BY <2>1, <3>1
      <4> QED
        BY <1>1, <1>2, <2>2, <3>1, <4>1 DEF Summary
    <3>2. CASE ~ Fits(asked, learners)
      BY <1>1, <1>2, <2>1, <3>2
    <3> QED
      BY <3>1, <3>2
  <2> QED
    BY <1>5, <2>3 DEF learners
<1> QED
  BY <1>4, <1>5

LEMMA BuildIs ==
  ASSUME NEW agents, NEW defaults, Scenario(agents, defaults),
         \A i \in DOMAIN Described(agents, defaults) :
            Described(agents, defaults)[i].config # Rejected,
         NEW explicit \in Int \cup {Automatic}
  PROVE  LET learners == Described(agents, defaults)
             asked == Asked(explicit, learners)
             built == BuildLearners(explicit, agents, defaults)
         IN  /\ DOMAIN learners = {} => built = NoLearner
             /\ DOMAIN learners # {} /\ ~ Fits(asked, learners) => built = Rejected
             /\ DOMAIN learners # {} /\ Fits(asked, learners) =>
                  /\ built # Rejected /\ DOMAIN built = DOMAIN learners
                  /\ \A i \in DOMAIN learners :
                       /\ built[i].learning_starts = asked
                       /\ min_learning_starts(learners[i].alg, built[i]) <= asked
                       /\ learners[i].alg \in OffPolicy => asked <= built[i].buffer_size
<1> DEFINE learners == Described(agents, defaults)
           D == DOMAIN learners
           asked == Asked(explicit, learners)
           built == BuildLearners(explicit, agents, defaults)
           start == common_learning_starts(explicit, learners)
           configs == [i \in D |->
                         from_dict(agents[i].alg, With(Layered(agents[i], defaults), start))]
<1>1. /\ Team(learners) /\ D \subseteq 1 .. 2 /\ D \subseteq DOMAIN agents
      /\ \A i \in D :
           /\ learners[i].alg = agents[i].alg /\ agents[i].alg \in Learners
           /\ Ready(agents[i].alg, Layered(agents[i], defaults), learners[i].config)
  BY DescribedIs
<1>2. built = IF start \in {NoLearner, Rejected} THEN start
              ELSE IF Rejected \in Range(configs) THEN Rejected ELSE configs
  BY DEF BuildLearners
<1> HIDE DEF learners, built
<1>3. CASE D = {}
  BY <1>1, <1>2, <1>3, CommonIs DEF learners, built
<1>4. CASE D # {} /\ ~ Fits(asked, learners)
  BY <1>1, <1>2, <1>4, CommonIs DEF learners, built
<1>5. CASE D # {} /\ Fits(asked, learners)
  <2>1. start = asked /\ asked \in Int
    BY <1>1, <1>5, CommonIs
  <2>2. start \notin {NoLearner, Rejected}
    BY <2>1, LearningStartAssumption
  <2>3. ASSUME NEW i \in D
        PROVE  /\ agents[i].alg \in Learners /\ configs[i] \in [DOMAIN Class[agents[i].alg] -> Int]
               /\ configs[i] # Rejected /\ configs[i].learning_starts = asked
               /\ min_learning_starts(learners[i].alg, configs[i]) <= asked
               /\ learners[i].alg \in OffPolicy => asked <= configs[i].buffer_size
    <3> DEFINE alg == agents[i].alg
               low == min_learning_starts(alg, learners[i].config)
    <3>1. /\ low \in Int /\ Minimum(learners) \in Int /\ low <= Minimum(learners)
          /\ asked >= Minimum(learners)
          /\ learners[i].alg \in OffPolicy =>
                learners[i].config.buffer_size \in Limits(learners)
      BY <1>1, <1>5, LearnerSizes, BoundsAre DEF Fits
    <3> HIDE DEF low
    <3>2. asked >= low
      BY <2>1, <3>1
    <3>3. low <= asked
      BY <2>1, <3>1, <3>2
    <3>4. learners[i].alg \in OffPolicy => asked <= learners[i].config.buffer_size
      BY <1>5, <3>1 DEF Fits
    <3>5. configs[i] = from_dict(alg, With(Layered(agents[i], defaults), asked))
      BY <2>1
    <3>6. /\ configs[i] \in [DOMAIN Class[alg] -> Int] /\ configs[i] # Rejected
          /\ configs[i].learning_starts = asked
          /\ configs[i].buffer_size = learners[i].config.buffer_size
          /\ min_learning_starts(alg, configs[i]) = low
      <4> HIDE DEF configs, asked, alg
      <4>1. Ready(alg, Layered(agents[i], defaults), learners[i].config)
        BY <1>1 DEF alg
      <4> QED
        BY <2>1, <3>2, <3>5, <4>1 DEF Ready, low
    <3> QED
      BY <1>1, <3>3, <3>4, <3>6
  <2> HIDE DEF asked, start
  <2>4. DOMAIN configs = D /\ Rejected \notin Range(configs)
    BY <2>3 DEF Range
  <2>5. configs # Rejected
    <3> DEFINE AllConfigs == UNION {[DOMAIN Class[alg] -> Int] : alg \in Learners}
    <3>1. \A i \in D : configs[i] \in AllConfigs
      BY <2>3
    <3>2. configs = [i \in D |-> configs[i]]
      OBVIOUS
    <3>3. Rejected \notin [D -> AllConfigs]
      BY <1>1, MCStartAssumption
    <3> HIDE DEF AllConfigs, configs
    <3>4. configs \in [D -> AllConfigs]
      BY <3>1, <3>2
    <3> QED
      BY <3>3, <3>4
  <2>6. built = configs
    BY <1>2, <2>2, <2>4
  <2> HIDE DEF configs
  <2> QED
    BY <1>5, <2>3, <2>4, <2>5, <2>6 DEF learners, built, asked
<1> QED
  BY <1>3, <1>4, <1>5 DEF learners

-----------------------------------------------------------------------------
(* What is entered in the wizard.                                          *)

LEMMA ParamSetsAre == \A params \in ParamSets : Sizes(params)
<1> SUFFICES ASSUME NEW params \in ParamSets PROVE Sizes(params)
  OBVIOUS
<1>1. CASE params = [key \in {} |-> 0]
  BY <1>1 DEF Sizes
<1>2. ASSUME NEW key, NEW S, S \subseteq Int, params \in [{key} -> S] PROVE Sizes(params)
  BY <1>2 DEF Sizes
<1>3. CASE params \in [{"batch_size"} -> {3}] \/ params \in [{"buffer_size"} -> {2}]
  <2>1. {3} \subseteq Int /\ {2} \subseteq Int
    OBVIOUS
  <2> QED
    BY <1>2, <1>3, <2>1
<1>4. CASE params \in [{"learning_starts"} -> {1, 4, 6}] \/ params \in [{"rollout_length"} -> {6}]
  <2>1. {1, 4, 6} \subseteq Int /\ {6} \subseteq Int
    OBVIOUS
  <2> QED
    BY <1>2, <1>4, <2>1
<1> QED
  BY <1>1, <1>3, <1>4 DEF ParamSets

LEMMA StartInput ==
  ASSUME InputKnown, input.kind = "start", ValidStart(input.explicit)
  PROVE  /\ input.explicit \in Int \cup {Automatic}
         /\ Scenario([i \in DOMAIN input.entries |-> SavedEntry(input.entries[i])],
                     input.defaults)
<1> DEFINE algs == {"SAC", "RDPG", "PPO", "RANDOM"}
           agents == [i \in DOMAIN input.entries |-> SavedEntry(input.entries[i])]
<1>1. input \in [kind : {"start"},
                 entries : {<<e>> : e \in Entries} \cup (NewEntries \X Entries),
                 defaults : DefaultRows, explicit : {Automatic, 0, 3, 6}]
  BY DEF InputKnown, Inputs, TunedInput
<1>2. input.entries \in {<<e>> : e \in Entries} \cup (NewEntries \X Entries)
      /\ input.defaults \in DefaultRows /\ input.explicit \in {Automatic, 0, 3, 6}
  BY <1>1
<1>3. DOMAIN input.entries \subseteq 1 .. 2
      /\ \A i \in DOMAIN input.entries : input.entries[i] \in Entries
  <2>1. NewEntries \subseteq Entries
    BY DEF NewEntries
  <2> QED
    BY <1>2, <2>1
<1>4. ASSUME NEW e \in Entries PROVE SavedEntry(e).alg \in algs /\ Sizes(SavedEntry(e).params)
  <2>1. Sizes([key \in {} |-> 0])
    BY DEF Sizes
  <2>2. CASE e \in [alg : algs, stored : {NoStored}, params : ParamSets]
    <3>1. e.alg \in algs /\ e.stored = NoStored /\ Sizes(e.params)
      BY <2>2, ParamSetsAre
    <3> QED
      BY <3>1 DEF SavedEntry
  <2>3. CASE e \in [alg : {"SAC", "RDPG", "PPO"}, stored : Stored, params : {[key \in {} |-> 0]}]
    <3>1. e.alg \in algs /\ e.stored \in Stored /\ e.params = [key \in {} |-> 0]
      BY <2>3
    <3>2. Sizes(e.stored.params)
      BY <3>1, ParamSetsAre DEF Stored
    <3> QED
      BY <2>1, <3>1, <3>2 DEF SavedEntry
  <2> QED
    BY <2>2, <2>3 DEF Entries
<1>5. \A alg \in algs : Sizes(input.defaults[alg])
  <2>1. PICK sac \in ParamSets :
          input.defaults = [alg \in algs |-> IF alg = "SAC" THEN sac ELSE [key \in {} |-> 0]]
    BY <1>2 DEF DefaultRows
  <2>2. Sizes(sac) /\ Sizes([key \in {} |-> 0])
    BY ParamSetsAre DEF Sizes
  <2> QED
    BY <2>1, <2>2
<1>6. Scenario(agents, input.defaults)
  <2>1. \A i \in DOMAIN input.entries :
          agents[i] = SavedEntry(input.entries[i]) /\ input.entries[i] \in Entries
    BY <1>3
  <2> HIDE DEF algs
  <2>2. DOMAIN agents = DOMAIN input.entries
    OBVIOUS
  <2> HIDE DEF agents
  <2> QED
    BY <1>3, <1>4, <1>5, <2>1, <2>2 DEF Scenario
<1> QED
  BY <1>2, <1>6

LEMMA StartsHold == InputKnown => StartIsCommon
<1> SUFFICES ASSUME InputKnown, input.kind = "start", ValidStart(input.explicit)
             PROVE  StartIsCommon
  BY DEF StartIsCommon
<1> DEFINE entries == input.entries
           defaults == input.defaults
           explicit == input.explicit
           agents == [i \in DOMAIN entries |-> SavedEntry(entries[i])]
           learners == Described(agents, defaults)
           D == DOMAIN learners
           refused == \E l \in Range(learners) : l.config = Rejected
           saved == CheckSaved(explicit, entries, defaults)
           built == BuildLearners(explicit, agents, defaults)
           asked == Asked(explicit, learners)
           switched == \E i \in DOMAIN entries :
                          entries[i].stored # NoStored /\ entries[i].stored.alg # entries[i].alg
<1>1. explicit \in Int \cup {Automatic} /\ Scenario(agents, defaults)
  BY StartInput
<1>2. saved = resolve_learning_start(explicit, agents, defaults)
      /\ \A start \in Int : CheckSaved(start, entries, defaults)
                              = resolve_learning_start(start, agents, defaults)
  BY DEF CheckSaved
<1>3. refused <=> \E i \in D : learners[i].config = Rejected
  BY DEF Range
<1>4. refused => built = Rejected
  BY <1>3 DEF BuildLearners
<1>5. ~ switched => saved = learning_start_preview(explicit, entries, defaults)
  <2> SUFFICES ASSUME ~ switched
               PROVE  saved = learning_start_preview(explicit, entries, defaults)
    OBVIOUS
  <2>1. \A i \in DOMAIN entries : Previewed(entries[i]) = SavedEntry(entries[i])
    BY DEF Previewed, SavedEntry
  <2>2. agents = [i \in DOMAIN entries |-> Previewed(entries[i])]
    BY <2>1
  <2> HIDE DEF agents
  <2> QED
    BY <1>2, <2>2 DEF learning_start_preview
<1>6. ASSUME ~ refused
      PROVE  /\ (built = Rejected) = (saved = Rejected)
             /\ saved \notin {Rejected, NoLearner} =>
                  /\ Shown(built) = saved.value
                  /\ \A i \in DOMAIN built :
                        /\ built[i].learning_starts = saved.value
                        /\ min_learning_starts(learners[i].alg, built[i]) <= saved.value
                        /\ learners[i].alg \in OffPolicy => saved.value <= built[i].buffer_size
                  /\ \A start \in 1 .. 7 :
                        (CheckSaved(start, entries, defaults) # Rejected)
                            = (start >= saved.minimum /\ \A l \in saved.limit : start <= l)
                  /\ saved.automatic =>
                        saved.value = Max({learners[i].config.learning_starts : i \in D})
  <2>1. \A i \in D : learners[i].config # Rejected
    BY <1>3, <1>6
  <2>2. Team(learners) /\ D \subseteq 1 .. 2
    BY <1>1, <2>1, DescribedIs
  <2>3. \A start \in Int \cup {Automatic} :
          resolve_learning_start(start, agents, defaults)
            = IF D = {} THEN NoLearner
              ELSE IF Fits(Asked(start, learners), learners)
                   THEN Summary(start, learners) ELSE Rejected
    BY <1>1, <2>1, ResolveIs
  <2>4. /\ D = {} => built = NoLearner
        /\ D # {} /\ ~ Fits(asked, learners) => built = Rejected
        /\ D # {} /\ Fits(asked, learners) =>
             /\ built # Rejected /\ DOMAIN built = D
             /\ \A i \in D :
                  /\ built[i].learning_starts = asked
                  /\ min_learning_starts(learners[i].alg, built[i]) <= asked
                  /\ learners[i].alg \in OffPolicy => asked <= built[i].buffer_size
    BY <1>1, <2>1, BuildIs
  <2>5. NoLearner # Rejected
    BY LearningStartAssumption
  <2> HIDE DEF agents, learners, built, saved
  <2>6. CASE D = {}
    BY <1>1, <1>2, <2>3, <2>4, <2>5, <2>6
  <2>7. CASE D # {} /\ ~ Fits(asked, learners)
    BY <1>1, <1>2, <2>3, <2>4, <2>7
  <2>8. CASE D # {} /\ Fits(asked, learners)
    <3>1. saved = Summary(explicit, learners) /\ saved \notin {Rejected, NoLearner}
      BY <1>1, <1>2, <2>2, <2>3, <2>8, SummaryIs
    <3>2. saved.value = asked /\ saved.automatic = (explicit = Automatic)
          /\ saved.minimum = Summary(explicit, learners).minimum
          /\ saved.limit = Summary(explicit, learners).limit
      BY <3>1 DEF Summary
    <3>3. Shown(built) = asked
      <4>1. Min(D) \in D
        BY <2>2, <2>8, EndsAre DEF Team
      <4> QED
        BY <2>4, <2>8, <4>1 DEF Shown
    <3>4. ASSUME NEW start \in 1 .. 7
          PROVE  (CheckSaved(start, entries, defaults) # Rejected)
                     = (start >= saved.minimum /\ \A l \in saved.limit : start <= l)
      <4>1. start \in Int /\ start # Automatic
        BY LearningStartAssumption
      <4>2. Asked(start, learners) = start
        BY <4>1 DEF Asked
      <4>3. CheckSaved(start, entries, defaults)
              = IF Fits(start, learners) THEN Summary(start, learners) ELSE Rejected
        BY <1>2, <2>3, <2>8, <4>1, <4>2
      <4>4. Summary(start, learners) # Rejected
        BY <2>2, <2>8, <4>1, SummaryIs
      <4>5. Fits(start, learners) <=> start >= saved.minimum /\ \A l \in saved.limit : start <= l
        BY <1>1, <2>2, <2>8, <3>2, <4>1, SummaryIs
      <4>6. (CheckSaved(start, entries, defaults) # Rejected)
              <=> (start >= saved.minimum /\ \A l \in saved.limit : start <= l)
        BY <4>3, <4>4, <4>5
      <4> QED
        BY <4>6
    <3>5. saved.automatic => saved.value = Max({learners[i].config.learning_starts : i \in D})
      BY <3>2 DEF Asked
    <3>6. built # Rejected /\ saved # Rejected
      BY <2>4, <2>8, <3>1
    <3> QED
      BY <2>4, <2>8, <3>2, <3>3, <3>4, <3>5, <3>6
  <2> QED
    BY <2>6, <2>7, <2>8
<1> QED
  BY <1>4, <1>5, <1>6 DEF StartIsCommon

\* Whatever the algorithms, their sizes and their published values: the check at
\* the save, the preview in the wizard, the run that is built and the analysis
\* agree on one learning start, or on that there is none (learning_start_preview,
\* _check_learning_start, SimulationContext.build, _effective_learning_starts).
THEOREM StartIsRight == MCSpec => []StartIsCommon
  BY InputsStay, StartsHold, PTL

-----------------------------------------------------------------------------
(* Whole numbers that are divided.                                         *)

LEMMA Times ==
  ASSUME NEW a \in Nat, NEW b \in Nat, NEW d \in Nat
  PROVE  /\ a * d \in Nat /\ b * d \in Nat /\ (a + 1) * d = a * d + d
         /\ a <= b => a * d <= b * d
OBVIOUS

\* A quotient is known from the remainder that it leaves.
LEMMA QuotientIs ==
  ASSUME NEW x \in Nat, NEW d \in Nat \ {0}, NEW q \in Nat, NEW r \in Nat,
         r < d, x = q * d + r
  PROVE  x \div d = q
<1> DEFINE p == x \div d
           s == x % d
<1>1. p \in Nat /\ s \in Nat /\ s < d /\ x = p * d + s
  OBVIOUS
<1>2. ASSUME NEW i \in Nat, NEW j \in Nat, NEW v \in Nat, NEW w \in Nat, v < d, w < d,
             i * d + v = j * d + w, i < j
      PROVE  FALSE
  <2>1. (i + 1) * d <= j * d /\ (i + 1) * d = i * d + d
    BY <1>2, Times
  <2>2. i * d \in Nat /\ j * d \in Nat
    BY Times
  <2> QED
    BY <1>2, <2>1, <2>2
<1> HIDE DEF p, s
<1>3. ~ (p < q) /\ ~ (q < p)
  BY <1>1, <1>2
<1> QED
  BY <1>1, <1>3 DEF p

LEMMA QuotientOf ==
  ASSUME NEW x \in Nat, NEW d \in Nat \ {0}
  PROVE  x \div d \in Nat /\ \E r \in Nat : r < d /\ x = (x \div d) * d + r
<1>1. /\ x \div d \in Nat /\ x % d \in Nat /\ x % d < d /\ x = (x \div d) * d + (x % d)
  BY SMT
<1> QED
  BY <1>1

LEMMA QuotientGrows ==
  ASSUME NEW x \in Nat, NEW y \in Nat, NEW d \in Nat \ {0}, x <= y
  PROVE  x \div d \in Nat /\ y \div d \in Nat /\ x \div d <= y \div d
<1> DEFINE p == x \div d
           q == y \div d
<1>1. p \in Nat /\ q \in Nat
  BY QuotientOf
<1>2. PICK r \in Nat : r < d /\ x = p * d + r
  BY QuotientOf
<1>3. PICK s \in Nat : s < d /\ y = q * d + s
  BY QuotientOf
<1> HIDE DEF p, q
<1>4. ASSUME q < p PROVE FALSE
  <2>1. (q + 1) * d <= p * d /\ (q + 1) * d = q * d + d
    BY <1>1, <1>4, Times
  <2>2. q * d \in Nat /\ p * d \in Nat
    BY <1>1, Times
  <2> QED
    BY <1>2, <1>3, <2>1, <2>2
<1> QED
  BY <1>1, <1>4 DEF p, q

LEMMA Cancelled ==
  ASSUME NEW k \in Nat, NEW d \in Nat \ {0}, NEW m \in Nat \ {0}
  PROVE  (k * m) \div (d * m) = k \div d
<1> DEFINE q == k \div d
<1>1. PICK r \in Nat : r < d /\ k = q * d + r
  BY QuotientOf
<1>2. q \in Nat
  BY QuotientOf
<1> HIDE DEF q
<1>3. k * m = q * (d * m) + r * m
  BY <1>1, <1>2
<1>4. d * m \in Nat \ {0} /\ k * m \in Nat /\ r * m \in Nat
  OBVIOUS
<1>5. r * m < d * m
  <2>1. (r + 1) * m <= d * m /\ (r + 1) * m = r * m + m
    BY <1>1, Times
  <2> QED
    BY <1>4, <2>1
<1> DEFINE x == k * m
           n == d * m
           s == r * m
<1> HIDE DEF x, n, s
<1>6. x \div n = q
  BY <1>2, <1>3, <1>4, <1>5, QuotientIs DEF x, n, s
<1> QED
  BY <1>6 DEF x, n, q

LEMMA WholeOf ==
  ASSUME NEW q \in Nat, NEW d \in Nat \ {0}
  PROVE  (q * d) \div d = q /\ (d * q) \div d = q
<1>1. q * d \in Nat /\ d * q = q * d /\ q * d = q * d + 0
  OBVIOUS
<1> DEFINE x == q * d
<1> HIDE DEF x
<1>2. x \div d = q
  BY <1>1, QuotientIs DEF x
<1> QED
  BY <1>1, <1>2 DEF x

LEMMA SmallerOf ==
  ASSUME NEW x \in Int, NEW y \in Int
  PROVE  Min({x, y}) = IF x <= y THEN x ELSE y
<1> DEFINE m == IF x <= y THEN x ELSE y
<1>1. m \in {x, y} /\ \A z \in {x, y} : m <= z
  OBVIOUS
<1>2. \A w \in {x, y} : (\A z \in {x, y} : w <= z) => w = m
  OBVIOUS
<1> QED
  BY <1>1, <1>2 DEF Min

-----------------------------------------------------------------------------
(* A searched parameter.                                                   *)

Bound(s) ==
    /\ s = [low |-> s.low, high |-> s.high, scale |-> s.scale]
    /\ s.low \in Int /\ s.high \in Int /\ ValidSpec(s)

LEMMA MultipleOf ==
  ASSUME NEW x \in Int, NEW d \in Nat \ {0}
  PROVE  x % d = 0 <=> \E a \in Int : x = a * d
<1>1. x \div d \in Int /\ x % d \in 0 .. d - 1
  OBVIOUS
<1>4. x = d * (x \div d) + (x % d)
  OBVIOUS
<1>2. ASSUME x % d = 0 PROVE \E a \in Int : x = a * d
  BY <1>1, <1>2, <1>4
<1>3. ASSUME NEW a \in Int, x = a * d PROVE x % d = 0
  BY <1>3, SMT
<1> QED
  BY <1>2, <1>3

LEMMA BoundIs ==
  ASSUME NEW s, Bound(s)
  PROVE  /\ s.high - s.low \in Nat \ {0} /\ s.low \in Int /\ s.high \in Int
         /\ Steps(s) \in Nat
         /\ s.scale = "int" => s.high = s.low + Steps(s) * One
<1>1. s.high - s.low \in Nat \ {0} /\ s.low \in Int /\ s.high \in Int
  BY DEF Bound, ValidSpec
<1>2. One \in Nat \ {0}
  BY StudyInputAssumption
<1> DEFINE w == s.high - s.low
<1>3. Steps(s) = w \div One
  BY DEF Steps
<1>4. Steps(s) \in Nat
  BY <1>1, <1>2, <1>3, QuotientOf
<1>5. ASSUME s.scale = "int" PROVE w = Steps(s) * One
  <2>1. s.low % One = 0 /\ s.high % One = 0
    BY <1>5 DEF Bound, ValidSpec
  <2>2. PICK a \in Int : s.low = a * One
    BY <1>1, <1>2, <2>1, MultipleOf
  <2>3. PICK b \in Int : s.high = b * One
    BY <1>1, <1>2, <2>1, MultipleOf
  <2>4. w = (b - a) * One
    BY <1>2, <2>2, <2>3
  <2>5. b - a \in Nat
    <3> SUFFICES ASSUME b < a PROVE FALSE
      OBVIOUS
    <3>1. (a - b) * One \in Nat
      BY <1>2, SMT
    <3>2. (a - b) * One = s.low - s.high
      BY <1>2, <2>2, <2>3
    <3> QED
      BY <1>1, <3>1, <3>2
  <2>6. w \div One = b - a
    <3> DEFINE q == b - a
    <3>1. q \in Nat /\ w = q * One
      BY <2>4, <2>5
    <3> HIDE DEF q, w
    <3>2. w \div One = q
      BY <1>2, <3>1, WholeOf
    <3> QED
      BY <3>2 DEF q
  <2> QED
    BY <1>3, <2>4, <2>6
<1> QED
  BY <1>1, <1>4, <1>5

\* Where a point of an integer parameter is: the share of each value is the same.
LEMMA IntegerAt ==
  ASSUME NEW s, Bound(s), s.scale = "int", NEW d \in Nat \ {0}, NEW k \in Nat,
         k <= d * (Steps(s) + 1)
  PROVE  /\ k \div d \in Nat
         /\ k < d * (Steps(s) + 1) =>
              /\ k \div d <= Steps(s)
              /\ from_unit(s, Point(k, d * (Steps(s) + 1))) = s.low + One * (k \div d)
         /\ k = d * (Steps(s) + 1) => from_unit(s, Point(k, d * (Steps(s) + 1))) = s.high
<1> DEFINE m == Steps(s) + 1
           n == d * m
           q == k \div d
<1>1. /\ m \in Nat \ {0} /\ One \in Nat \ {0} /\ s.low \in Int /\ s.high \in Int
      /\ m = Steps(s) + 1 /\ Steps(s) \in Nat /\ s.high = s.low + Steps(s) * One
  BY BoundIs, StudyInputAssumption
<1>2. from_unit(s, Point(k, n)) = Min({s.high, s.low + One * ((k * (Steps(s) + 1)) \div n)})
  BY DEF from_unit, Point
<1> HIDE DEF m
<1>3. (k * m) \div n = q
  BY <1>1, Cancelled
<1>4. q \in Nat
  BY QuotientOf
<1>5. PICK r \in Nat : r < d /\ k = q * d + r
  BY QuotientOf
<1> HIDE DEF q
<1>6. from_unit(s, Point(k, n)) = Min({s.high, s.low + One * q})
  BY <1>1, <1>2, <1>3
<1>7. s.low + One * q \in Int
  BY <1>1, <1>4
<1>8. from_unit(s, Point(k, n))
        = IF s.high <= s.low + One * q THEN s.high ELSE s.low + One * q
  BY <1>1, <1>6, <1>7, SmallerOf
<1>9. k < n => q <= Steps(s)
  <2> SUFFICES ASSUME k < n, q >= m PROVE FALSE
    BY <1>1, <1>4
  <2>1. m * d <= q * d /\ m * d \in Nat /\ q * d \in Nat /\ m * d = n
    BY <1>1, <1>4, Times
  <2> HIDE DEF n
  <2> QED
    BY <1>5, <2>1
<1>10. q <= Steps(s) => One * q <= Steps(s) * One
  BY <1>1, <1>4, Times
<1>11. k < n => from_unit(s, Point(k, n)) = s.low + One * q
  <2> SUFFICES ASSUME k < n PROVE from_unit(s, Point(k, n)) = s.low + One * q
    OBVIOUS
  <2>1. s.low + One * q <= s.high
    BY <1>1, <1>4, <1>9, <1>10
  <2> HIDE DEF n
  <2>2. s.high <= s.low + One * q => s.high = s.low + One * q
    BY <1>1, <1>7, <2>1
  <2> QED
    BY <1>8, <2>2
<1>12. k = n => from_unit(s, Point(k, n)) = s.high
  <2> SUFFICES ASSUME k = n PROVE from_unit(s, Point(k, n)) = s.high
    OBVIOUS
  <2>1. q = m
    BY <1>1, WholeOf DEF q
  <2>2. One * q = Steps(s) * One + One
    BY <1>1, <2>1
  <2>3. Steps(s) * One \in Nat
    BY <1>1
  <2>4. s.high <= s.low + One * q
    BY <1>1, <2>2, <2>3
  <2> QED
    BY <1>8, <2>4
<1> QED
  BY <1>4, <1>9, <1>11, <1>12 DEF m, q

LEMMA LinearAt ==
  ASSUME NEW s, Bound(s), s.scale = "linear", NEW n \in Nat \ {0}
  PROVE  /\ from_unit(s, Point(0, n)) = s.low /\ from_unit(s, Point(n, n)) = s.high
         /\ \A k \in 0 .. n : from_unit(s, Point(k, n)) \in Int
         /\ \A k \in 0 .. n - 1 : from_unit(s, Point(k, n)) <= from_unit(s, Point(k + 1, n))
<1> DEFINE w == s.high - s.low
           part(k) == (k * w) \div n
<1>1. w \in Nat /\ s.low \in Int /\ s.high = s.low + w
  BY BoundIs
<1>2. \A k : from_unit(s, Point(k, n)) = s.low + part(k)
  BY DEF from_unit, Point
<1> HIDE DEF w
<1>3. \A k \in Nat : part(k) \in Nat
  <2> SUFFICES ASSUME NEW k \in Nat PROVE part(k) \in Nat
    OBVIOUS
  <2>1. k * w \in Nat
    BY <1>1
  <2> QED
    BY <2>1, QuotientOf
<1>4. ASSUME NEW k \in Nat PROVE part(k) <= part(k + 1)
  <2> DEFINE x == k * w
             y == (k + 1) * w
  <2>1. x \in Nat /\ y \in Nat /\ x <= y
    BY <1>1, Times
  <2> HIDE DEF x, y
  <2>2. x \div n <= y \div n
    BY <2>1, QuotientGrows
  <2> QED
    BY <2>2 DEF x, y
<1>5. part(0) = 0
  <2>1. 0 * w = 0
    BY <1>1
  <2>2. 0 \div n = 0
    <3>1. 0 = 0 * n + 0
      OBVIOUS
    <3> QED
      BY <3>1, QuotientIs
  <2> QED
    BY <2>1, <2>2
<1>6. part(n) = w
  BY <1>1, WholeOf
<1> HIDE DEF part
<1>7. \A k \in 0 .. n : k \in Nat
  OBVIOUS
<1>8. \A k \in 0 .. n - 1 : s.low + part(k) <= s.low + part(k + 1)
  <2> SUFFICES ASSUME NEW k \in 0 .. n - 1 PROVE s.low + part(k) <= s.low + part(k + 1)
    OBVIOUS
  <2>1. k \in Nat /\ k + 1 \in Nat
    OBVIOUS
  <2>2. part(k) \in Nat /\ part(k + 1) \in Nat /\ part(k) <= part(k + 1)
    BY <1>3, <1>4, <2>1
  <2> QED
    BY <1>1, <2>2
<1> QED
  BY <1>1, <1>2, <1>3, <1>5, <1>6, <1>7, <1>8

LEMMA SpecsAre ==
  ASSUME NEW s \in Specs
  PROVE  Bound(s) /\ s.low \in -3 .. 6 /\ s.high \in -3 .. 9
BY DEF Specs, Bound

\* The curve is the only scale that is not worked out here.
LEMMA LogAt ==
  ASSUME NEW s \in Specs, s.scale = "log", NEW n \in {1, 4, 4 * (Steps(s) + 1)}
  PROVE  /\ from_unit(s, Point(0, n)) = s.low /\ from_unit(s, Point(n, n)) = s.high
         /\ \A k \in 0 .. n : from_unit(s, Point(k, n)) \in Int
         /\ \A k \in 0 .. n - 1 : from_unit(s, Point(k, n)) <= from_unit(s, Point(k + 1, n))
<1>1. \A u : from_unit(s, u) = LogCurve(s, u)
  BY DEF from_unit
<1> QED
  BY <1>1, MCSearchAssumption

\* How many points of a grid belong to one value of an integer parameter.
LEMMA FourEach ==
  ASSUME NEW i \in Nat, NEW n \in Nat, 4 * i + 3 < n
  PROVE  Cardinality({k \in 0 .. n - 1 : k \div 4 = i}) = 4
<1> DEFINE a == 4 * i
           b == 4 * i + 3
<1>1. a \in Int /\ b \in Int /\ b - a + 1 = 4 /\ ~ (a > b)
  OBVIOUS
<1>2. {k \in 0 .. n - 1 : k \div 4 = i} = a .. b
  OBVIOUS
<1> HIDE DEF a, b
<1>3. Cardinality(a .. b) = 4
  BY <1>1, FS_Interval
<1> QED
  BY <1>2, <1>3

LEMMA IntegerSpace ==
  ASSUME NEW s, Bound(s), s.scale = "int"
  PROVE  LET n == 4 * (Steps(s) + 1)
             at(k) == from_unit(s, Point(k, n))
         IN  /\ at(0) = s.low /\ at(n) = s.high
             /\ \A k \in 0 .. n - 1 : at(k) <= at(k + 1)
             /\ \A value \in {s.low + One * i : i \in 0 .. Steps(s)} :
                  /\ from_unit(s, to_unit(s, value)) = value
                  /\ Cardinality({k \in 0 .. n - 1 : at(k) = value}) = 4
<1> DEFINE m == Steps(s) + 1
           n == 4 * m
           at(k) == from_unit(s, Point(k, n))
<1>1. /\ m \in Nat \ {0} /\ One \in Nat \ {0} /\ s.low \in Int /\ s.high \in Int
      /\ m = Steps(s) + 1 /\ Steps(s) \in Nat /\ s.high = s.low + Steps(s) * One
  BY BoundIs, StudyInputAssumption
<1>2. n \in Nat \ {0} /\ n = 4 * Steps(s) + 4
  <2>1. Steps(s) \in Nat
    BY BoundIs
  <2> QED
    BY <2>1
<1>3. ASSUME NEW k \in Nat, k < n
      PROVE  k \div 4 \in Nat /\ k \div 4 <= Steps(s) /\ at(k) = s.low + One * (k \div 4)
  <2>1. k <= n
    BY <1>2, <1>3
  <2> QED
    BY <1>3, <2>1, IntegerAt
<1>4. at(n) = s.high
  BY <1>2, IntegerAt
<1> HIDE DEF m, n, at
<1>5. at(0) = s.low
  <2>1. 0 \div 4 = 0 /\ One * 0 = 0
    BY <1>1
  <2> QED
    BY <1>1, <1>2, <1>3, <2>1
<1>6. ASSUME NEW k \in 0 .. n - 1 PROVE at(k) <= at(k + 1)
  <2> DEFINE i == k \div 4
             j == (k + 1) \div 4
  <2>1. k \in Nat /\ k + 1 \in Nat /\ k < n /\ k + 1 <= n
    BY <1>2
  <2>2. i \in Nat /\ i <= Steps(s) /\ at(k) = s.low + One * i
    BY <1>3, <2>1
  <2>3. j \in Nat /\ i <= j
    BY <2>1, QuotientGrows
  <2> HIDE DEF i, j
  <2>4. CASE k + 1 < n
    <3>1. at(k + 1) = s.low + One * j
      BY <1>3, <2>1, <2>4 DEF j
    <3>2. One * i <= One * j /\ One * i \in Nat /\ One * j \in Nat
      BY <1>1, <2>2, <2>3, SMT
    <3> QED
      BY <1>1, <2>2, <3>1, <3>2
  <2>5. CASE k + 1 = n
    <3>1. One * i <= Steps(s) * One /\ One * i \in Nat /\ Steps(s) * One \in Nat
      BY <1>1, <2>2, SMT
    <3>2. at(k + 1) = s.low + Steps(s) * One
      BY <1>1, <1>4, <2>5
    <3> QED
      BY <1>1, <2>2, <3>1, <3>2
  <2> QED
    BY <1>2, <2>1, <2>4, <2>5
<1>7. ASSUME NEW i \in 0 .. Steps(s)
      PROVE  LET value == s.low + One * i IN
             /\ from_unit(s, to_unit(s, value)) = value
             /\ Cardinality({k \in 0 .. n - 1 : at(k) = value}) = 4
  <2> DEFINE value == s.low + One * i
  <2>1. i \in Nat /\ i <= Steps(s)
    BY <1>1
  <2>2. to_unit(s, value) = Point(2 * i + 1, 2 * (Steps(s) + 1))
    <3>1. (value - s.low) \div One = i
      <4>1. value - s.low = One * i
        BY <1>1, <2>1, SMT
      <4>2. (One * i) \div One = i
        BY <1>1, <2>1, WholeOf
      <4> HIDE DEF value
      <4> QED
        BY <4>1, <4>2
    <3> HIDE DEF value
    <3> QED
      BY <3>1 DEF to_unit
  <2>3. from_unit(s, to_unit(s, value)) = value
    <3> DEFINE c == 2 * i + 1
    <3>1. c \in Nat /\ c < 2 * (Steps(s) + 1) /\ c <= 2 * (Steps(s) + 1)
      BY <1>1, <2>1
    <3>2. c \div 2 = i
      BY <2>1
    <3> HIDE DEF c
    <3>3. from_unit(s, Point(c, 2 * (Steps(s) + 1))) = s.low + One * (c \div 2)
      BY <3>1, IntegerAt
    <3> QED
      BY <2>2, <3>2, <3>3 DEF c
  <2>4. ASSUME NEW k \in 0 .. n - 1 PROVE at(k) = value <=> k \div 4 = i
    <3> DEFINE j == k \div 4
    <3>1. k \in Nat /\ k < n
      BY <1>2
    <3>2. j \in Nat /\ at(k) = s.low + One * j
      BY <1>3, <3>1
    <3> HIDE DEF j
    <3>3. One * j = One * i => j = i
      <4>1. j < i => One * (j + 1) <= One * i /\ One * (j + 1) = One * j + One
        BY <1>1, <2>1, <3>2, SMT
      <4>2. i < j => One * (i + 1) <= One * j /\ One * (i + 1) = One * i + One
        BY <1>1, <2>1, <3>2, SMT
      <4>3. One * j \in Nat /\ One * i \in Nat
        BY <1>1, <2>1, <3>2, SMT
      <4> QED
        BY <1>1, <2>1, <3>2, <4>1, <4>2, <4>3
    <3>4. at(k) = value <=> One * j = One * i
      <4>1. One * j \in Nat /\ One * i \in Nat
        BY <1>1, <2>1, <3>2, SMT
      <4> QED
        BY <1>1, <3>2, <4>1
    <3> QED
      BY <3>3, <3>4 DEF j
  <2>5. {k \in 0 .. n - 1 : at(k) = value} = {k \in 0 .. n - 1 : k \div 4 = i}
    BY <2>4
  <2>6. 4 * i + 3 < n /\ n \in Nat
    BY <1>1, <1>2, <2>1
  <2>7. Cardinality({k \in 0 .. n - 1 : k \div 4 = i}) = 4
    BY <2>1, <2>6, FourEach
  <2> HIDE DEF value
  <2> QED
    BY <2>3, <2>5, <2>7 DEF value
<1>8. /\ at(0) = s.low /\ at(n) = s.high
      /\ \A k \in 0 .. n - 1 : at(k) <= at(k + 1)
      /\ \A value \in {s.low + One * i : i \in 0 .. Steps(s)} :
           /\ from_unit(s, to_unit(s, value)) = value
           /\ Cardinality({k \in 0 .. n - 1 : at(k) = value}) = 4
  BY <1>4, <1>5, <1>6, <1>7
<1> QED
  BY <1>8 DEF at, n, m

LEMMA SpaceHolds ==
  ASSUME NEW s \in Specs
  PROVE  LET n == 4 * (Steps(s) + 1)
             at(k) == from_unit(s, Point(k, n))
         IN  /\ at(0) = s.low /\ at(n) = s.high
             /\ \A k \in 0 .. n - 1 : at(k) <= at(k + 1)
             /\ s.scale = "int" =>
                  \A value \in {s.low + One * i : i \in 0 .. Steps(s)} :
                     /\ from_unit(s, to_unit(s, value)) = value
                     /\ Cardinality({k \in 0 .. n - 1 : at(k) = value}) = 4
<1>1. Bound(s) /\ s.scale \in {"linear", "log", "int"}
  BY SpecsAre DEF Bound, ValidSpec
<1>2. CASE s.scale = "int"
  BY <1>1, <1>2, IntegerSpace
<1>3. CASE s.scale = "linear"
  <2>1. 4 * (Steps(s) + 1) \in Nat \ {0}
    BY <1>1, BoundIs
  <2> QED
    BY <1>1, <1>3, <2>1, LinearAt
<1>4. CASE s.scale = "log"
  BY <1>4, LogAt
<1> QED
  BY <1>1, <1>2, <1>3, <1>4

-----------------------------------------------------------------------------
(* A candidate.                                                            *)

\* An integer parameter at any point: within its bounds, and whole.
LEMMA IntegerWithin ==
  ASSUME NEW s, Bound(s), s.scale = "int", NEW n \in Nat \ {0}, NEW k \in 0 .. n
  PROVE  /\ from_unit(s, Point(k, n)) \in s.low .. s.high
         /\ from_unit(s, Point(k, n)) % One = 0
         /\ k = 0 => from_unit(s, Point(k, n)) = s.low
         /\ k = n => from_unit(s, Point(k, n)) = s.high
<1> DEFINE m == Steps(s) + 1
           q == (k * m) \div n
           v == s.low + One * q
<1>1. /\ m \in Nat \ {0} /\ One \in Nat \ {0} /\ s.low \in Int /\ s.high \in Int
      /\ m = Steps(s) + 1 /\ Steps(s) \in Nat /\ s.high = s.low + Steps(s) * One
      /\ s.low < s.high /\ k \in Nat /\ s.low % One = 0 /\ s.high % One = 0
  BY BoundIs, StudyInputAssumption DEF Bound, ValidSpec
<1>2. from_unit(s, Point(k, n)) = Min({s.high, v})
  BY DEF from_unit, Point
<1>3. k * m \in Nat
  BY <1>1, Times
<1>4. q \in Nat
  BY <1>3, QuotientOf
<1>5. k = 0 => q = 0
  <2> SUFFICES ASSUME k = 0 PROVE q = 0
    OBVIOUS
  <2>1. k * m = 0 /\ 0 = 0 * n + 0
    BY <1>1
  <2>2. 0 \div n = 0
    BY <2>1, QuotientIs
  <2> QED
    BY <2>1, <2>2
<1>6. k = n => q = m
  <2> SUFFICES ASSUME k = n PROVE q = m
    OBVIOUS
  <2> QED
    BY <1>1, WholeOf
<1> HIDE DEF q, m
<1>7. One * q \in Nat /\ v \in Int
  <2>1. One * q \in Nat
    BY <1>1, <1>4
  <2> QED
    BY <1>1, <2>1
<1>8. v % One = 0
  <2>1. PICK a \in Int : s.low = a * One
    BY <1>1, MultipleOf
  <2>2. v = (a + q) * One /\ a + q \in Int
    BY <1>1, <1>4, <2>1, SMT
  <2> QED
    BY <1>1, <1>7, <2>2, MultipleOf
<1> HIDE DEF v
<1>9. Min({s.high, v}) = IF s.high <= v THEN s.high ELSE v
  BY <1>1, <1>7, SmallerOf
<1>10. s.low <= v
  BY <1>1, <1>7 DEF v
<1>11. k = 0 => v = s.low
  BY <1>1, <1>5 DEF v
<1>12. k = n => s.high <= v
  <2> SUFFICES ASSUME k = n PROVE s.high <= v
    OBVIOUS
  <2>1. One * q = Steps(s) * One + One /\ Steps(s) * One \in Nat
    BY <1>1, <1>6, SMT
  <2> QED
    BY <1>1, <2>1 DEF v
<1>13. /\ Min({s.high, v}) \in s.low .. s.high /\ Min({s.high, v}) % One = 0
       /\ k = 0 => Min({s.high, v}) = s.low
       /\ k = n => Min({s.high, v}) = s.high
  <2>1. CASE s.high <= v
    BY <1>1, <1>7, <1>9, <1>10, <1>11, <1>12, <2>1
  <2>2. CASE ~ (s.high <= v)
    BY <1>1, <1>7, <1>8, <1>9, <1>10, <1>11, <1>12, <2>2
  <2> QED
    BY <2>1, <2>2
<1> QED
  BY <1>2, <1>13

\* Any parameter at a point of the grid or at one of its ends.
LEMMA Within ==
  ASSUME NEW s \in Specs
  PROVE  /\ from_unit(s, Point(0, 1)) = s.low /\ from_unit(s, Point(1, 1)) = s.high
         /\ \A u \in Grid : /\ from_unit(s, u) \in s.low .. s.high
                            /\ s.scale = "int" => from_unit(s, u) % One = 0
<1>1. Bound(s) /\ s.scale \in {"linear", "log", "int"} /\ s.low \in Int /\ s.high \in Int
  BY SpecsAre DEF Bound, ValidSpec
<1>2. CASE s.scale = "int"
  <2>1. from_unit(s, Point(0, 1)) = s.low /\ from_unit(s, Point(1, 1)) = s.high
    BY <1>1, <1>2, IntegerWithin
  <2>2. \A k \in 0 .. 4 : /\ from_unit(s, Point(k, 4)) \in s.low .. s.high
                          /\ from_unit(s, Point(k, 4)) % One = 0
    BY <1>1, <1>2, IntegerWithin
  <2> QED
    BY <2>1, <2>2 DEF Grid
<1>3. CASE s.scale # "int"
  <2>1. ASSUME NEW n \in {1, 4}
        PROVE  /\ from_unit(s, Point(0, n)) = s.low /\ from_unit(s, Point(n, n)) = s.high
               /\ \A k \in 0 .. n : from_unit(s, Point(k, n)) \in Int
               /\ \A k \in 0 .. n - 1 :
                     from_unit(s, Point(k, n)) <= from_unit(s, Point(k + 1, n))
    <3>1. n \in Nat \ {0} /\ n \in {1, 4, 4 * (Steps(s) + 1)}
      OBVIOUS
    <3>2. CASE s.scale = "linear"
      BY <1>1, <3>1, <3>2, LinearAt
    <3>3. CASE s.scale = "log"
      BY <3>1, <3>3, LogAt
    <3> QED
      BY <1>1, <1>3, <3>2, <3>3
  <2> DEFINE at(k) == from_unit(s, Point(k, 4))
  <2>2. /\ at(0) = s.low /\ at(4) = s.high
        /\ at(0) \in Int /\ at(1) \in Int /\ at(2) \in Int /\ at(3) \in Int /\ at(4) \in Int
        /\ at(0) <= at(1) /\ at(1) <= at(2) /\ at(2) <= at(3) /\ at(3) <= at(4)
    <3>1. /\ \A k \in 0 .. 4 : at(k) \in Int
          /\ \A k \in 0 .. 3 : at(k) <= at(k + 1)
      BY <2>1
    <3>2. at(0) = s.low /\ at(4) = s.high
      BY <2>1
    <3> HIDE DEF at
    <3> QED
      BY <3>1, <3>2
  <2> HIDE DEF at
  <2>3. \A k \in 0 .. 4 : at(k) \in s.low .. s.high
    <3> SUFFICES ASSUME NEW k \in 0 .. 4 PROVE at(k) \in s.low .. s.high
      OBVIOUS
    <3>1. k = 0 \/ k = 1 \/ k = 2 \/ k = 3 \/ k = 4
      OBVIOUS
    <3> QED
      BY <1>1, <2>2, <3>1
  <2>4. from_unit(s, Point(0, 1)) = s.low /\ from_unit(s, Point(1, 1)) = s.high
    BY <2>1
  <2> QED
    BY <1>3, <2>3, <2>4 DEF Grid, at
<1> QED
  BY <1>2, <1>3

LEMMA BetweenIs ==
  ASSUME NEW alg \in Known, NEW name \in Fields[alg]
  PROVE  \A low, high \in -3 .. 9 :
            FromDict(alg, [n \in {name} |-> low]) /\ FromDict(alg, [n \in {name} |-> high])
            => \A v \in low .. high : FromDict(alg, [n \in {name} |-> v])
BY MCSearchAssumption, Zenon

\* What validate_bounds accepts at both ends of a parameter it accepts between
\* them, and what it says of a fail-stack holds of every candidate.
LEMMA CandidateIs ==
  ASSUME NEW data, NEW counts, validate_study_input(data, counts),
         \A name \in DOMAIN data.bounds :
            ValidSpec(data.bounds[name]) => data.bounds[name] \in Specs,
         NEW x \in [DOMAIN data.bounds -> Grid]
  PROVE  LET cand == decode(data.bounds, x)
             part == split_params(cand, data)
         IN  /\ \A name \in DOMAIN cand :
                   cand[name] \in data.bounds[name].low .. data.bounds[name].high
             /\ \A name \in DOMAIN part.overrides :
                   /\ FromDict(data.alg, [n \in {name} |-> cand[name]])
                   /\ name \in IntegerFields => cand[name] % One = 0
             /\ ~ data.failstack => part.failstack = [key \in {} |-> 0]
             /\ \A key \in DOMAIN part.failstack :
                   /\ part.failstack[key] >= (IF key = "failstack_limit" THEN One ELSE 0)
                   /\ key \in DOMAIN cand => part.failstack[key] = cand[key]
<1> DEFINE bounds == data.bounds
           D == DOMAIN bounds
           cand == decode(bounds, x)
           part == split_params(cand, data)
           searched == FAILSTACK_SEARCH_KEYS \cap (D \cup DOMAIN data.fixed)
<1>1. /\ data.alg \in Known /\ validate_fixed_params(data.fixed)
      /\ D \subseteq Allowed(data.alg, data.failstack)
      /\ \A name \in D : ValidRow(name, bounds[name]) /\ FailStackFloor(name, bounds[name])
      /\ BoundsHold(data.alg, bounds)
  BY DEF validate_study_input, validate_bounds
<1>2. DOMAIN cand = D /\ \A name \in D : cand[name] = from_unit(bounds[name], x[name])
  BY DEF decode
<1>3. \A name \in D : bounds[name] \in Specs /\ x[name] \in Grid
  BY <1>1 DEF ValidRow
<1>4. \A name \in D : /\ cand[name] \in bounds[name].low .. bounds[name].high
                      /\ bounds[name].scale = "int" => cand[name] % One = 0
  BY <1>2, <1>3, Within
<1> HIDE DEF cand
<1>5. DOMAIN part.overrides = D \ FAILSTACK_SEARCH_KEYS
  BY <1>2 DEF split_params, AlgorithmPart, Restrict
<1>6. ASSUME NEW name \in D \ FAILSTACK_SEARCH_KEYS
      PROVE  /\ FromDict(data.alg, [n \in {name} |-> cand[name]])
             /\ name \in IntegerFields => cand[name] % One = 0
  <2> DEFINE s == bounds[name]
             algo == AlgorithmPart(bounds)
  <2>1. s \in Specs /\ s.low \in -3 .. 9 /\ s.high \in -3 .. 9 /\ cand[name] \in s.low .. s.high
    BY <1>3, <1>4, SpecsAre
  <2>2. name \in Fields[data.alg]
    BY <1>1 DEF Allowed
  <2>3. name \in DOMAIN algo /\ algo[name] = s
    BY DEF AlgorithmPart, Restrict
  <2>4. \A end \in Ends : FromDict(data.alg, [n \in {name} |-> from_unit(s, end)])
    BY <1>1, <2>3 DEF BoundsHold
  <2>5. /\ FromDict(data.alg, [n \in {name} |-> s.low])
        /\ FromDict(data.alg, [n \in {name} |-> s.high])
    <3>1. Point(0, 1) \in Ends /\ Point(1, 1) \in Ends
      BY DEF Ends
    <3>2. from_unit(s, Point(0, 1)) = s.low /\ from_unit(s, Point(1, 1)) = s.high
      BY <2>1, Within
    <3> HIDE DEF s
    <3> QED
      BY <2>4, <3>1, <3>2
  <2>6. FromDict(data.alg, [n \in {name} |-> cand[name]])
    <3> DEFINE F(w) == FromDict(data.alg, [n \in {name} |-> w])
    <3>1. \A low, high \in -3 .. 9 : F(low) /\ F(high) => \A w \in low .. high : F(w)
      BY <1>1, <2>2, BetweenIs, Zenon
    <3>2. F(s.low) /\ F(s.high)
      BY <2>5
    <3> HIDE DEF F, s
    <3>3. F(cand[name])
      BY <2>1, <3>1, <3>2
    <3> QED
      BY <3>3 DEF F
  <2>7. name \in IntegerFields => s.scale = "int"
    BY <1>1 DEF ValidRow, Integral
  <2> QED
    BY <1>4, <2>6, <2>7
<1>7. /\ ~ data.failstack => part.failstack = [key \in {} |-> 0]
      /\ data.failstack =>
           part.failstack = [key \in searched |->
                               IF key \in D THEN cand[key] ELSE data.fixed[key]]
  BY <1>2 DEF split_params
<1>8. ASSUME NEW key \in DOMAIN part.failstack
      PROVE  /\ part.failstack[key] >= (IF key = "failstack_limit" THEN One ELSE 0)
             /\ key \in D => part.failstack[key] = cand[key]
  <2>1. data.failstack
    BY <1>7
  <2>2. key \in searched /\ part.failstack[key] = IF key \in D THEN cand[key] ELSE data.fixed[key]
    BY <1>7, <2>1
  <2>3. CASE key \in D
    <3>1. /\ bounds[key].low >= (IF key = "failstack_limit" THEN One ELSE 0)
          /\ bounds[key].low \in Int /\ cand[key] \in Int /\ cand[key] >= bounds[key].low
      <4>1. bounds[key].low >= (IF key = "failstack_limit" THEN One ELSE 0)
        BY <1>1, <2>2, <2>3 DEF FailStackFloor, FAILSTACK_SEARCH_KEYS
      <4>2. bounds[key].low \in Int /\ bounds[key].high \in Int
            /\ cand[key] \in bounds[key].low .. bounds[key].high
        BY <1>3, <1>4, <2>3, SpecsAre
      <4> QED
        BY <4>1, <4>2
    <3>2. One \in Int
      BY StudyInputAssumption
    <3> QED
      BY <2>2, <2>3, <3>1, <3>2
  <2>4. CASE key \notin D
    BY <1>1, <2>2, <2>4 DEF validate_fixed_params, FAILSTACK_SEARCH_KEYS
  <2> QED
    BY <2>3, <2>4
<1> QED
  BY <1>2, <1>4, <1>5, <1>6, <1>7, <1>8 DEF cand

-----------------------------------------------------------------------------
(* Seeds.                                                                  *)

LEMMA SequenceIs ==
  ASSUME NEW n \in Nat, NEW f, DOMAIN f = 1 .. n, f = [i \in 1 .. n |-> f[i]]
  PROVE  Len(f) = n
<1>1. f \in [1 .. n -> {f[i] : i \in 1 .. n}]
  OBVIOUS
<1> DEFINE S == {f[i] : i \in 1 .. n}
<1> HIDE DEF S
<1>2. f \in Seq(S)
  BY <1>1 DEF S
<1> QED
  BY <1>2

\* As many seeds as are written, if no two are the same.
LEMMA DifferentSeeds ==
  ASSUME NEW n \in Nat, NEW f, DOMAIN f = 1 .. n, f = [i \in 1 .. n |-> f[i]], IsInjective(f)
  PROVE  IsFiniteSet(Range(f)) /\ Cardinality(Range(f)) = n /\ Len(f) = n
<1>1. f \in [1 .. n -> Range(f)]
  BY DEF Range
<1>2. f \in Bijection(1 .. n, Range(f))
  BY <1>1 DEF Bijection, Injection, Surjection, Range
<1>3. ExistsBijection(1 .. n, Range(f))
  BY <1>2 DEF ExistsBijection
<1> DEFINE a == 1
<1>4. a \in Int /\ n \in Int /\ a = 1 /\ (IF a > n THEN 0 ELSE n - a + 1) = n
  OBVIOUS
<1> HIDE DEF a
<1>5. IsFiniteSet(a .. n) /\ Cardinality(a .. n) = n
  BY <1>4, FS_Interval
<1>6. IsFiniteSet(1 .. n) /\ Cardinality(1 .. n) = n
  BY <1>4, <1>5
<1>7. IsFiniteSet(Range(f)) /\ Cardinality(Range(f)) = n
  BY <1>3, <1>6, FS_Bijection, Zenon
<1> QED
  BY <1>7, SequenceIs

LEMMA SeedsApart ==
  ASSUME NEW m \in Nat, NEW f, DOMAIN f = 1 .. m, f = [i \in 1 .. m |-> f[i]], IsInjective(f),
         NEW n \in Nat, NEW g, DOMAIN g = 1 .. n, g = [i \in 1 .. n |-> g[i]], IsInjective(g),
         Range(f) \cap Range(g) = {}
  PROVE  Cardinality(Range(f) \cup Range(g)) = Len(f) + Len(g)
<1>1. IsFiniteSet(Range(f)) /\ Cardinality(Range(f)) = m /\ Len(f) = m
  BY DifferentSeeds
<1>2. IsFiniteSet(Range(g)) /\ Cardinality(Range(g)) = n /\ Len(g) = n
  BY DifferentSeeds
<1>3. Cardinality(Range(f) \cup Range(g))
        = Cardinality(Range(f)) + Cardinality(Range(g)) - Cardinality(Range(f) \cap Range(g))
  BY <1>1, <1>2, FS_Union
<1>4. Cardinality(Range(f) \cap Range(g)) = 0
  BY FS_EmptySet
<1> QED
  BY <1>1, <1>2, <1>3, <1>4

\* Several texts may spell one seed; the form looks at what they spell.
LEMMA ParsedSeeds ==
  ASSUME NEW texts \in Texts, parse_seed_list(texts) # Invalid
  PROVE  LET seeds == parse_seed_list(texts) IN
         \E n \in Nat : DOMAIN seeds = 1 .. n /\ seeds = [i \in 1 .. n |-> seeds[i]]
                        /\ IsInjective(seeds)
<1> DEFINE seeds == [i \in DOMAIN texts |-> SeedOf[texts[i]]]
<1>1. PICK n \in 0 .. 2 : texts \in [1 .. n -> {"1", "01", "2", "9", "x"}]
  BY DEF Texts
<1>2. n \in Nat /\ DOMAIN texts = 1 .. n
  BY <1>1
<1>3. parse_seed_list(texts) = seeds /\ IsInjective(seeds)
  BY DEF parse_seed_list
<1>4. DOMAIN seeds = 1 .. n /\ seeds = [i \in 1 .. n |-> seeds[i]]
  BY <1>2
<1> QED
  BY <1>2, <1>3, <1>4

-----------------------------------------------------------------------------
(* What is submitted.                                                      *)

LEMMA RowBecomes ==
  ASSUME NEW b \in SomeBounds
  PROVE  \A name \in DOMAIN b :
            LET s == parse_bound_entry(name, b[name]) IN ValidSpec(s) => s \in Specs
<1>1. \A name \in DOMAIN b : b[name] \in Rows
  <2>1. SomeRows \subseteq Rows
    BY DEF SomeRows
  <2>2. {[low |-> 2, high |-> 6, scale |-> Absent],
         [low |-> -2, high |-> 6, scale |-> Absent]} \subseteq Rows
    BY DEF Rows
  <2>3. CASE b \in UNION {[{name} -> Rows] :
                            name \in {"gamma", "rollout_length", "markup", "failstack_limit"}}
    BY <2>3
  <2>4. CASE b \in [{"rollout_length", "minibatch_size"} -> SomeRows]
    BY <2>1, <2>4
  <2>5. CASE b \in [{"rollout_length", "failstack_limit", "failstack_delta"} ->
                      {[low |-> 2, high |-> 6, scale |-> Absent],
                       [low |-> -2, high |-> 6, scale |-> Absent]}]
    BY <2>2, <2>5
  <2> QED
    BY <2>3, <2>4, <2>5, Zenon DEF SomeBounds
<1>2. ASSUME NEW name, NEW row \in Rows, ValidSpec(parse_bound_entry(name, row))
      PROVE  parse_bound_entry(name, row) \in Specs
  <2> DEFINE scale == IF row.scale # Absent THEN row.scale
                      ELSE IF name \in Integral THEN "int" ELSE "linear"
  <2>1. row = [low |-> row.low, high |-> row.high, scale |-> row.scale]
        /\ row.low \in -3 .. 6 /\ row.high \in -3 .. 9
    BY DEF Rows
  <2>2. parse_bound_entry(name, row) = [low |-> row.low, high |-> row.high, scale |-> scale]
    BY <2>1 DEF parse_bound_entry
  <2>3. scale \in {"linear", "log", "int"}
    BY <1>2, <2>2 DEF ValidSpec
  <2> HIDE DEF scale
  <2>4. parse_bound_entry(name, row) \in [low : -3 .. 6, high : -3 .. 9,
                                          scale : {"linear", "log", "int"}]
    BY <2>1, <2>2, <2>3
  <2> QED
    BY <1>2, <2>4 DEF Specs
<1> QED
  BY <1>1, <1>2

LEMMA FormInput ==
  ASSUME NEW form \in Forms
  PROVE  form.bounds \in SomeBounds \cup {OneRow}
         /\ form.search \in Texts /\ form.evaluation \in Texts
<1>1. <<"1">> \in Texts /\ <<"2">> \in Texts
  BY DEF Texts
<1>2. CASE form \in SearchForms
  BY <1>1, <1>2 DEF SearchForms, Form
<1>3. CASE form \in SeedForms
  BY <1>3 DEF SeedForms, Form
<1> QED
  BY <1>2, <1>3 DEF Forms

\* A study from the form.
LEMMA FormStudy ==
  ASSUME NEW form \in Forms, NEW counts,
         FormAccepts(form, counts), validate_study_input(to_service_input(form), counts)
  PROVE  LET data == to_service_input(form) IN
         /\ \A name \in DOMAIN data.bounds :
              ValidSpec(data.bounds[name]) => data.bounds[name] \in Specs
         /\ Cardinality(Range(data.search) \cup Range(data.evaluation))
              = Len(data.search) + Len(data.evaluation)
         /\ DOMAIN data.fixed \cap DOMAIN data.bounds = {}
<1> DEFINE data == to_service_input(form)
<1>1. form.bounds \in SomeBounds \cup {OneRow} /\ form.search \in Texts /\ form.evaluation \in Texts
  BY FormInput
<1>2. /\ data.bounds = clean_bounds(form)
      /\ data.search = parse_seed_list(form.search)
      /\ data.evaluation = parse_seed_list(form.evaluation)
      /\ DOMAIN data.fixed \cap DOMAIN form.bounds = {}
  BY DEF to_service_input
<1>3. DOMAIN data.bounds = DOMAIN form.bounds
      /\ \A name \in DOMAIN form.bounds :
            data.bounds[name] = parse_bound_entry(name, form.bounds[name])
  BY <1>2 DEF clean_bounds
<1>4. \A name \in DOMAIN data.bounds :
         ValidSpec(data.bounds[name]) => data.bounds[name] \in Specs
  <2>1. CASE form.bounds \in SomeBounds
    <3> HIDE DEF data
    <3> QED
      BY <1>3, <2>1, RowBecomes
  <2>2. CASE form.bounds = OneRow
    <3> DEFINE row == [low |-> 4, high |-> 6, scale |-> "int"]
    <3>1. "int" # Absent => parse_bound_entry("rollout_length", row) = row
      BY DEF parse_bound_entry
    <3>2. "int" = Absent => \E scale \in {"int", "linear"} :
              parse_bound_entry("rollout_length", row) = [low |-> 4, high |-> 6, scale |-> scale]
      BY DEF parse_bound_entry
    <3>3. PICK scale \in {"int", "linear"} :
              parse_bound_entry("rollout_length", row) = [low |-> 4, high |-> 6, scale |-> scale]
      BY <3>1, <3>2
    <3>4. parse_bound_entry("rollout_length", row)
             \in [low : -3 .. 6, high : -3 .. 9, scale : {"linear", "log", "int"}]
      BY <3>3
    <3>5. DOMAIN form.bounds = {"rollout_length"} /\ form.bounds["rollout_length"] = row
      BY <2>2 DEF OneRow
    <3> HIDE DEF row, data
    <3> QED
      BY <1>3, <3>4, <3>5 DEF Specs
  <2> QED
    BY <1>1, <2>1, <2>2
<1>5. /\ data.search # Invalid /\ data.evaluation # Invalid
      /\ Range(data.search) \cap Range(data.evaluation) = {}
  BY DEF validate_study_input, ValidSeeds
<1>6. Cardinality(Range(data.search) \cup Range(data.evaluation))
        = Len(data.search) + Len(data.evaluation)
  <2> DEFINE f == data.search
             g == data.evaluation
  <2>1. PICK m \in Nat : DOMAIN f = 1 .. m /\ f = [i \in 1 .. m |-> f[i]] /\ IsInjective(f)
    BY <1>1, <1>2, <1>5, ParsedSeeds
  <2>2. PICK n \in Nat : DOMAIN g = 1 .. n /\ g = [i \in 1 .. n |-> g[i]] /\ IsInjective(g)
    BY <1>1, <1>2, <1>5, ParsedSeeds
  <2>3. Range(f) \cap Range(g) = {}
    BY <1>5
  <2> HIDE DEF f, g, data
  <2>4. Cardinality(Range(f) \cup Range(g)) = Len(f) + Len(g)
    BY <2>1, <2>2, <2>3, SeedsApart
  <2> QED
    BY <2>4 DEF f, g
<1> QED
  BY <1>2, <1>3, <1>4, <1>6

\* A study from a file.
LEMMA CommandStudy ==
  ASSUME NEW data \in Commands, NEW counts, validate_study_input(data, counts)
  PROVE  /\ \A name \in DOMAIN data.bounds :
              ValidSpec(data.bounds[name]) => data.bounds[name] \in Specs
         /\ Cardinality(Range(data.search) \cup Range(data.evaluation))
              = Len(data.search) + Len(data.evaluation)
<1>1. PICK b \in SomeBounds, e \in {<<2>>, <<3>>} :
         /\ data.bounds = [name \in DOMAIN b |-> parse_bound_entry(name, b[name])]
         /\ data.search = <<1, 2>> /\ data.evaluation = e
  <2>1. PICK alg \in {"PPO", "RANDOM"}, target \in {"ALL", "MATCHING"}, fs \in BOOLEAN,
             fixed \in {[key \in {"failstack_limit"} |-> 4], [key \in {} |-> 0]},
             b \in SomeBounds, e \in {<<2>>, <<3>>} :
           data = [alg |-> alg, target |-> target, failstack |-> fs, fixed |-> fixed,
                   bounds |-> [name \in DOMAIN b |-> parse_bound_entry(name, b[name])],
                   search |-> <<1, 2>>, evaluation |-> e]
    BY DEF Commands
  <2> QED
    BY <2>1
<1>2. DOMAIN data.bounds = DOMAIN b
      /\ \A name \in DOMAIN b : data.bounds[name] = parse_bound_entry(name, b[name])
  BY <1>1
<1>3. \A name \in DOMAIN data.bounds :
         ValidSpec(data.bounds[name]) => data.bounds[name] \in Specs
  BY <1>2, RowBecomes
<1>4. Range(data.search) \cap Range(data.evaluation) = {}
  BY DEF validate_study_input, ValidSeeds
<1>5. /\ Range(<<1, 2>>) = {1, 2} /\ Len(data.evaluation) = 1
      /\ \E v \in {2, 3} : Range(data.evaluation) = {v}
  BY <1>1 DEF Range
<1>6. Range(data.evaluation) = {3}
  BY <1>1, <1>4, <1>5
<1>7. Range(data.search) \cup Range(data.evaluation) = {1, 2, 3}
  BY <1>1, <1>5, <1>6
<1>8. Cardinality({1, 2, 3}) = 3
  <2>1. IsFiniteSet({1}) /\ Cardinality({1}) = 1
    BY FS_Singleton
  <2>2. IsFiniteSet({1} \cup {2}) /\ Cardinality({1} \cup {2}) = 2
    BY <2>1, FS_AddElement
  <2>3. Cardinality(({1} \cup {2}) \cup {3}) = 3
    BY <2>2, FS_AddElement
  <2>4. ({1} \cup {2}) \cup {3} = {1, 2, 3}
    OBVIOUS
  <2> QED
    BY <2>3, <2>4
<1>9. Len(data.search) + Len(data.evaluation) = 3
  BY <1>1, <1>5
<1> QED
  BY <1>3, <1>7, <1>8, <1>9

LEMMA WellPosedIs ==
  ASSUME NEW data, NEW counts, validate_study_input(data, counts),
         \A name \in DOMAIN data.bounds :
            ValidSpec(data.bounds[name]) => data.bounds[name] \in Specs,
         Cardinality(Range(data.search) \cup Range(data.evaluation))
            = Len(data.search) + Len(data.evaluation)
  PROVE  WellPosed(data)
BY CandidateIs DEF WellPosed

LEMMA SearchHolds == InputKnown => SearchIsWellPosed
<1> SUFFICES ASSUME InputKnown PROVE SpaceIsExact /\ StudyIsWellPosed
  BY DEF SearchIsWellPosed
<1>1. SpaceIsExact
  <2> SUFFICES ASSUME input.kind = "spec" PROVE SpaceIsExact
    BY DEF SpaceIsExact
  <2>1. input \in [kind : {"spec"}, spec : Specs]
    BY DEF InputKnown, Inputs, TunedInput
  <2>2. input.spec \in Specs
    BY <2>1
  <2> QED
    BY <2>2, SpaceHolds DEF SpaceIsExact
<1>2. ASSUME input.kind = "form",
             FormAccepts(input.form, input.counts),
             validate_study_input(to_service_input(input.form), input.counts)
      PROVE  LET data == to_service_input(input.form) IN
             WellPosed(data) /\ DOMAIN data.fixed \cap DOMAIN data.bounds = {}
  <2>1. input \in [kind : {"form"}, form : Forms, counts : {{"PPO"}, {"RANDOM"}}]
    BY <1>2 DEF InputKnown, Inputs, TunedInput
  <2>2. input.form \in Forms
    BY <2>1
  <2> QED
    BY <1>2, <2>2, FormStudy, WellPosedIs
<1>3. ASSUME input.kind = "command", validate_study_input(input.data, input.counts)
      PROVE  WellPosed(input.data)
  <2>1. input \in [kind : {"command"}, data : Commands, counts : {{"PPO"}}]
    BY <1>3 DEF InputKnown, Inputs, TunedInput
  <2>2. input.data \in Commands
    BY <2>1
  <2> QED
    BY <1>3, <2>2, CommandStudy, WellPosedIs
<1>4. StudyIsWellPosed
  BY <1>2, <1>3 DEF StudyIsWellPosed
<1> QED
  BY <1>1, <1>4

\* Whatever the unit, the algorithms, their defaults and what their config classes
\* accept: the unit interval covers a searched parameter exactly, and a study that
\* was accepted has different seeds and only candidates whose values are accepted on
\* their own (ParamSpec.from_unit, HPOStudyForm.clean, validate_study_input).
THEOREM SearchIsRight == MCSpec => []SearchIsWellPosed
  BY InputsStay, SearchHolds, PTL
=============================================================================
