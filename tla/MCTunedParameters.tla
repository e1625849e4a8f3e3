------------------------- MODULE MCTunedParameters -------------------------
(***************************************************************************)
(* Two algorithms of two parameters; the config class of one of them       *)
(* refuses the second learning rate with the first batch size.  As inputs  *)
(* of behaviours of their own: what may be searched (StudyInput), the       *)
(* learning start of scenarios of up to two agents (LearningStart), and    *)
(* the forms of a config class with a parameter of each kind (ParamForm).  *)
(***************************************************************************)
EXTENDS TunedParameters, StudyInput, LearningStart, ParamForm,
        Integers, Sequences, FiniteSetsExt, Functions, TLC

VARIABLE input

MCPublished == [alg \in Algorithms |-> [k \in Keys |-> 1]]
MCValid == [alg \in Algorithms |->
              IF alg = "PPO" THEN Configs \ {[lr |-> 2, batch |-> 1]} ELSE Configs]
MCOwn == {[x \in {"batch"} |-> 2]}
MCFold == [n \in Names |-> n]
MCFoldCase == [n \in Names |-> "a"]  \* names that differ in case only

-----------------------------------------------------------------------------
(* Studies.  PPO has a rollout that its minibatches must fit into.         *)

MCFields == [PPO |-> {"gamma", "rollout_length", "minibatch_size"},
             MARKUP |-> {"markup"}, RANDOM |-> {"gamma"}]
MCDefaults == [PPO |-> [gamma |-> 1, rollout_length |-> 6, minibatch_size |-> 4],
               MARKUP |-> [markup |-> 0], RANDOM |-> [gamma |-> 1]]
MCValidFields(alg, c) ==
    CASE alg = "PPO"    -> /\ c.gamma > 0 /\ c.gamma < One
                           /\ c.minibatch_size >= One /\ c.rollout_length >= c.minibatch_size
      [] alg = "MARKUP" -> c.markup > -One
      [] alg = "RANDOM" -> c.gamma > 0 /\ c.gamma < One
MCLogCurve(s, u) == s.low + (u.num * u.num * (s.high - s.low)) \div (u.den * u.den)
MCSeedOf == ("1" :> 1) @@ ("01" :> 1) @@ ("2" :> 2) @@ ("9" :> 9) @@ ("x" :> NotASeed)

Specs ==
    {s \in [low : -3 .. 6, high : -3 .. 9, scale : {"linear", "log", "int"}] : ValidSpec(s)}

Rows == [low : {-2, 1, 2, 3, 4}, high : {1, 2, 4, 6, 8}, scale : {Absent, "linear", "log", "int"}]
SomeRows == {r \in Rows : r.low < r.high /\ r.scale = Absent}
SomeBounds ==
    (UNION {[{name} -> Rows] :
              name \in {"gamma", "rollout_length", "markup", "failstack_limit"}})
    \cup [{"rollout_length", "minibatch_size"} -> SomeRows]
    \cup [{"rollout_length", "failstack_limit", "failstack_delta"} ->
             {[low |-> 2, high |-> 6, scale |-> Absent],
              [low |-> -2, high |-> 6, scale |-> Absent]}]

OneRow == [name \in {"rollout_length"} |-> [low |-> 4, high |-> 6, scale |-> "int"]]
Texts == UNION {[1 .. n -> {"1", "01", "2", "9", "x"}] : n \in 0 .. 2}

Form(alg, failstack, limit, bounds, search, evaluation, target) ==
    [alg |-> alg, failstack |-> failstack, limit |-> limit, delta |-> 1, bounds |-> bounds,
     search |-> search, evaluation |-> evaluation, target |-> target]
SearchForms ==
    {Form(alg, fs, limit, b, <<"1">>, <<"2">>, "ALL") : alg \in {"PPO", "MARKUP", "RANDOM"},
        fs \in BOOLEAN, limit \in {Absent, 1, 4}, b \in SomeBounds}
SeedForms ==
    {Form("PPO", FALSE, Absent, OneRow, s, e, target) :
        s \in Texts, e \in Texts, target \in {"ALL", "MATCHING"}}
Forms == SearchForms \cup SeedForms

(* run_hpo is given a file with numbers; it may fix what it searches.      *)
Commands ==
    {[alg |-> alg, target |-> target, failstack |-> fs, fixed |-> fixed,
      bounds |-> [name \in DOMAIN b |-> parse_bound_entry(name, b[name])],
      search |-> <<1, 2>>, evaluation |-> e] :
        alg \in {"PPO", "RANDOM"}, target \in {"ALL", "MATCHING"}, fs \in BOOLEAN,
        fixed \in {[key \in {"failstack_limit"} |-> 4], [key \in {} |-> 0]},
        b \in SomeBounds, e \in {<<2>>, <<3>>}}

\* A logarithmic curve meets both bounds and never falls, and a config class that
\* accepts two values of a field accepts what is between them.
ASSUME MCSearchAssumption ==
    /\ \A s \in Specs : s.scale = "log" =>
          \A n \in {1, 4, 4 * (Steps(s) + 1)} :
             /\ LogCurve(s, Point(0, n)) = s.low /\ LogCurve(s, Point(n, n)) = s.high
             /\ \A k \in 0 .. n : LogCurve(s, Point(k, n)) \in Int
             /\ \A k \in 0 .. n - 1 : LogCurve(s, Point(k, n)) <= LogCurve(s, Point(k + 1, n))
    /\ \A alg \in Known : \A name \in Fields[alg] : \A low, high \in -3 .. 9 :
          /\ FromDict(alg, [n \in {name} |-> low]) /\ FromDict(alg, [n \in {name} |-> high])
          => \A v \in low .. high : FromDict(alg, [n \in {name} |-> v])

-----------------------------------------------------------------------------
(* Learning starts.                                                        *)

MCWindow == [RDPG |-> "seq_len", PPO |-> "rollout_length"]
MCClass ==
    LET common == [batch_size |-> 2, buffer_size |-> 5, learning_starts |-> 2] IN
    [SAC |-> common, RDPG |-> [seq_len |-> 3] @@ common, PPO |-> [rollout_length |-> 4] @@ common]

ParamSets ==
    {[key \in {} |-> 0]} \cup [{"batch_size"} -> {3}] \cup [{"buffer_size"} -> {2}]
    \cup [{"learning_starts"} -> {1, 4, 6}] \cup [{"rollout_length"} -> {6}]
Stored == [alg : {"SAC", "PPO"}, params : ParamSets]
Entries ==
    [alg : {"SAC", "RDPG", "PPO", "RANDOM"}, stored : {NoStored}, params : ParamSets]
    \cup [alg : {"SAC", "RDPG", "PPO"}, stored : Stored, params : {[key \in {} |-> 0]}]
NewEntries == {e \in Entries : e.stored = NoStored}
DefaultRows ==
    {[alg \in {"SAC", "RDPG", "PPO", "RANDOM"} |->
        IF alg = "SAC" THEN sac ELSE [key \in {} |-> 0]] : sac \in ParamSets}

\* What stands for refused parameters is not the configs of some learners.
ASSUME MCStartAssumption ==
    \A positions \in SUBSET (1 .. 2) :
        Rejected \notin [positions -> UNION {[DOMAIN Class[alg] -> Int] : alg \in Learners}]

-----------------------------------------------------------------------------
(* Parameter forms.  A stored row may be what an earlier version of the    *)
(* config class accepted; a dialog sends all fields, a request any of them.*)

MCKinds == [size |-> "int", rate |-> "float", cap |-> "optional_float", flag |-> "bool",
            widths |-> "int_list"]
MCPublishedValues == [size |-> <<"num", 4>>, rate |-> <<"num", 1>>, cap |-> None,
                      flag |-> <<"bool", FALSE>>, widths |-> <<"list", <<4>> >>]
MCClassAccepts(config) ==
    /\ config.rate[2] \in 1 .. config.size[2]
    /\ config.cap # None => config.cap[2] > 0
    /\ \A i \in DOMAIN config.widths[2] : config.widths[2][i] >= Unit
    /\ config.widths[2] # <<>>

Contents == {None, <<"bool", TRUE>>, <<"list", <<>> >>, <<"list", <<2>> >>, <<"list", <<4, 1>> >>,
             <<"list", <<2, 6>> >>, <<"junk">>}
            \cup {<<"num", n>> : n \in {-2, 1, 2, 4, 5}}
Raws == {"text", "json"} \X Contents
Stored1 == UNION {[{f} -> Contents] : f \in {"size", "rate", "cap", "flag", "widths", "old"}}
Stored2 == [size : {<<"num", 4>>, <<"num", 2>>}, rate : {<<"num", 1>>, <<"num", 2>>, <<"num", 4>>}]
RowsOf(params) == {NoDefault} \cup [params : params, origin : {"CUSTOM", "OPTIMIZED"}]
Bodies == (UNION {[{f} -> Raws] : f \in {"size", "rate", "cap", "flag", "widths", "old"}})
          \cup [{"size", "rate"} -> {"text", "json"} \X {<<"num", n>> : n \in {1, 2, 4, 5}}]

Inputs ==
    [kind : {"param"}, row : RowsOf(Stored1 \cup Stored2), raw : Bodies]
    \cup [kind : {"spec"}, spec : Specs]
    \cup [kind : {"form"}, form : Forms, counts : {{"PPO"}, {"RANDOM"}}]
    \cup [kind : {"command"}, data : Commands, counts : {{"PPO"}}]
    \cup [kind : {"start"}, entries : {<<e>> : e \in Entries} \cup (NewEntries \X Entries),
          defaults : DefaultRows, explicit : {Automatic, 0, 3, 6}]

TunedInput == [kind |-> "tuned"]
SomeAgents == [a \in Agents |-> [name |-> IF a = 1 THEN "a" ELSE "b", alg |-> "SAC",
                                params |-> NoParams, fs |-> "off"]]

MCInit == \/ Init /\ input = TunedInput
          \/ /\ input \in Inputs
             /\ default = [alg \in Algorithms |-> NoRow] /\ agent = SomeAgents
             /\ study = NoStudy /\ trial = NoRow /\ won = NoRow /\ edits = 0 /\ studies = 0
MCNext == input = TunedInput /\ Next /\ input' = input
MCSpec == MCInit /\ [][MCNext]_<<vars, input>>

-----------------------------------------------------------------------------
Grid == {Point(k, 4) : k \in 0 .. 4}

\* The unit interval covers a parameter: its ends are the bounds, a higher point
\* is never a lower value, and every value of an integer parameter is reached, is
\* found again from its own point and has the same share (ParamSpec.from_unit,
\* to_unit).
SpaceIsExact ==
    input.kind = "spec" =>
    LET s == input.spec
        n == 4 * (Steps(s) + 1)
        at(k) == from_unit(s, Point(k, n))
    IN  /\ at(0) = s.low /\ at(n) = s.high
        /\ \A k \in 0 .. n - 1 : at(k) <= at(k + 1)
        /\ s.scale = "int" =>
              \A value \in {s.low + One * i : i \in 0 .. Steps(s)} :
                 /\ from_unit(s, to_unit(s, value)) = value
                 /\ Cardinality({k \in 0 .. n - 1 : at(k) = value}) = 4

\* A study as it is stored, and any candidate of it.
WellPosed(data) ==
    /\ Cardinality(Range(data.search) \cup Range(data.evaluation))
           = Len(data.search) + Len(data.evaluation)
    /\ \A x \in [DOMAIN data.bounds -> Grid] :
          LET cand == decode(data.bounds, x)
              part == split_params(cand, data)
          IN  /\ \A name \in DOMAIN cand :
                    cand[name] \in data.bounds[name].low .. data.bounds[name].high
              /\ \A name \in DOMAIN part.overrides :
                    /\ FromDict(data.alg, [n \in {name} |-> cand[name]])
                    /\ name \in IntegerFields => cand[name] % One = 0
              /\ ~ data.failstack => part.failstack = [key \in {} |-> 0]
              /\ \A key \in DOMAIN part.failstack :
                    /\ part.failstack[key] >= (IF key = "failstack_limit" THEN One ELSE 0)
                    /\ key \in DOMAIN cand => part.failstack[key] = cand[key]

\* What a study that was accepted, from the form or from a file, lets its trials
\* do: its seeds are different ones however they were written, and no seed that
\* chose the winner evaluates it; every value of a candidate has the type of its
\* parameter and is accepted on its own, so that a candidate can only fail through
\* two searched parameters that do not go together; the fail-stack of the tuned
\* agents is valid, and from the form each of its settings has one source
\* (HPOStudyForm.clean, to_service_input, validate_study_input, split_params).
StudyIsWellPosed ==
    /\ input.kind = "form" =>
          LET data == to_service_input(input.form) IN
          FormAccepts(input.form, input.counts) /\ validate_study_input(data, input.counts) =>
             WellPosed(data) /\ DOMAIN data.fixed \cap DOMAIN data.bounds = {}
    /\ input.kind = "command" =>
          (validate_study_input(input.data, input.counts) => WellPosed(input.data))

\* Every point the search may visit is a trial that the study allows.
SearchIsWellPosed == SpaceIsExact /\ StudyIsWellPosed

\* The common learning start is the same wherever it is worked out. A run of what
\* was saved is built if and only if the check at the save passed and no agent's
\* own parameters are refused; it then starts all learners at that start, which
\* each of them can reach, and the analysis shows it. The range the wizard shows is
\* exactly what is accepted, an automatic start makes some learner wait for
\* nothing and none start early, and the preview differs from what is saved only
\* if the algorithm of a stored agent was changed (learning_start_preview,
\* _check_learning_start, SimulationContext.build, _effective_learning_starts).
StartIsCommon ==
    input.kind = "start" /\ ValidStart(input.explicit) =>
    LET entries == input.entries
        agents  == [i \in DOMAIN entries |-> SavedEntry(entries[i])]
        refused == \E l \in Range(Described(agents, input.defaults)) : l.config = Rejected
        saved   == CheckSaved(input.explicit, entries, input.defaults)
        built   == BuildLearners(input.explicit, agents, input.defaults)
        switched == \E i \in DOMAIN entries :
                       entries[i].stored # NoStored /\ entries[i].stored.alg # entries[i].alg
    IN  /\ refused => built = Rejected
        /\ ~ refused => (built = Rejected) = (saved = Rejected)
        /\ ~ switched => saved = learning_start_preview(input.explicit, entries, input.defaults)
        /\ ~ refused /\ saved \notin {Rejected, NoLearner} =>
             LET learners == Described(agents, input.defaults) IN
             /\ Shown(built) = saved.value
             /\ \A i \in DOMAIN built :
                   /\ built[i].learning_starts = saved.value
                   /\ min_learning_starts(learners[i].alg, built[i]) <= saved.value
                   /\ learners[i].alg \in OffPolicy => saved.value <= built[i].buffer_size
             /\ \A start \in 1 .. 7 :
                   (CheckSaved(start, entries, input.defaults) # Rejected)
                       = (start >= saved.minimum /\ \A l \in saved.limit : start <= l)
             /\ saved.automatic =>
                   saved.value = Max({learners[i].config.learning_starts : i \in DOMAIN learners})

\* What the Algorithms page shows of a default is what is stored: values that were
\* accepted are shown again, and are what a config is built from; a row is stored
\* exactly while some value is not the published one; and saving the dialog as it
\* was opened changes neither the row nor its origin, except that a row of
\* published values only, or one that is no longer accepted, is dropped
\* (param_form, save_defaults, displayValue, collectValues).
FormKeepsRow ==
    input.kind = "param" =>
    LET row   == input.row
        saved == save_defaults(row, input.raw)
        again == save_defaults(row, collectValues(param_form(row).values))
    IN  /\ again = IF param_form(row).values = PublishedValues THEN NoDefault ELSE row
        /\ saved # Wrong =>
             LET form == param_form(saved) IN
             /\ ~ form.stored_error
             /\ (saved = NoDefault) = (form.values = PublishedValues)
             /\ form.values = FromParams(Base(saved))
             /\ \A f \in FormFields :
                   form.values[f] = IF f \in DOMAIN input.raw
                                    THEN parse_form_value(FieldKinds[f], input.raw[f])
                                    ELSE PublishedValues[f]
             /\ (saved = row /\ row # NoDefault) =
                   (row # NoDefault /\ param_form(row) = form /\ saved # NoDefault)

\* Clearing overrides that a scenario was saved with make a run of it use them,
\* and the stored default wherever there is none, as long as the default stays; only
\* if that has a parameter the config class no longer knows is the run refused. The
\* wizard sends them back unchanged, but refuses those with an explicit "none"
\* (validate_scenario_clearing_params, market_clearing_params, readClearingParams).
OverridesCount ==
    input.kind = "param" =>
    LET checked == validate_scenario_clearing_params(input.raw, input.row)
        config  == ClearingConfig(input.row, checked)
    IN  checked # Wrong =>
        /\ (config = Wrong) = (DOMAIN Base(input.row) \ FormFields # {})
        /\ config # Wrong => \A f \in FormFields :
              config[f] = CASE f \in DOMAIN checked -> checked[f]
                            [] f \in DOMAIN Base(input.row) \ DOMAIN checked -> Base(input.row)[f]
                            [] OTHER -> PublishedValues[f]
        /\ validate_scenario_clearing_params(readClearingParams(checked), input.row) =
              IF \E f \in DOMAIN checked : checked[f] = None THEN Wrong ELSE checked

\* What was typed into a form is stored, shown again, and used by a run.
FormsAreFaithful == FormKeepsRow /\ OverridesCount
=============================================================================
