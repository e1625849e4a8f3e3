----------------------------- MODULE LearningStart -----------------------------
(***************************************************************************)
(* The common learning start of a run: how the wizard previews it, how a   *)
(* scenario is checked when it is saved, and how the run is built with it  *)
(* (context.py, algorithm_config.py, views.py).                            *)
(*                                                                         *)
(* Of a config only the sizes that matter for the start are kept.  An      *)
(* agent is its algorithm and its own parameters; an entry of the wizard   *)
(* also says which stored agent, if any, it is a copy or an edit of.       *)
(* Agents, and what is worked out for those that learn, are functions from *)
(* the positions of the agents.                                            *)
(***************************************************************************)
EXTENDS Integers, FiniteSets, FiniteSetsExt, Functions

CONSTANTS
    Learners,      \* learning algorithms; the others are baselines
    OffPolicy,     \* those that learn from a replay buffer
    Window,        \* the size each of them needs besides its batch, if any
    Class,         \* published values of each
    Unbounded,     \* _UNBOUNDED_LEARNING_STARTS
    Automatic, Rejected, NoLearner, NoStored

(* What resolve_learning_start returns.                                    *)
Resolved == [value : Int, automatic : BOOLEAN, minimum : Int, limit : SUBSET Int]

ASSUME LearningStartAssumption ==
    /\ OffPolicy \subseteq Learners
    /\ Unbounded \in Nat
    /\ \A alg \in Learners :
         /\ {"batch_size", "buffer_size", "learning_starts"} \subseteq DOMAIN Class[alg]
         /\ \A key \in DOMAIN Class[alg] : Class[alg][key] \in Nat
         /\ Rejected \notin [DOMAIN Class[alg] -> Int]
    /\ \A alg \in DOMAIN Window :
         Window[alg] \in DOMAIN Class[alg] \ {"learning_starts"}
    /\ {Automatic, Rejected, NoLearner} \cap Int = {} /\ Rejected # NoLearner
    /\ {Rejected, NoLearner} \cap Resolved = {}

-----------------------------------------------------------------------------
(* Configs.                                                                *)

ValidSizes(alg, c) ==
    /\ c.batch_size >= 1 /\ c.buffer_size >= c.batch_size
    /\ c.learning_starts >= c.batch_size
    /\ alg \in DOMAIN Window /\ alg \in OffPolicy =>
          c[Window[alg]] >= 2 /\ c[Window[alg]] <= c.buffer_size

(* from_dict refuses unknown keys.                                         *)
from_dict(alg, params) ==
    LET c == [key \in DOMAIN Class[alg] |->
                IF key \in DOMAIN params THEN params[key] ELSE Class[alg][key]]
    IN  IF DOMAIN params \subseteq DOMAIN Class[alg] /\ ValidSizes(alg, c) THEN c ELSE Rejected

min_learning_starts(alg, c) ==
    IF alg \in DOMAIN Window THEN Max({c.batch_size, c[Window[alg]]}) ELSE c.batch_size

first_update_transitions(alg, c) == Max({c.learning_starts, min_learning_starts(alg, c)})

(* PPO has no limit: it drops what it cannot keep.                         *)
learning_starts_limit(alg, c) == IF alg \in OffPolicy THEN {c.buffer_size} ELSE {}

With(params, starts) ==
    [key \in DOMAIN params \cup {"learning_starts"} |->
        IF key = "learning_starts" THEN starts ELSE params[key]]

Own(alg, params) ==
    IF "learning_starts" \in DOMAIN params THEN params.learning_starts
                                           ELSE Class[alg].learning_starts

learner_config(alg, params) ==
    LET probe == from_dict(alg, With(params, Unbounded)) IN
    IF probe = Rejected THEN Rejected
    ELSE from_dict(alg, With(params, Max({Own(alg, params), min_learning_starts(alg, probe)})))

-----------------------------------------------------------------------------
(* The common start of learners [alg, config].                             *)

Minimum(learners) ==
    Max({min_learning_starts(learners[i].alg, learners[i].config) : i \in DOMAIN learners})

Limits(learners) ==
    UNION {learning_starts_limit(learners[i].alg, learners[i].config) : i \in DOMAIN learners}

(* Mutant of common_learning_starts: it must stay below the buffers.       *)
common_learning_starts_below(explicit, learners) ==
    LET value == IF explicit # Automatic THEN explicit
                 ELSE Max({first_update_transitions(learners[i].alg, learners[i].config) :
                              i \in DOMAIN learners})
    IN  IF DOMAIN learners = {} THEN NoLearner
        ELSE IF value < Minimum(learners) \/ \E limit \in Limits(learners) : value >= limit
             THEN Rejected
        ELSE value

common_learning_starts(explicit, learners) ==
    LET value == IF explicit # Automatic THEN explicit
                 ELSE Max({first_update_transitions(learners[i].alg, learners[i].config) :
                              i \in DOMAIN learners})
    IN  IF DOMAIN learners = {} THEN NoLearner
        ELSE IF value < Minimum(learners) \/ \E limit \in Limits(learners) : value > limit
             THEN Rejected
        ELSE value

Layered(agent, defaults) ==
    LET base == defaults[agent.alg] IN
    [key \in DOMAIN base \cup DOMAIN agent.params |->
        IF key \in DOMAIN agent.params THEN agent.params[key] ELSE base[key]]

Described(agents, defaults) ==
    [i \in {j \in DOMAIN agents : agents[j].alg \in Learners} |->
        [alg |-> agents[i].alg,
         config |-> learner_config(agents[i].alg, Layered(agents[i], defaults))]]

(* resolve_learning_start: an agent whose parameters are refused is left   *)
(* out; its own message comes when a run is built.                         *)
resolve_learning_start(explicit, agents, defaults) ==
    LET described == Described(agents, defaults)
        learners  == Restrict(described, {i \in DOMAIN described : described[i].config # Rejected})
        value     == common_learning_starts(explicit, learners)
    IN  IF value \in {NoLearner, Rejected} THEN value
        ELSE [value |-> value, automatic |-> explicit = Automatic,
              minimum |-> Minimum(learners),
              limit |-> IF Limits(learners) = {} THEN {} ELSE {Min(Limits(learners))}]

first_learning_period(lags, start) == Max(lags) + 1 + start

-----------------------------------------------------------------------------
(* The wizard.                                                             *)

(* _parse_learning_starts                                                  *)
ValidStart(explicit) == explicit = Automatic \/ explicit >= 1

(* _entry_learning_agent: the algorithm that is chosen, the parameters     *)
(* that are stored.                                                        *)
Previewed(entry) ==
    [alg |-> entry.alg,
     params |-> IF entry.stored = NoStored THEN entry.params ELSE entry.stored.params]

(* What is saved: another algorithm clears the stored parameters.          *)
SavedEntry(entry) ==
    [alg |-> entry.alg,
     params |-> IF entry.stored = NoStored THEN entry.params
                ELSE IF entry.stored.alg = entry.alg THEN entry.stored.params
                ELSE [key \in {} |-> 0]]

learning_start_preview(explicit, entries, defaults) ==
    resolve_learning_start(explicit, [i \in DOMAIN entries |-> Previewed(entries[i])], defaults)

(* _check_learning_start runs inside the transaction that saves.           *)
CheckSaved(explicit, entries, defaults) ==
    resolve_learning_start(explicit, [i \in DOMAIN entries |-> SavedEntry(entries[i])], defaults)

-----------------------------------------------------------------------------
(* The run.                                                                *)

(* SimulationContext.build: the configs of all learners, or Rejected.      *)
BuildLearners(explicit, agents, defaults) ==
    LET described == Described(agents, defaults)
        start     == common_learning_starts(explicit, described)
        configs   == [i \in DOMAIN described |->
                        from_dict(agents[i].alg, With(Layered(agents[i], defaults), start))]
    IN  IF \E i \in DOMAIN described : described[i].config = Rejected THEN Rejected
        ELSE IF start \in {NoLearner, Rejected} THEN start
        ELSE IF Rejected \in Range(configs) THEN Rejected
        ELSE configs

(* _effective_learning_starts: what the analysis shows, from the snapshot. *)
Shown(configs) == configs[Min(DOMAIN configs)].learning_starts
=============================================================================
