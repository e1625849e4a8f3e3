-------------------------- MODULE MCScenarioStore --------------------------
(***************************************************************************)
(* Two names that differ in case only and a third one; a resource of each  *)
(* energy type; one file written by hand whose second agent asks for the   *)
(* library agent of the first with another configuration.                  *)
(***************************************************************************)
EXTENDS ScenarioStore, TLC

ScenarioSymmetry == Permutations(ScenarioIds)

MCFoldCase == [x \in Stems |-> IF x = "A" THEN "a" ELSE x]

MCAllowed == [FOSSIL |-> {"coal"}, HYBRID |-> {"coal", "wind"}]

Coal == [energy |-> "coal", cost |-> 1]
Wind == [energy |-> "wind", cost |-> 1]
MCRows == [r1 |-> {Coal, Wind}, r2 |-> {Wind}]

Learner == [alg |-> "PPO", type |-> "FOSSIL", plants |-> {"r1"}]
Baseline == [alg |-> "RANDOM", type |-> "HYBRID", plants |-> {"r1", "r2"}]
MCContents == {Learner, Baseline}

FileAgent(name, lib, content, params) ==
    [name |-> <<name>>, lib |-> <<lib>>, alg |-> content.alg, type |-> content.type,
     params |-> params, plants |-> content.plants]

MCFiles ==
    {[resources |-> [r1 |-> Coal],
      agents |-> <<FileAgent("a", "A", Learner, "PPO"),
                   FileAgent("b", "a", Learner, NoParams)>>]}
=============================================================================
