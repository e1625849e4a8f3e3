---------------------------- MODULE MCCheckpoints ----------------------------
(* Instances of Checkpoints for TLC.                                        *)
EXTENDS Checkpoints, TLC

\* No two agents of the scenario come from one library agent.
OwnKeys == [a \in 1..K |-> a]

RunSymmetry == Permutations(Runs)
=============================================================================
