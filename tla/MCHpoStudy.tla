---------------------------- MODULE MCHpoStudy ----------------------------
(* HpoStudy for TLC: a candidate's score is the sum over its seeds, which    *)
(* orders candidates like the mean does.                                     *)
EXTENDS HpoStudy

SumScore(f) == MapThenSumSet(LAMBDA s : f[s], DOMAIN f)

TwoThenScout == <<2, 1>>    \* a batch of two candidates, then a scout
OneBatchOfOne == <<1>>
=============================================================================
