----------------------------- MODULE MCAbcColony -----------------------------
(* Instances of AbcColony for TLC.                                          *)
EXTENDS AbcColony

\* Two objective pairs of equal score that do not dominate each other, and
\* one that dominates both.
TiedPairs == {<<0, 1>>, <<1, 0>>, <<1, 1>>}
=============================================================================
