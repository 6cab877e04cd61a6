-------------------------- MODULE MCBuildScheduler --------------------------
(***************************************************************************)
(* Instances of BuildScheduler for TLC.                                    *)
(***************************************************************************)
EXTENDS BuildScheduler, TLC

CONSTANTS a, b, c, d     \* the tasks the restricted edge sets talk about

\* Every graph, cyclic ones and self-dependencies included.
AllEdges == TaskIDs \X TaskIDs
NoEdges  == {}
\* b depends on a.
Pair     == {<<b, a>>}
\* b depends on a and c on b.
Chain    == {<<b, a>>, <<c, b>>}
\* c depends on a and on b.
TwoRoots == {<<c, a>>, <<c, b>>}
\* b, c and d depend on a.
FanOut   == {<<b, a>>, <<c, a>>, <<d, a>>}

Interchangeable == Permutations(TaskIDs) \union Permutations(Workers)
=============================================================================
