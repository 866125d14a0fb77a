-------------------------- MODULE MCAsyncExecutor --------------------------
(* Small instances of AsyncExecutor for TLC: two workers, every graph of   *)
(* at most three tasks with at most MaxEdges edges.                        *)
EXTENDS AsyncExecutor

CONSTANTS w1, w2, main

TwoWorkers == {w1, w2}
Main == {main}
Everybody == {w1, w2, main}
TwoNodes == 1 .. 2
ThreeNodes == 1 .. 3
TwoNodesAndRoot == 0 .. 2
ThreeNodesAndRoot == 0 .. 3
Nothing == {}
=============================================================================
