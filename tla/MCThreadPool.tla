---------------------------- MODULE MCThreadPool ----------------------------
(* Small instances of ThreadPool for TLC.                                  *)
EXTENDS ThreadPool, TLC

CONSTANTS w1, w2, main, other, k1, k2, k3

TwoWorkers == {w1, w2}
MainOnly == {main}
TwoClients == {main, other}
AllThreads == {w1, w2, main, other}
TwoTasks == {k1, k2}
ThreeTasks == {k1, k2, k3}
OneFuture == {k1}
Nobody == {}

(* Workers are interchangeable; so are the tasks submitted by push().      *)
PoolSymmetry == Permutations(TwoWorkers) \cup Permutations(ThreeTasks \ OneFuture)
=============================================================================
