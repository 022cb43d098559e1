-------------------------- MODULE MCTaskScheduler --------------------------
(* Instances of TaskScheduler: a planned task and a recurring one.          *)
EXTENDS TaskScheduler, TLC

CONSTANTS p, q, r1, r2

TwoRuns == {r1, r2}
RunSymmetry == Permutations(Runs)
=============================================================================
