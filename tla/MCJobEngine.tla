---------------------------- MODULE MCJobEngine ----------------------------
(* Small instances of JobEngine for TLC.                                   *)
EXTENDS JobEngine, TLC

CONSTANTS j1, j2, w1, r1, r2, r3

Alike == Permutations(Runs) \cup Permutations(Jobs)
OneWork == [j \in Jobs |-> w1]
=============================================================================
