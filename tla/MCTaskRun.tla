------------------------------ MODULE MCTaskRun ------------------------------
(* Two overlapping executions of one run.                                   *)
EXTENDS TaskRun, TLC

CONSTANTS w1, w2, c1, c2

Interchangeable == Permutations(Workers) \cup Permutations(Contents)
==============================================================================
