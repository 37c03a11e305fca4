---------------------------- MODULE MCTaskLedger ----------------------------
(* Two processes, two contents of the task file.                            *)
EXTENDS TaskLedger, TLC

MCSymmetry ==
  Permutations(Procs) \cup Permutations(Contents) \cup Permutations(Guards)
=============================================================================
