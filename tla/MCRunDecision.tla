---------------------------- MODULE MCRunDecision ----------------------------
(* Two processes; a run whose commands alone are unobserved, and runs that lack more.*)
EXTENDS RunDecision, TLC

Whole == [done |-> TRUE, gate |-> TRUE, violation |-> FALSE, low |-> TRUE, gaps |-> {Unobserved},
          isolated |-> TRUE, allowed |-> {"HUMAN"}, auto |-> TRUE, explicit |-> FALSE]
MCTraces ==
  {Whole,
   [Whole EXCEPT !.gaps = @ \cup {"NEW_FILE_CONTENT_NOT_CAPTURED"}],
   [Whole EXCEPT !.gaps = @ \cup {"GIT_DIFF_FAILED"}],
   [Whole EXCEPT !.gaps = @ \cup {Cut}],
   [Whole EXCEPT !.violation = TRUE],
   [Whole EXCEPT !.gate = FALSE, !.isolated = FALSE]}
MCSymmetry == Permutations(Procs)
=============================================================================
