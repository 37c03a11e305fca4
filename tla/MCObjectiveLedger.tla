------------------------- MODULE MCObjectiveLedger -------------------------
(* Two processes, two revisions; a review of the first revision accepted, one *)
(* of the same run rejected later, one whose bundle differs although its id  *)
(* does not, and one that does not say which revision it is about.           *)
EXTENDS ObjectiveLedger, TLC

CONSTANTS d1, b1, b2

MCRuns == {d1}
MCBundles == {b1, b2}
MCOrders == {<<2, 1>>, <<1, 1>>}
Review(id, bundle, verdict) ==
  [id |-> <<id, 0>>, bundle |-> bundle, verdict |-> verdict, proved |-> TRUE,
   actor |-> "HUMAN", allowed |-> {"HUMAN"}, overturns |-> None]
MCLocals ==
  {[item |-> 1, ready |-> TRUE, decision |-> Review(d1, b1, "ACCEPTED")],
   [item |-> 1, ready |-> TRUE, decision |-> Review(d1, b2, "ACCEPTED")]}
MCSymmetry == Permutations(Procs)
=============================================================================
