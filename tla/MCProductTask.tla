--------------------------- MODULE MCProductTask ---------------------------
(* Two processes, a file, two decisions; a disturbance at any time.          *)
EXTENDS LocalDecision, TLC

CONSTANTS p1, p2

MCKinds == {"NEW_PROJECT", "EXISTING_REPOSITORY"}

MCOverlap == "NEW_PROJECT" :> 6 @@ "EXISTING_REPOSITORY" :> 4 @@ None :> 1

MCLast == "NEW_PROJECT" :> 8 @@ "EXISTING_REPOSITORY" :> 4 @@ None :> 1

Interchangeable == Permutations(Procs)
=============================================================================
