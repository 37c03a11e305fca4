CONSTANTS
  Procs = {p1, p2}
  Traces <- MCTraces
  MaxReviews = 2
  MaxEvents = 6
  MaxCrashes = 1
  None = None
CHECK_DEADLOCK FALSE
SPECIFICATION Spec
SYMMETRY MCSymmetry
INVARIANTS
  VerifiedIsEarned
  AppliedOnAcceptance
  
PROPERTIES
  VerifiedByNewDecision
