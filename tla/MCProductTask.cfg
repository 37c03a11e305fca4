CONSTANTS
  None = None
  Foreign = Foreign
  p1 = p1
  p2 = p2
  Procs = {p1, p2}
  Kinds <- MCKinds
  MaxRev = 10
  Overlap <- MCOverlap
  Last <- MCLast
  MaxTrouble = 1
  Files = {"a"}
  Decisions = {1, 2}
  MaxAttempts = 2
SYMMETRY Interchangeable
SPECIFICATION Spec
CHECK_DEADLOCK FALSE
INVARIANTS
  PassIsCurrent
  RecordsAgree
PROPERTIES
  
  ExpiryIsFinal
  ImplementsOneShot
