CONSTANTS
  Procs = {p1, p2}
  MaxRev = 2
  Orders <- MCOrders
  Runs <- MCRuns
  Bundles <- MCBundles
  Locals <- MCLocals
  MaxEvents = 4
  MaxFaults = 1
  None = None
  d1 = d1
  b1 = b1
  b2 = b2
SPECIFICATION Spec
SYMMETRY MCSymmetry
INVARIANTS
  
  
  DriftIsExplained

  
