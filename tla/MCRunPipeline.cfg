CONSTANTS
  Procs = {p1, p2}
  Tasks = {t1, t2}
  Profiles <- MCProfiles
  Contents <- MCContents
  Options <- MCOptions
  Works <- MCWorks
  CaseSensitive = FALSE
  MaxRuns = 2
  MaxTrouble = 1
  None = None
  Folded <- MCFolded
  Base <- MCBase
CHECK_DEADLOCK FALSE
SPECIFICATION Spec
SYMMETRY MCSymmetry
INVARIANTS
  RunsAreSeparate
  ApprovedContractRuns
  
  GateIsEarned
  IsolationHolds
