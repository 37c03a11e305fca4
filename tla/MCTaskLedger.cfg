CONSTANTS
  Procs = {p1, p2}
  Contents = {c1, c2}
  Guards = {g1, g2}
  None = None
  MaxEvents = 5
  MaxFaults = 2
SPECIFICATION Spec
SYMMETRY MCSymmetry
INVARIANTS
  ApprovalNamesStoredContract
  
  SeqContiguous
  ConfirmedContractKept
  SuccessionRecorded
PROPERTIES
  NeverCarriedForward
