CONSTANTS
  w1 = w1
  w2 = w2
  c1 = c1
  c2 = c2
  Workers = {w1}
  Contents = {c1, c2}
  MaxAttempts = 2
  Modes = {"pr", "local"}
  MaxGrants = 2
  MaxSaveErrors = 0
SPECIFICATION Spec
PROPERTIES
  ExecutionEnds
