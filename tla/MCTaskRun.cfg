CONSTANTS
  w1 = w1
  w2 = w2
  c1 = c1
  c2 = c2
  Workers = {w1, w2}
  Contents = {c1, c2}
  MaxAttempts = 2
  Modes = {"pr"}
  MaxGrants = 2
  MaxSaveErrors = 1
SYMMETRY Interchangeable
SPECIFICATION Safety
INVARIANTS
  BudgetRespected
  CostAccounted
  AcceptedOnly
  RemoteFollowsIntent
  OneLateEffect
PROPERTIES
  CompletedIsFinal
  IntentRemembered
