CONSTANTS
  i1 = i1
  i2 = i2
  w1 = w1
  w2 = w2
  Coordinators = {w1}
  Items = {i1, i2}
  Order <- MCOrder
  Resources <- MCSeparate
  Plans <- SinglePlan
  MaxParallel = 2
  Withheld = {}
  Requests = {"pause"}
  MaxGrants = 2
  MaxSaveErrors = 0
SPECIFICATION Spec
INVARIANTS
  CompletedCarriesEvidence
