CONSTANTS
  i1 = i1
  i2 = i2
  w1 = w1
  w2 = w2
  Coordinators = {w1}
  Items = {i1, i2}
  Order <- MCOrder
  Resources <- MCSeparate
  Plans <- LivePlans
  MaxParallel = 2
  Withheld = {i2}
  Requests = {"pause", "cancel"}
  MaxGrants = 1
  MaxSaveErrors = 0
SPECIFICATION Spec
PROPERTIES
  ExecutionEnds
