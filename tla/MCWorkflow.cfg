CONSTANTS
  i1 = i1
  i2 = i2
  w1 = w1
  w2 = w2
  Coordinators = {w1, w2}
  Items = {i1, i2}
  Order <- MCOrder
  Resources <- MCSeparate
  Plans <- TakeoverPlans
  MaxParallel = 2
  Withheld = {}
  Requests = {"cancel"}
  MaxGrants = 2
  MaxSaveErrors = 0
SYMMETRY Interchangeable
SPECIFICATION Safety
INVARIANTS
  RunningIsReserved
  SuccessIsVerified
PROPERTIES
  ImplementsOneShot
