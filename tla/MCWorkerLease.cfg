CONSTANTS
  w1 = w1
  w2 = w2
  p1 = p1
  p2 = p2
  Workers = {w1, w2}
  Processes = {p1, p2}
  Host <- MCHost
  Lease = 2
  MaxTime = 4
  MaxRollbacks = 1
  MaxGrants = 2
  MaxVersion = 2
SPECIFICATION Spec
PROPERTIES
  ImplementsFence
  AbandonedRunBecomesClaimable
