CONSTANTS
  k1 = k1
  k2 = k2
  Keys = {k1, k2}
  Rejected = {k2}
  Bulky = {k1, k2}
  BodyCap = 1
  Loop = Loop
  c1 = c1
  Callers = {c1}
  p1 = p1
  p2 = p2
  PostIds = {p1, p2}
  BatchSize = 2
  MaxBlob = 2
  MaxRows = 3
  MaxFaults = 1
SPECIFICATION FairSpec
INVARIANTS NoLoss OwedIsNewest
PROPERTIES AckedIsStored ImplementsDelivery EventuallyDrained
