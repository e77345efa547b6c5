CONSTANTS
  Sessions <- FourSessions
  Events <- TwoEvents
  SessionOf <- TwoOwners
  tick = tick
  Pullers = {tick}
  Bad = {11}
  Limit = 3
  KeyOrder = TRUE
  MaxFaults = 2
SPECIFICATION FairSpec
INVARIANTS NoneSkipped
PROPERTIES CatchesUp
