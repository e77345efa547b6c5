CONSTANTS
  m1 = m1
  m2 = m2
  c1 = c1
  c2 = c2
  Machines = {m1}
  Callers = {c1}
  Paths <- TwoDeep
  LearningIds = {}
  MaxCalls = 3
CHECK_DEADLOCK FALSE
SPECIFICATION ScopesSpec
PROPERTIES BoundaryStays
