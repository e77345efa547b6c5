CONSTANTS
  m1 = m1
  m2 = m2
  c1 = c1
  c2 = c2
  Machines = {m1, m2}
  Callers = {c1, c2}
  Paths <- TwoDeep
  LearningIds = {1, 2}
  MaxCalls = 4
SYMMETRY Symmetry
CHECK_DEADLOCK FALSE
SPECIFICATION ScopesSpec
INVARIANTS ScopesTypeOK ContextSound FreshIsWhole
