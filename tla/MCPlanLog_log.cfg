CONSTANTS
  a1 = a1
  c1 = c1
  Mcp = {a1}
  Cli = {c1}
  MaxVersions = 2
  MaxDeletes = 1
  MaxFaults = 1
SPECIFICATION Spec
INVARIANTS AckedStays EveryVersionQueued
PROPERTIES AgentsMerge
