CONSTANTS
  mine = mine
  team = team
  Brains = {mine, team}
  Personal = mine
  E2E = {mine}
  MultiTenant = TRUE
  Rows <- RowsOf
  Envelopes <- EnvelopesOf
  Limit = 2
  Items = {"i1"}
  MaxLogins = 2
  MaxFlips = 1
  MaxSwitches = 1
  MaxFaults = 1
SPECIFICATION FairSpec
INVARIANTS FailClosed NoneSkipped
PROPERTIES PullReturns
CHECK_DEADLOCK FALSE
