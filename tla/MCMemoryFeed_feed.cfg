CONSTANTS
  Scopes <- OuterScopes
  Learnings = {}
  Plans <- OnePlan
  ScopeOf <- Owner
  MaxConns = 2
  Limit = 1
  Buffer = 1
  Wire = 1
  MaxSlots = 1
  Rewritten = {}
  Late <- FirstKey
  MaxFailures = 1
SPECIFICATION FairSpec
INVARIANTS FeedTypeOK NoGap SlotsCounted CursorSafe
PROPERTIES StreamDelivers
