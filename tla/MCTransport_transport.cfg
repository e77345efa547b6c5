CONSTANTS
  m1 = m1
  m2 = m2
  Machines = {m1, m2}
  Origins = {m1}
  Hooked = {m1}
  Vendors = {"claude", "codex"}
  Texts = {1}
  Written = {"prompt", "blocks", "text", "call", "result", "noise"}
  Ahead <- FirstIsAhead
  PageSize = 2
  RecentN = 2
  MaxRecords = 3
  MaxNow = 1
  MaxResumes = 2
SPECIFICATION TransportSpec
INVARIANTS TransportTypeOK NothingTwice OrderKept
PROPERTIES ResumeIsWhole PrimePairs
