CONSTANTS
  Hooks = {h1}
  Sweep = Sweep
  None = None
  Length = 3
  Rooted = {2}
  Hooked <- StartAndTool
  FlushSize = 2
  MaxFires = 2
  MaxFaults = 1
SPECIFICATION FairSpec
INVARIANTS CountIsExact PushedIsGrounded SweptIsKept SweepFindsCwd
PROPERTIES SweepRepairs
CHECK_DEADLOCK FALSE
