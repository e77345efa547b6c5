CONSTANTS
  u1 = u1
  u2 = u2
  d1 = d1
  p1 = p1
  i1 = i1
  x1 = x1
  Cmds = {u1, u2, d1, p1, x1}
  Kind <- KindOf
  MemoryOnly = {u2}
  Edits <- EditsOf
  HookFiles = {"settings"}
  McpFiles = {"mcp"}
  Xdg = TRUE
  UserSlots = {"Stop"}
  MaxFaults = 1
  MaxRunning = 2
SPECIFICATION Spec
INVARIANTS SaidIsSo OneHome HandlersRight
CHECK_DEADLOCK FALSE
