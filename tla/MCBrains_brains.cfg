CONSTANTS
  n1 = n1
  n2 = n2
  p1 = p1
  p2 = p2
  g1 = g1
  g2 = g2
  a1 = a1
  d1 = d1
  d2 = d2
  old = old
  ann = ann
  bob = bob
  k1 = k1
  k2 = k2
  Users = {ann, bob}
  Keys = {k1, k2}
  Reqs = {n1, n2, p1, p2, g1, g2, a1, d1}
  Kind <- KindOf
  User <- UserOf
  Selector <- SelectorOf
  Row <- RowOf
  Target <- TargetOf
  Old = {old}
  OldOwner <- OldOwnerOf
  None = None
  MaxBrains = 2
  MaxFaults = 1
SPECIFICATION Spec
INVARIANTS OneKeyReadable CreatedIsUsable
CHECK_DEADLOCK FALSE
