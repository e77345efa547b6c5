CONSTANTS
  r1 = r1
  r2 = r2
  l1 = l1
  i1 = i1
  a1 = a1
  a2 = a2
  o1 = o1
  A = A
  B = B
  C = C
  Calls = {r1, r2, l1, i1, a1, a2, o1}
  Kind <- KindOf
  Machines = {A, B, C}
  MachineOf <- PlaceOf
  None = None
  MaxAttempts = 2
  ShortTtl = 1
  CodeTtl = 1
  MaxTime = 1
  MaxFaults = 1
SPECIFICATION FairSpec
INVARIANTS OneDevicePerCode AnsweredRegister SealersAgree
PROPERTIES EphemeralEnds
CHECK_DEADLOCK FALSE
