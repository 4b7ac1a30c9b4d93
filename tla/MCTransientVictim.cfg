\* A dirty victim is being recalled while its counter is not in the LLC.
CONSTANTS
  c1 = c1  c2 = c2
  a1 = a1  a2 = a2  a3 = a3
  k1 = k1  k2 = k2
  None = None
  Caches = {c1, c2}
  Data = {a1, a2}
  Counters = {k1, k2}
  Path <- TwoRoots
  RootSlot <- Slot0
  Lease = 2
  L1Size = 1
  LivelockPeriod = 4
  Ops <- Stores
  MaxOps = 2
  MaxClock = 6
  LLCSize = 2
  MruPolicy = 1
  Slots = 2
SPECIFICATION Spec
SYMMETRY Cores
INVARIANTS
  TransientVictimStalls
CHECK_DEADLOCK FALSE
