\* A full LLC whose victim has been recalled and comes back second.
CONSTANTS
  c1 = c1  c2 = c2
  a1 = a1  a2 = a2  a3 = a3
  k1 = k1  k2 = k2
  None = None
  Caches = {c1, c2}
  Data = {a1, a2}
  Counters = {k1}
  Path <- OneLevel
  RootSlot <- Slot0
  Lease = 2
  L1Size = 2
  LivelockPeriod = 4
  Ops <- Plain
  MaxOps = 2
  MaxClock = 6
  LLCSize = 2
  MruPolicy = 0
  Slots = 2
SPECIFICATION Spec
SYMMETRY CoresAndLines
INVARIANTS
  StalledEvictionEnds
CHECK_DEADLOCK FALSE
