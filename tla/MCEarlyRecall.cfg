\* A recall overtakes the upgrade on another virtual network.
CONSTANTS
  c1 = c1  c2 = c2
  a1 = a1  a2 = a2  a3 = a3
  k1 = k1  k2 = k2
  None = None
  Caches = {c1, c2}
  Data = {a1}
  Counters = {k1}
  Path <- OneLevel
  RootSlot <- Slot0
  Lease = 2
  L1Size = 1
  LivelockPeriod = 4
  Ops <- Plain
  MaxOps = 2
  MaxClock = 6
  LLCSize = 3
  MruPolicy = 0
  Slots = 2
SPECIFICATION Spec
SYMMETRY Cores
INVARIANTS
  EarlyRecallStalls
CHECK_DEADLOCK FALSE
