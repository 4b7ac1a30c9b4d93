\* One core, every form of request, a chain of two counters and an LLC that cannot hold both
\* beside a line.
CONSTANTS
  c1 = c1  c2 = c2
  a1 = a1  a2 = a2  a3 = a3
  k1 = k1  k2 = k2
  None = None
  Caches = {c1}
  Data = {a1, a2}
  Counters = {k1, k2}
  Path <- TwoLevels
  RootSlot <- Slot0
  Lease = 2
  L1Size = 1
  LivelockPeriod = 4
  Ops <- AllOps
  MaxOps = 4
  MaxClock = 6
  LLCSize = 2
  MruPolicy = 0
  Slots = 2
SPECIFICATION Spec
SYMMETRY Lines
INVARIANTS
  SuspendedIsAwaited
  MemoryAgrees
