\* Two cores, two lines below different counters, and the MRU policy that leaves
\* to chance which counters are touched. A lost wake-up may stop the system.
CONSTANTS
  c1 = c1  c2 = c2
  a1 = a1  a2 = a2  a3 = a3
  k1 = k1  k2 = k2
  None = None
  Caches = {c1, c2}
  Data = {a1, a2}
  Counters = {k1, k2}
  Path <- TwoRoots
  RootSlot <- Slot0
  Lease = 2
  L1Size = 1
  LivelockPeriod = 4
  Ops <- Plain
  MaxOps = 2
  MaxClock = 6
  LLCSize = 2
  MruPolicy = 2
  Slots = 2
SPECIFICATION Spec
SYMMETRY Cores
INVARIANTS
  SuspendedIsAwaited
  MemoryAgrees
CHECK_DEADLOCK FALSE
