\* Two cores and two lines an L1 cannot hold at once: put-backs race recalls, and
\* leases are so short that loads renew them.
CONSTANTS
  c1 = c1  c2 = c2
  a1 = a1  a2 = a2  a3 = a3
  k1 = k1  k2 = k2
  None = None
  Caches = {c1, c2}
  Data = {a1, a2}
  Counters = {k1}
  Path <- OneLevel
  RootSlot <- Slot0
  Lease = 1
  L1Size = 1
  LivelockPeriod = 1
  Ops <- Plain
  MaxOps = 3
  MaxClock = 6
  LLCSize = 3
  MruPolicy = 0
  Slots = 2
SPECIFICATION Spec
SYMMETRY CoresAndLines
INVARIANTS
  OneWriter
  TransferIsCurrent
  RepliesExpected
  RecallsMeetOwner
