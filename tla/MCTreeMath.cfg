\* 2 GB of data memory: everything below the counter region.
CONSTANTS
  MemoryBlocks = 33554432
  GridStep = 98304
SPECIFICATION Spec
INVARIANTS
  OneLevelPerStep
  RootSlotOfWalk
CHECK_DEADLOCK FALSE
