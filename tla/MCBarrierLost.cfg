\* A barrier before an access that crosses a line: its halves are copies without the mark.
CONSTANTS
  Forms <- SplitForms
  MaxMicro = 1
SPECIFICATION Spec
PROPERTY BarrierReachesMemory
CHECK_DEADLOCK FALSE
