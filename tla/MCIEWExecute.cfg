CONSTANTS
  Programs <- MCPairs
  NumInsts = 2
  LoadPorts = 1
  StorePorts = 1
  Flushes = 1
SPECIFICATION FairSpec
INVARIANTS TypeOK RequestOutlives OneOwner SavedIsLive CompleteIsWhole BlockedIsAwaited
PROPERTIES InstEnds
