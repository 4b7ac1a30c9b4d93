CONSTANTS
  Programs <- MCSplit
  NumInsts = 1
  LoadPorts = 2
  StorePorts = 2
  Flushes = 1
SPECIFICATION Spec
INVARIANTS SyncAfterStale
