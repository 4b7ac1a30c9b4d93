CONSTANTS
  Programs <- MCForwarded
  NumInsts = 2
  LoadPorts = 1
  StorePorts = 1
  Flushes = 1
SPECIFICATION FairSpec
PROPERTIES SyncEnds
