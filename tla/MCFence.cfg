CONSTANTS
  Programs <- MCFenced
  NumInsts = 3
  LoadPorts = 1
  StorePorts = 1
  Flushes = 0
SPECIFICATION Spec
PROPERTIES FenceFirst
