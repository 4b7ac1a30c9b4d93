CONSTANTS
  Program <- MCProgram
  renameWidth = 2
  dispatchWidth = 1
  renameToIEWDelay = 2
  Refill = 1
  Squashes = 2
SPECIFICATION FairSpec
INVARIANTS SkidFits CreditsExact InOrder SignalsPaired
PROPERTIES NoneLost StallEnds
