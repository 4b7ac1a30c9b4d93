CONSTANTS
  Program <- MCProgram
  issueWidth = 3
  wbWidth = 2
  Horizon = 1
SPECIFICATION Spec
INVARIANTS SquashIsOldest SlotsExact OverrunIsFull
