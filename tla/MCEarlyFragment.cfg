\* Split accesses: a first half is answered while the second waits for a retry.
CONSTANTS
  Forms <- SplitForms
  MaxMicro = 1
SPECIFICATION Spec
INVARIANT ResponseExpected
CHECK_DEADLOCK FALSE
