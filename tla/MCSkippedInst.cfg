\* Accesses that complete at once, and a drain.
CONSTANTS
  Forms <- WholeForms
  MaxMicro = 1
SPECIFICATION Spec
INVARIANT OneAdvance
CHECK_DEADLOCK FALSE
