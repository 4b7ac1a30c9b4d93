\* Every form of instruction, alone or followed by one more microoperation.
CONSTANTS
  Forms <- EveryForm
  MaxMicro = 1
SPECIFICATION FairSpec
INVARIANTS
  TypeOK
  OneThingPending
  FragmentsAccounted
  QuietWhenDrained
PROPERTIES
  AccessEnds
  DrainEnds
