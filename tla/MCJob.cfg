SPECIFICATION FairSpec
CONSTANTS
  N = 2
  MaxExternal = 2
INVARIANTS
  TypeOK
  OwnedGroup
  AttributedResult
  StopBarrier
  Provenance
  Barrier
PROPERTIES
  ImplementsBarrier
  CleanupEnds
  CallsReturn
CHECK_DEADLOCK FALSE
