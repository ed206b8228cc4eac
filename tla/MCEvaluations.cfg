SPECIFICATION Spec
CONSTANTS
  MaxEntries = 4
  MaxControls = 3
  MaxStops = 3
  MaxTroubles = 1
INVARIANTS
  TypeOK
  OneHome
  EveryCallIsAnswered
  ShutdownLeavesNothing
PROPERTY
  AnsweredByCallee
