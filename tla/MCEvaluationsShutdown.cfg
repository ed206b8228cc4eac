SPECIFICATION FairSpec
CONSTANTS
  MaxEntries = 2
  MaxControls = 1
  MaxStops = 2
  MaxTroubles = 0
PROPERTY
  ShutdownCompletes
