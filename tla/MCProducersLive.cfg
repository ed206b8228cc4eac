CONSTANTS
  MaxProducers = 2
  MaxItems = 1
  MaxResources = 0
  MaxAttempts = 0
  MaxTroubles = 2
  MaxAtOnce = 3
  Consumers = {"until", "close"}
  Flat = {FALSE}
SPECIFICATION FairSpec
PROPERTIES InterruptEnds
