CONSTANTS
  MaxProducers = 2
  MaxItems = 1
  MaxResources = 0
  MaxAttempts = 0
  MaxTroubles = 0
  MaxAtOnce = 3
  Consumers = {"until"}
  Flat = {TRUE}
SPECIFICATION Spec
INVARIANTS StopClosesGraph
