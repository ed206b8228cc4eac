CONSTANTS
  MaxProducers = 2
  MaxItems = 1
  MaxResources = 1
  MaxAttempts = 1
  MaxTroubles = 2
  MaxAtOnce = 3
  Consumers = {"cut"}
  Flat = {TRUE}
SPECIFICATION Spec
INVARIANTS TypeOK ReleasedOnce CallbackOwnsProducer ConsumerClosesGraph RightOutcome
PROPERTIES ReleaseBeforeScope
