SPECIFICATION FairSpec
CONSTANTS
  Length <- MCLength
  Header = 2
  Chunk = 2
  Capacity = 3
INVARIANTS
  TypeOK
  OneFrame
PROPERTIES
  ImplementsDelivery
  ParkedIsStill
  OutputReturns
