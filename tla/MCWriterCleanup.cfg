SPECIFICATION SinkSpec
CONSTANTS
  Length <- MCLength
  Header = 2
  Chunk = 2
  Capacity = 3
PROPERTY
  CleanupReturns
