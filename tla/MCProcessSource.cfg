CONSTANTS
  N = 2
  MaxBytes = 1
  MaxForeign = 1
SPECIFICATION FairSpec
INVARIANTS TypeOK RightFailure EndAfterAll
PROPERTIES SourceEnds
