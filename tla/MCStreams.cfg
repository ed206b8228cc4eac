CONSTANTS
  None = None
  Broken = Broken
  LF = "lf"
  CR = "cr"
  Bad = "bad"
  Limit = 2
  Piece = 1
  Root = "top"
  Sink = "sink"
  Graphs <- MCGraphs
  Takes = {1, 9}
  Quantum = 3
  SliceSize = 1
  PipeSize = 1
  Breakable = {"b", "feed"}
  MaxFreezes = 1
SPECIFICATION FairSpec
INVARIANTS TypeOK Faithful WaitsForAll NothingStale
 
