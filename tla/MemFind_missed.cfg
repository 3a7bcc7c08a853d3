SPECIFICATION Spec
CONSTANTS
  Start = 2
  End = 10
  Cap = 6
  Chunk = 5
  Edges <- NoEdges
  Bytes <- TwoBytes
  Zero = 0
  Any = Any
  Patterns <- OnePattern
  Skips = {2}
  MaxI = 8
INVARIANT NoMatchMissed
\* a panic ends the program
CHECK_DEADLOCK FALSE
