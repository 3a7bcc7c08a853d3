SPECIFICATION Spec
CONSTANTS
  Start = 2
  End = 10
  Cap = 5
  Chunk = 4
  Edges <- NoEdges
  Bytes <- TwoBytes
  Zero = 0
  Any = Any
  Patterns <- MCPatterns
  Skips = {2}
  MaxI = 6
INVARIANT TypeOK
INVARIANT FirstFindSound
INVARIANT FirstFindComplete
PROPERTY SearchEnds
\* a panic ends the program
CHECK_DEADLOCK FALSE
