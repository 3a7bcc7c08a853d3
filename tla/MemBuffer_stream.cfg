SPECIFICATION StreamSpec
CONSTANTS
  Start = 1
  End = 8
  Cap = 3
  Edges <- NoEdges
  Lens <- AllLens
  Targets <- MCTargets
  MaxI = 4
PROPERTY ImplementsStream
