SPECIFICATION Spec
CONSTANTS
  Start = 1
  End = 6
  Cap = 3
  Edges <- OnePageEdge
  Lens <- AllLens
  Targets <- MCTargets
  MaxI = 4
INVARIANT TypeOK
INVARIANT InOrder
INVARIANT WithinRegion
PROPERTY NoRepeat
PROPERTY FailureIsClean
\* a panic ends the program
CHECK_DEADLOCK FALSE
