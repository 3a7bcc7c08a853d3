SPECIFICATION ReaderSpec
CONSTANTS
  Start = 1
  End = 12
  Cap = 4
  Edges <- OnePageEdge
  Lens <- AllLens
  Targets <- MCTargets
  MaxI = 4
INVARIANT NothingLost
PROPERTY ReachesEnd
\* the loop stops at the first error
CHECK_DEADLOCK FALSE
