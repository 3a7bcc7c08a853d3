SPECIFICATION Spec
CONSTANTS
  Names = {"A", "B", "C", "a", "b", "c", "x", "y", "z"}
  Numbers = {"1", "2"}
  Chars = {"s"}
  Depth = 300
  Sources <- MCSources
INVARIANT TypeOK
INVARIANT Walkable
INVARIANT Composes
INVARIANT TreeByPrecedence
INVARIANT FailureRestores
INVARIANT Ends
\* the file ends, or a call does not come back
CHECK_DEADLOCK FALSE
