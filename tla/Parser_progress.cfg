SPECIFICATION Spec
CONSTANTS
  Names = {"A", "a", "x"}
  Numbers = {"1", "2"}
  Chars = {"s"}
  Depth = 300
  Sources <- Traps
INVARIANT AlwaysEnds
\* the file ends, or a call does not come back
CHECK_DEADLOCK FALSE
