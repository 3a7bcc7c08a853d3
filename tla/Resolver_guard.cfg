SPECIFICATION Spec
CONSTANTS
  Names <- Two
  Programs <- MutualPointers
  MaxDepth = 8
INVARIANT GuardHolds
\* Resolve returns, or the stack is exhausted
CHECK_DEADLOCK FALSE
