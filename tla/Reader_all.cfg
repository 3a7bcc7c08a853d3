SPECIFICATION RSpec
CONSTANTS
  Names <- Three
  Programs <- AllPrograms
  MaxDepth = 10
  Lengths <- MCLengths
  MaxLen = 2
  Far = 100
  MaxCalls = 5
  Used <- MCUsed
INVARIANT TypeOK
INVARIANT ResolvedOnce
INVARIANT SizesCaptured
INVARIANT FieldsDisjoint
INVARIANT DependenciesFirst
INVARIANT RTypeOK
INVARIANT FieldsInPlace
PROPERTY ResolveReturns
PROPERTY ReadReturns
\* the client reads once
CHECK_DEADLOCK FALSE
